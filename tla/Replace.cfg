SPECIFICATION FairSpec
CONSTANTS
  NumNodes = 2
  Batch <- OnePerBatch
  MaxConcurrent = 1
  Budgets = {0, 1}
  FailureThreshold = 2
  UncordonAfter = TRUE
  ReplaceNodes = TRUE
  TargetVersionSet = TRUE
  Exempt = {}
  Backed = {1, 2}
  Modes = {"Execute"}
  Policies = {"AutoApprove"}
  Targets <- AllNodes
  Removals = TRUE
  TransientAborts = FALSE
  MaxEdits = 0
  MaxCrashes = 1

  
PROPERTIES
  
  TimedOutEnds
CHECK_DEADLOCK FALSE
