SPECIFICATION Spec
CONSTANTS
  NumNodes = 4
  Batch <- ThreeThenOne
  MaxConcurrent = 2
  Budgets = {1, 2}
  FailureThreshold = 1
  UncordonAfter = FALSE
  ReplaceNodes = FALSE
  TargetVersionSet = FALSE
  Exempt = {2}
  Backed = {}
  Modes = {"DryRun", "Advisory", "Execute"}
  Policies = {"AutoApprove"}
  Targets <- AnyNodes
  Removals = FALSE
  TransientAborts = FALSE
  MaxEdits = 1
  MaxCrashes = 0

  
PROPERTIES
  BatchesInOrder
  StartsWithinSlots
CHECK_DEADLOCK FALSE
