SPECIFICATION Spec
CONSTANTS
  NumNodes = 1
  Batch <- OneBatch
  MaxConcurrent = 1
  Budgets = {0, 1}
  FailureThreshold = 1
  UncordonAfter = TRUE
  ReplaceNodes = TRUE
  TargetVersionSet = FALSE
  Exempt = {}
  Backed = {1}
  Modes = {"Execute"}
  Policies = {"AutoApprove"}
  Targets <- AllNodes
  Removals = FALSE
  TransientAborts = FALSE
  MaxEdits = 0
  MaxCrashes = 1
INVARIANTS
  BackedNodesAreReplaced
CHECK_DEADLOCK FALSE
