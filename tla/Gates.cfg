SPECIFICATION Spec
CONSTANTS
  NumNodes = 1
  Batch <- OneBatch
  MaxConcurrent = 1
  Budgets = {0, 1}
  FailureThreshold = 1
  UncordonAfter = TRUE
  ReplaceNodes = FALSE
  TargetVersionSet = FALSE
  Exempt = {}
  Backed = {}
  Modes = {"Execute"}
  Policies = {"ManualBeforeBoth", "AutoApprove"}
  Targets <- AllNodes
  Removals = FALSE
  TransientAborts = TRUE
  MaxEdits = 3
  MaxCrashes = 0
INVARIANTS
  TypeOK
  DrainGateRespected
  GateMatchesProgress
  UncordonGateRespected
  BlockedIsRetryable
PROPERTIES
  ImplementsLifecycle
CHECK_DEADLOCK FALSE
