SPECIFICATION Spec
CONSTANTS
  NumNodes = 2
  Batch <- OneBatch
  MaxConcurrent = 2
  Budgets = {1, 2}
  FailureThreshold = 1
  UncordonAfter = TRUE
  ReplaceNodes = FALSE
  TargetVersionSet = FALSE
  Exempt = {}
  Backed = {}
  Modes = {"Execute"}
  Policies = {"AutoApprove"}
  Targets <- AllNodes
  Removals = FALSE
  TransientAborts = FALSE
  MaxEdits = 2
  MaxCrashes = 1
INVARIANTS
  OwnedCordonIsTracked
  
  CompletedMeansDone
  AuditedOnce
  NoLostWakeup
PROPERTIES
  EvictsOnlyCordoned
  TerminalIsFinal
CHECK_DEADLOCK FALSE
