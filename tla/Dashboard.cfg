SPECIFICATION Spec
CONSTANTS
  Replica = {r1, r2}
  User = {alice}
  Starts <- HandMade
  MaxClicks = 3
  MaxTime = 2
INVARIANTS
  NoDuplicateGates
PROPERTIES
  ControlsKept
  ClickDecides
CHECK_DEADLOCK FALSE
