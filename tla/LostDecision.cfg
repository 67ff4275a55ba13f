SPECIFICATION Spec
CONSTANTS
  Replica = {r1, r2}
  User = {alice}
  Starts <- NoStart
  MaxClicks = 2
  MaxTime = 2
PROPERTIES
  OtherGateKept
CHECK_DEADLOCK FALSE
