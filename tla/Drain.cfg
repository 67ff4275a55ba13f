SPECIFICATION Spec
CONSTANTS
  web = web
  job = job
  daemon = daemon
  Pod = {web, job, daemon}
  Exempted = {daemon}
  Protected = {web}
  DefaultGrace = 0
  StuckSlack = 1
  DrainTimeout = 0
  MaxAllowed = 1
  MaxFaults = 1
  MaxFlips = 1
INVARIANTS
  TypeOK
PROPERTIES
  DrainedOverUnseenOnly
  
  LeavingUnlessRefused
  DrainEnds
  DrainSucceeds
CHECK_DEADLOCK FALSE
