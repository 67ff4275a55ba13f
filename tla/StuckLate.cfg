SPECIFICATION Spec
CONSTANTS
  web = web
  job = job
  daemon = daemon
  Pod = {web, job, daemon}
  Exempted = {daemon}
  Protected = {web}
  DefaultGrace = 1
  StuckSlack = 0
  DrainTimeout = 0
  MaxAllowed = 1
  MaxFaults = 0
  MaxFlips = 0
PROPERTIES
  StuckReported
CHECK_DEADLOCK FALSE
