SPECIFICATION Spec
CONSTANTS
  Node = {1, 2, 3, 4, 5}
  ControlPlane = {1}
  HasMachine = {2, 3}
  AtVersion = {4}
  MaxResults = 4
  MinuteLen = 2
  HourLen = 2
  DayLen = 2
  WeekLen = 2
  MonthLen = 3
  YearLen = 2
  Requests <- All
  PolicySets <- Sets
  Clusters <- Some
  Starts <- NewYear
  MaxTime = 97
  MaxChanges = 1
  WindowEdits <- Edited
  Headrooms = {5, 20}
  Zone <- Zones
  Pool <- Pools
INVARIANTS
  TypeOK
  OpenWithinDuration
PROPERTIES
  OpensWhenAnnounced
  BeginsInsideWindows
  PlannedIsVetted
  PlannedWithinLimit
  PlanSharesOutTarget
  ReportedValidNeverErrs
CHECK_DEADLOCK FALSE
