SPECIFICATION Spec
CONSTANTS
  rack = rack
  patch = patch
  Request = {rack, patch}
  NumNodes = 2
  Plan <- Apart
  MaxConcurrent = 2
  DrainCap = 1
  Workers = 2
  MaxFaults = 1
  MaxEnds = 1
INVARIANTS
  CordonsAccountedFor
PROPERTIES
  CapHeldWhenCurrent
  EvictsCordonedUnlessShared
  NeverStarved
CHECK_DEADLOCK FALSE
