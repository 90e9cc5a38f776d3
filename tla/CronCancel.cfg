SPECIFICATION FairSpec
CONSTANTS
  a = a
  b = b
  c = c
  shared = shared
  other = other
  States <- MCStates
  Stores <- MCStores
  StorePath <- MCStorePath
  MaxOps = 2
INVARIANTS
  OnlyCancelledCallsAreSkipped
CHECK_DEADLOCK FALSE
