SPECIFICATION FairSpec
CONSTANTS
  a = a
  b = b
  c = c
  shared = shared
  other = other
  States <- MCStates
  Stores <- MCStores
  StorePath <- MCStorePath
  MaxOps = 4
INVARIANTS
  StoreExclusive
PROPERTIES
  Serialized
  EveryCallSettles
CHECK_DEADLOCK FALSE
