SPECIFICATION FairSpec
CONSTANTS
  Stores = {sessions, config}
  MaxOps = 3
INVARIANTS
  NoIdleQueue
PROPERTIES
  WritesSerialized
  EveryWriteRuns
  EveryCallerAnswered
CHECK_DEADLOCK FALSE
