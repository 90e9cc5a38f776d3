SPECIFICATION Spec
CONSTANTS
  MaxCalls = 3
  MaxWrites = 0
  MaxMsgs = 0
  MaxNext = 0
  MaxAborts = 0
  MaxFaults = 0
  Serial = FALSE
INVARIANT
  CompactionAlone
CHECK_DEADLOCK FALSE
