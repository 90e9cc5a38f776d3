SPECIFICATION WaitSpec
CONSTANTS
  MaxMsgs = 1
  MaxBatch = 1
  MaxCalls = 0
  MaxToolTurns = 0
  MaxFaults = 0
PROPERTIES
  WaitForIdleReturns
CHECK_DEADLOCK FALSE
