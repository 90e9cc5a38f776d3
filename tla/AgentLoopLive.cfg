SPECIFICATION FairSpec
CONSTANTS
  MaxMsgs = 2
  MaxBatch = 1
  MaxCalls = 2
  MaxToolTurns = 1
  MaxFaults = 0
PROPERTIES
  RunTerminates
