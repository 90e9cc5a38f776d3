SPECIFICATION FairSpec
CONSTANTS
  MaxMsgs = 1
  MaxBatch = 1
  MaxCalls = 0
  MaxToolTurns = 0
  MaxFaults = 1
PROPERTIES
  NoContinuationFromAssistant
