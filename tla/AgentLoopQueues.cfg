SPECIFICATION Spec
CONSTANTS
  MaxMsgs = 3
  MaxBatch = 1
  MaxCalls = 1
  MaxToolTurns = 1
  MaxFaults = 0
INVARIANTS
  FifoAndOnce
