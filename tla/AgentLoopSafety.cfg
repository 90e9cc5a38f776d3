SPECIFICATION Spec
CONSTANTS
  MaxMsgs = 2
  MaxBatch = 2
  MaxCalls = 2
  MaxToolTurns = 1
  MaxFaults = 1
INVARIANTS
  TypeOK
  IdleIsClean
  NothingVanishes
  RequestSeesTranscript
  ToolCallsAnswered
  PendingToolCallsTracked
  AnsweredAtEnd
PROPERTIES
  AbortStops
