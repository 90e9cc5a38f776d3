SPECIFICATION FairSpec
CONSTANTS
  MaxCalls = 2
  MaxWrites = 2
  MaxMsgs = 2
  MaxNext = 2
  MaxAborts = 1
  MaxFaults = 1
  Serial = TRUE
INVARIANTS
  PhaseTells
  WritesOnceInOrder
  SteeringAccounted
  NextTurnInOrder
  AbortReachesLoop
PROPERTIES
  IdleAfterTurnIsFlushed
  IdleAgain
  CallsEnd
CHECK_DEADLOCK FALSE
