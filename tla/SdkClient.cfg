SPECIFICATION FairSpec
CONSTANTS
  c1 = c1
  c2 = c2
  r1 = r1
  r2 = r2
  Callers = {c1, c2}
  Runs = {r1, r2}
  Calls <- MCCalls
  Traffic <- MCTraffic
  MaxEvents = 3
  RawLimit = 1
  MaxReplayRuns = 1
  MaxReplayEvents = 1
INVARIANTS
  TypeOK
  NoGap
  TerminalDelivered
  CloseDrains
PROPERTIES
  ConnectReturns
  ConsumersEnd
  CloseCompletes
CHECK_DEADLOCK FALSE
