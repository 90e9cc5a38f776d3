SPECIFICATION FairSpec
CONSTANTS
  Threads = {t1, t2, t3, t4}
  None = None
  Timeout = 2
  Interval = 1
  MaxArms = 3
  MaxTouches = 1
INVARIANTS
  TypeOK
  ArmedIsWatched
  StopLeavesNoTimer
  ReportOnce
PROPERTIES
  StallReported
