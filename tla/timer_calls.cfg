CONSTANTS
  Timers = {t1, t2}
  Durations = {0, 1}
  Unit = 8
  Hour = 1
  MaxTick = 2
  MaxReads = 4
  MaxBack = 1
SPECIFICATION FairSpec
INVARIANTS TypeOK ArmedInHeap
PROPERTIES ImplementsService ListReturns
CHECK_DEADLOCK FALSE
