SPECIFICATION FairSpec
CONSTANTS
  Cos = {a, b}
  StackCount = 1
  Main = main
  Null = null
  Fds = {f}
  WheelSize = 2
  Timeouts = {0, 2}
  MaxNow = 2
  MaxCalls = 5
INVARIANTS TypeOK StackIntact OnTime WakersKept
PROPERTIES WaitsEnd
CHECK_DEADLOCK FALSE
