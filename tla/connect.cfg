CONSTANTS
  Fibers = {a}
  Timed = {a}
SPECIFICATION ConnectFairSpec
INVARIANTS ConnectTruth
PROPERTY ConnectReturns
CHECK_DEADLOCK FALSE
