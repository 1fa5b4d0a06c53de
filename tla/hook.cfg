CONSTANTS
  Fibers = {a, b}
  NoFiber = NoFiber
  Timed = {a, b}
  MaxData = 2
  MaxFiles = 2
SPECIFICATION FairSpec
INVARIANTS OneWake OwnTimeout
PROPERTIES ReaderWakes TimeoutWakes
CHECK_DEADLOCK FALSE
