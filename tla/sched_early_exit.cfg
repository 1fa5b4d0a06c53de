SPECIFICATION Spec
CONSTANTS
  Pool = {w1}
  Main = main
  UseCaller = TRUE
  f1 = f1
  f2 = f2
  Fibers = {f1}
  Pin <- Unpinned
  AnyThread = any
  NoTask = notask
  NoThread = nothread
  MaxWaits = 2
INVARIANT StopDrains
