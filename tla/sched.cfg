SPECIFICATION FairSpec
CONSTANTS
  Pool = {w1}
  Main = main
  UseCaller = TRUE
  f1 = f1
  f2 = f2
  Fibers = {f1, f2}
  Pin <- FirstOnMain
  AnyThread = any
  NoTask = notask
  NoThread = nothread
  MaxWaits = 1
INVARIANT OneWakeUp
INVARIANT OneRunner
INVARIANT CountersAgree
PROPERTIES ImplementsTaskPool StopReturns FibersFinish
