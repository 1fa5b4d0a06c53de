CONSTANTS
  Fds = {f1}
  Waiters = {x1, x2, x3}
  NoWaiter = NoWaiter
  Workers = {w1, w2}
SPECIFICATION FairSpec
INVARIANTS WokenOnce PendingAgrees NoLostEdge AssertionsHold
PROPERTY EventServed
CHECK_DEADLOCK FALSE
