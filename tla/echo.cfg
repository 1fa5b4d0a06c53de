SPECIFICATION MCFairSpec
CONSTANTS
  Clients = {c1, c2}
  MaxFd = 2
  MaxSends = 3
  Null = null
  Tasks = {t1, t2}
  Acceptor = acceptor
INVARIANTS TypeOK OneHandler
PROPERTY NobodyHangs
CHECK_DEADLOCK FALSE
