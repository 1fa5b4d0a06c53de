CONSTANTS
  Threads = {t1, t2}
  Fds = {2, 3, 4}
  DatasSize = 2
  ContextsSize = 2
SPECIFICATION Spec
SYMMETRY Symmetric
INVARIANTS CtxStays EventsFound
