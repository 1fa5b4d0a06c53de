CONSTANTS
  Workers = {w1, w2}
  Others = {o1}
  MaxTimeout = 2
  MaxTime = 3
SPECIFICATION WakeupSpec
SYMMETRY Symmetric
INVARIANT NoOversleep
