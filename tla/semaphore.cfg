SPECIFICATION FairSpec
CONSTANTS
  Workers = {w1}
  Root = root
  Tasks = {a, b, c}
  a = a
  b = b
  c = c
  None = None
  Scenarios <- MCScenarios
  MainCalls = 2
  Initial = 0
  SizeMax = 7
INVARIANTS TypeOK OwnStack UnitsKept GuardsExclude AbortsOnlyLate
PROPERTIES NotifiedReturns
CHECK_DEADLOCK FALSE
