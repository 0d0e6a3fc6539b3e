SPECIFICATION Spec
CONSTANTS
  selection = selection
  validity = validity
  s1 = s1
  s2 = s2
  k1 = k1
  k2 = k2
  None = None
  Metric = {selection, validity}
  Unit = 4
  Policies <- MCPolicies
  Tables <- MCTables
  Suites = {s1, s2}
  Contracts = {k1, k2}
  Reports <- MCReports
  Thresholds = {None, 0, 2}
INVARIANTS GreenIsJudged
PROPERTIES WorseNeverHelps
