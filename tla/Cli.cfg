\* No id names both a refused and an admitted chunk.
CONSTANTS
  c1 = c1
  c2 = c2
  p1 = p1
  p2 = p2
  Calls = {c1, c2}
  Processes = {p1, p2}
  HostOf <- MCHostOf
  Commands <- MCCommands
  Scenarios <- MCScenarios
SPECIFICATION Spec
INVARIANTS
  AllowedIsDeliverable
  RefusedNeverGrounds
  CheckedGraphValidates
  BenchCountsItsOwn
  MeasuresTheGuard
PROPERTIES
  RewriteRestores
