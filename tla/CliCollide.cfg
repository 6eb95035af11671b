\* An id names both a refused and an admitted chunk.
CONSTANTS
  c1 = c1
  c2 = c2
  p1 = p1
  p2 = p2
  Calls = {c1}
  Processes = {p1}
  HostOf <- MCHostOf
  Commands <- MCCollideCommands
  Scenarios <- MCScenarios
SPECIFICATION Spec
INVARIANTS
  RefusedNeverGrounds
