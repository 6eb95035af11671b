CONSTANTS
  c1 = c1
  c2 = c2
  Clients = {c1, c2}
  Adapters <- MCAdapters
  Tenants = {"acme", "globex"}
  Graphs <- MCGraphs
SPECIFICATION Spec
SYMMETRY ClientSymmetry
INVARIANTS
  ConstraintsBeforeWrites
  AcknowledgedIsRead
PROPERTIES
  ImplementsReference
