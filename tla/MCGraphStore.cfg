CONSTANTS
  p1 = p1
  p2 = p2
  a = a
  b = b
  e1 = e1
  e2 = e2
  n1 = n1
  Paths = {p1, p2}
  Contributions = {a}
  Dependencies = {{}, {p1}}
  Edges = {e1}
  Owner <- MCOwner
  Nodes = {}
  Retained = 2
  MaxVersion = 3
SPECIFICATION Spec
INVARIANTS
  TablesSound
  LexicalAgrees
  SealedSessionReads
PROPERTIES
  SnapshotsImmutable
  ImplementsHistory
