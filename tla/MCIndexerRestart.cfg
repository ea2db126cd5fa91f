CONSTANTS
  p1 = p1
  p2 = p2
  p3 = p3
  c1 = c1
  c2 = c2
  None = None
  Servers = {p1, p2}
  Clients = {c1}
  Interruptions = {}
SPECIFICATION ControlSpec
INVARIANTS
  StartFindsServer
