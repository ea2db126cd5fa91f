CONSTANTS
  p1 = p1
  p2 = p2
  p3 = p3
  c1 = c1
  c2 = c2
  None = None
  Servers = {p1, p2, p3}
  Clients = {c1, c2}
  Interruptions = {"idle", "crash", "hangup"}
SPECIFICATION ControlFairSpec
INVARIANTS
  EndpointSound
  ControlTypeOK
PROPERTIES
  RequestEnds
