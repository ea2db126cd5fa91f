CONSTANTS
  p1 = p1
  p2 = p2
  s1 = s1
  s2 = s2
  c1 = c1
  c2 = c2
  Paths = {p1, p2}
  Reconciles = TRUE
  RetryBase = 1
  RetryMax = 2
  Stoppers = {s1, s2}
  Calls = {c1, c2}
  MaxStarts = 2
  MaxFaults = 1
SYMMETRY Symmetry
SPECIFICATION Spec
INVARIANTS
  PublisherSound
  QueueSound
  ReconciliationSound
  WorkScheduled
