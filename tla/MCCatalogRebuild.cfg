CONSTANTS
  N = 2
  BatchSize = 1
  Retained = 2
  MaxVersion = 3
  Commands = 0
  Scenarios <- PublisherAlone
SPECIFICATION Spec
INVARIANT RebuildsAfterFailure
CHECK_DEADLOCK FALSE
