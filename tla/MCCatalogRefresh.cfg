CONSTANTS
  N = 2
  BatchSize = 1
  Retained = 2
  MaxVersion = 3
  Commands = 1
  Scenarios <- AllScenarios
SPECIFICATION Spec
INVARIANTS
  RowsSound
  SynopsisFresh
  CatalogSettles
PROPERTY TaskAdvances
CHECK_DEADLOCK FALSE
