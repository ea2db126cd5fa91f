SPECIFICATION Spec
CONSTANTS
  Nodes <- MCNodes
  Relations <- MCRelations
  RelationRank <- MCRelationRank
  Kind <- MCKind
  Path <- MCPath
  NameRank <- MCNameRank
  Suite <- MCSuite
  Qualified <- MCQualified
  Languages <- MCLanguages
  Responses <- MCResponses
  Later <- MCLater
  Invocations <- MCInvocations
  MinimumGrant <- MCMinimumGrant
  ScoreUnit = 495593280
  DistanceUnit = 60
  SlotLimit = 2
  MaxSeeds = 2
  Budget = 2
  CatalogCandidates = 2
  CatalogLimit = 1
INVARIANTS
  PlannersAccountable
  EvidenceSound
  TypeOK
  TraversalAnswer
  PathAnswer
  SeedsFair
  IntersectionSupported
  CatalogBestFirst
CHECK_DEADLOCK FALSE
