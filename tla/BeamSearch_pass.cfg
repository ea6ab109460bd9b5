CONSTANTS
  NoNode = NoNode
  Nodes <- MCNodes
  Adj <- MCAdj
  Medoids <- MCMedoids
  CentroidDist <- MCCentroidDist
  ExactDist <- MCExactDist
  PQDist <- MCPQDist
  OriginDist = 7
  MaxDist = 7
  Cache = {0, 2}
  DummyToReal <- MCDummyToReal
  K = 2
  L = 3
  BeamWidth = 2
  IoLimits = {1, 100}
  NoIoLimit = 100
  Modes <- MCModesPass
  NoLabel = NoLabel
  PointLabels <- MCPointLabels
  FilterMedoids <- MCFilterMedoids
  UniversalLabel = 9
  FilterLabels = {1, 2, 3}
  FetchOutcomes = {"ok", "fail"}

SPECIFICATION Spec

\* A query returns; its final state has no successor.
CHECK_DEADLOCK FALSE

INVARIANTS
  TypeOK
  NoDuplicateExpansion
  ResultDistancesSound
  ResultIsBestExpanded
  ResultMatchesFilter
  BindingResultIdsDistinct

PROPERTIES
  Termination
