CONSTANTS
  NoNode = NoNode
  Nodes <- MCNodes
  Adj <- MCAdj
  Medoids <- MCMedoids
  CentroidDist <- MCCentroidDist
  ExactDist <- MCExactDist
  PQDist <- MCPQDist
  OriginDist = 7
  MaxDist = 7
  Cache = {}
  DummyToReal <- MCDummyToReal
  K = 2
  L = 3
  BeamWidth = 2
  IoLimits = {100}
  NoIoLimit = 100
  Modes <- MCModesMemo
  NoLabel = NoLabel
  PointLabels <- MCPointLabels
  FilterMedoids <- MCFilterMedoids
  UniversalLabel = 9
  FilterLabels = {}
  FetchOutcomes = {"ok"}

SPECIFICATION Spec
CHECK_DEADLOCK FALSE

INVARIANT
  ResultDistancesSound
