CONSTANTS
  SectorLen = 4096
  Nodes = {0, 1, 2, 3, 4}
  Id2Partition <- MCId2Partition
  GraphPartitions <- MCGraphPartitions
  NbrCount <- MCNbrCount
  BeamWidth = 2
  MaxHops = 2
  Layouts <- MCLayoutsPass
  MaxSectorReads = 4
  Callers <- MCCallers

SPECIFICATION Spec

\* A query ends after MaxHops hops; read_nodes calls may follow.
CHECK_DEADLOCK FALSE

INVARIANTS
  FrontierDecodesOwnRecord
  ReadNodesNbrsSound
  ReadNodesComplete
