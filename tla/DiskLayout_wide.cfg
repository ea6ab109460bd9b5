CONSTANTS
  SectorLen = 4096
  Nodes = {0, 1, 2, 3, 4}
  Id2Partition <- MCId2Partition
  GraphPartitions <- MCGraphPartitions
  NbrCount <- MCNbrCount
  BeamWidth = 2
  MaxHops = 2
  Layouts <- MCLayoutsWide
  MaxSectorReads = 4
  Callers <- MCCallersBFS

SPECIFICATION Spec

CHECK_DEADLOCK FALSE

INVARIANTS
  FrontierDecodesOwnRecord
