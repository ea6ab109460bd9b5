--------------------------- MODULE MC_DiskLayout ---------------------------
EXTENDS DiskLayout

\* Packed: four 1000-byte nodes per sector, so node 4 opens sector 2.
Packed == [maxNodeLen |-> 1000, dbpp |-> 512, nps |-> 4, partition |-> FALSE]
\* Nodes of two sectors each (1024-dim float vectors plus adjacency).
MultiSector == [maxNodeLen |-> 5000, dbpp |-> 4096, nps |-> 0, partition |-> FALSE]
\* Partition layout with 2000-byte adjacency records, one sector a node.
Partitioned == [maxNodeLen |-> 2512, dbpp |-> 512, nps |-> 0, partition |-> TRUE]
\* Partition layout for 1024-dim vectors: the same records, two sectors a node.
PartitionedWide == [maxNodeLen |-> 6096, dbpp |-> 4096, nps |-> 0, partition |-> TRUE]

\* Partition 0 holds 0, 1, 3 (3's neighbours overrun the sector), partition
\* 1 holds 2; node 4 names a partition that does not exist.
MCId2Partition == 0 :> 0 @@ 1 :> 0 @@ 2 :> 1 @@ 3 :> 0 @@ 4 :> 2
MCGraphPartitions == << <<0, 1, 3>>, <<2>> >>
MCNbrCount == 0 :> 3 @@ 1 :> 5 @@ 2 :> 2 @@ 3 :> 30 @@ 4 :> 1

MCLayoutsPass == {Packed, MultiSector, Partitioned}
MCLayoutsPartitioned == {Partitioned}
MCLayoutsWide == {PartitionedWide}
MCCallers == {[coords |-> TRUE, nbrs |-> FALSE], [coords |-> TRUE, nbrs |-> TRUE],
              [coords |-> FALSE, nbrs |-> TRUE]}
\* cache_bfs_levels passes neighbour buffers only.
MCCallersBFS == {[coords |-> FALSE, nbrs |-> TRUE]}
=============================================================================
