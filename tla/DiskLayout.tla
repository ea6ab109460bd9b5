----------------------------- MODULE DiskLayout -----------------------------
(***************************************************************************)
(* The disk layout decoder of pq_flash_index.cpp: get_node_sector,         *)
(* offset_to_node*, read_nodes, and the frontier reads of                  *)
(* cached_beam_search in the default and in the partition layout.          *)
(*                                                                         *)
(* Memory is abstracted to sectors: a buffer sector holds the file sector  *)
(* last read into it, or Stale.  Reading a field at byte offset o of a     *)
(* buffer yields the file position it came from, so a decode is judged by  *)
(* where in the file its bytes were written.  A query's sector_scratch     *)
(* is reused from hop to hop; read_nodes reads into buffers of its own.    *)
(***************************************************************************)
EXTENDS Integers, Sequences, SequencesExt, FiniteSets

CONSTANTS
  SectorLen,        \* defaults::SECTOR_LEN
  Layouts,          \* [maxNodeLen, dbpp, nps, partition]: _max_node_len,
                    \* _disk_bytes_per_point, _nnodes_per_sector, _use_partition
  Nodes,            \* 0.._num_points - 1
  Id2Partition,     \* _id2partition
  GraphPartitions,  \* _graph_partitions: GraphPartitions[p + 1] lists partition p
  NbrCount,         \* the neighbour count stored in each node's record
  BeamWidth,        \* beam_width
  MaxSectorReads,   \* defaults::MAX_N_SECTOR_READS: sectors of sector_scratch
  MaxHops,          \* hops of a query
  Callers           \* [coords, nbrs]: which buffers a read_nodes caller passes

ASSUME /\ Nodes = 0..(Cardinality(Nodes) - 1)
       /\ Id2Partition \in [Nodes -> Nat]
       /\ GraphPartitions \in Seq(Seq(Nodes))
       /\ Callers \subseteq [coords : BOOLEAN, nbrs : BOOLEAN]

NumPartitions == Len(GraphPartitions)
Stale == [file |-> "none", sector |-> 0]
Garbage == [file |-> "none", pos |-> 0]
Unwritten == [file |-> "unwritten", pos |-> 0]
Buffers == 0..(MaxSectorReads - 1)

\* The file position a read of buffer mem at sector b, byte o, returns.
ReadAt(mem, b, o) ==
  LET s == b + o \div SectorLen IN
  IF s \in DOMAIN mem /\ mem[s] # Stale
  THEN [file |-> mem[s].file, pos |-> mem[s].sector * SectorLen + (o % SectorLen)]
  ELSE Garbage

VARIABLES
  layout,    \* the loaded index's layout
  pc,        \* "start", "select", "decode", "done" or "thrown"
  hop,       \* hops done
  frontier,  \* the frontier ids of the current hop
  fnhood,    \* frontier_nhoods[i].second as a sector index of sector_scratch
  scratch,   \* sector_scratch: buffer sector -> file sector read into it
  decoded,   \* decoded[i]: where frontier[i]'s coords and count were read from
  caller,    \* the read_nodes caller of the last call
  ids,       \* its node_ids
  result     \* its return value and buffer contents

vars == <<layout, pc, hop, frontier, fnhood, scratch, decoded,
          caller, ids, result>>

-----------------------------------------------------------------------------
\* DIV_ROUND_UP(_max_node_len, SECTOR_LEN) when nodes span sectors.
NumSectorsPerNode(lay) ==
  IF lay.nps > 0 THEN 1 ELSE (lay.maxNodeLen + SectorLen - 1) \div SectorLen

\* A variant of get_node_sector without the metadata sector;
\* ReadNodesNbrsSound detects it.
GetNodeSectorNoHeader(lay, id) ==
  IF lay.nps > 0 THEN id \div lay.nps
  ELSE id * ((lay.maxNodeLen + SectorLen - 1) \div SectorLen)

GetNodeSector(lay, id) ==
  1 + (IF lay.nps > 0 THEN id \div lay.nps
       ELSE id * ((lay.maxNodeLen + SectorLen - 1) \div SectorLen))

OffsetToNode(lay, id) ==
  IF lay.nps = 0 THEN 0 ELSE (id % lay.nps) * lay.maxNodeLen

\* _graph_node_len as load_graph_index derives it.
GraphNodeLen(lay) == lay.maxNodeLen - lay.dbpp

\* j: the position of id in its partition's list (std::find), 0 if absent.
PartitionPos(id) == SelectInSeq(GraphPartitions[Id2Partition[id] + 1], LAMBDA x : x = id)

\* A variant of the partition checks of read_nodes without the test that
\* the neighbour ids fit in the sector; ReadNodesComplete detects it.
PartitionRecordOkNoNeeded(lay, id) ==
  /\ Id2Partition[id] < NumPartitions
  /\ PartitionPos(id) > 0
  /\ (PartitionPos(id) - 1) * GraphNodeLen(lay) + 4 <= SectorLen

\* The checks of the partition path of read_nodes, in order.
PartitionRecordOk(lay, id) ==
  /\ Id2Partition[id] < NumPartitions
  /\ PartitionPos(id) > 0
  /\ (PartitionPos(id) - 1) * GraphNodeLen(lay) + 4 <= SectorLen
  /\ (PartitionPos(id) - 1) * GraphNodeLen(lay) + 4 + 4 * NbrCount[id] <= SectorLen

\* Where the partition path reads id's count: its partition's sector, at
\* j * _graph_node_len.
PartitionCountPos(lay, id) ==
  [file |-> "graph",
   pos |-> (Id2Partition[id] + 1) * SectorLen + (PartitionPos(id) - 1) * GraphNodeLen(lay)]

\* read_nodes: one call with the buffers of caller c.
ReadNodes(lay, ns, c) ==
  IF ~lay.partition
  THEN LET mem == [b \in 0..(Len(ns) * NumSectorsPerNode(lay) - 1) |->
                     [file |-> "index",
                      sector |-> GetNodeSector(lay, ns[b \div NumSectorsPerNode(lay) + 1])
                                 + (b % NumSectorsPerNode(lay))]]
           at(i) == (i - 1) * NumSectorsPerNode(lay)
       IN  [i \in 1..Len(ns) |->
              [ok |-> TRUE,
               coords |-> IF c.coords THEN ReadAt(mem, at(i), OffsetToNode(lay, ns[i])) ELSE Garbage,
               nhood |-> IF c.nbrs THEN ReadAt(mem, at(i), OffsetToNode(lay, ns[i]) + lay.dbpp)
                         ELSE Garbage]]
  ELSE [i \in 1..Len(ns) |->
          [ok |-> ~c.nbrs \/ PartitionRecordOk(lay, ns[i]),
           coords |-> IF c.coords THEN Unwritten ELSE Garbage,
           nhood |-> IF c.nbrs /\ PartitionRecordOk(lay, ns[i])
                     THEN PartitionCountPos(lay, ns[i]) ELSE Garbage]]

\* The frontier ids a hop may read: distinct nodes, at most beam_width; in
\* the partition layout only nodes whose records the asserts accept.
Frontiers(lay) ==
  UNION {SetToSeqs(S) : S \in {S \in SUBSET Nodes :
           /\ 1 <= Cardinality(S) /\ Cardinality(S) <= BeamWidth
           /\ lay.partition => \A id \in S : PartitionRecordOk(lay, id)}}

Init ==
  /\ layout \in Layouts
  /\ pc = "start" /\ hop = 0
  /\ frontier = <<>> /\ fnhood = <<>> /\ decoded = <<>>
  /\ scratch = [b \in Buffers |-> Stale]
  /\ caller = [coords |-> FALSE, nbrs |-> FALSE] /\ ids = <<>> /\ result = <<>>

\* The beam_width check at the top of cached_beam_search.
Start ==
  /\ pc = "start"
  /\ pc' = IF BeamWidth > ((layout.maxNodeLen + SectorLen - 1) \div SectorLen) * MaxSectorReads
           THEN "thrown" ELSE "select"
  /\ UNCHANGED <<layout, hop, frontier, fnhood, scratch, decoded, caller, ids, result>>

\* A variant of the hop's requests with one sector of sector_scratch per
\* node, whatever num_sectors_per_node; FrontierDecodesOwnRecord detects it.
FrontierReqsUnstrided(lay, f, fn) ==
  IF ~lay.partition
  THEN {[file |-> "index", sector |-> GetNodeSector(lay, f[i]),
         len |-> NumSectorsPerNode(lay), buf |-> i - 1] : i \in 1..Len(f)}
  ELSE {[file |-> "graph", sector |-> Id2Partition[f[i]] + 1, len |-> 1, buf |-> i - 1]
          : i \in 1..Len(f)}

\* The read requests of a hop: frontier_read_reqs at get_node_sector in the
\* default layout, graph_read_reqs at the partition's sector otherwise.
FrontierReqs(lay, f, fn) ==
  IF ~lay.partition
  THEN {[file |-> "index", sector |-> GetNodeSector(lay, f[i]),
         len |-> NumSectorsPerNode(lay), buf |-> fn[i]] : i \in 1..Len(f)}
  ELSE {[file |-> "graph", sector |-> Id2Partition[f[i]] + 1, len |-> 1, buf |-> i - 1]
          : i \in 1..Len(f)}

\* A hop's reads: each frontier node gets num_sectors_per_node sectors of
\* sector_scratch, the requests are built and read synchronously.
ReadFrontier ==
  /\ pc = "select"
  /\ \E f \in Frontiers(layout) :
       LET fn == [i \in 1..Len(f) |-> NumSectorsPerNode(layout) * (i - 1)]
           reqs == FrontierReqs(layout, f, fn)
       IN  /\ frontier' = f
           /\ fnhood' = fn
           /\ scratch' = [b \in Buffers |->
                            IF \E r \in reqs : r.buf <= b /\ b < r.buf + r.len
                            THEN LET r == CHOOSE r \in reqs : r.buf <= b /\ b < r.buf + r.len
                                 IN  [file |-> r.file, sector |-> r.sector + b - r.buf]
                            ELSE scratch[b]]
  /\ decoded' = <<>>
  /\ pc' = "decode"
  /\ UNCHANGED <<layout, hop, caller, ids, result>>

\* The decode of each frontier node: offset_to_node into its buffer, then
\* the coords and, in the default layout, the count after them; in the
\* partition layout the count at j * _graph_node_len.
DecodeFrontier ==
  /\ pc = "decode"
  /\ decoded' =
       [i \in 1..Len(frontier) |->
          LET id == frontier[i]
              nb == OffsetToNode(layout, id)
          IN  [coords |-> ReadAt(scratch, fnhood[i], nb),
               nhood |-> IF ~layout.partition
                         THEN ReadAt(scratch, fnhood[i], nb + layout.dbpp)
                         ELSE ReadAt(scratch, fnhood[i],
                                     (PartitionPos(id) - 1) * GraphNodeLen(layout))]]
  /\ hop' = hop + 1
  /\ pc' = IF hop + 1 < MaxHops THEN "select" ELSE "done"
  /\ UNCHANGED <<layout, frontier, fnhood, scratch, caller, ids, result>>

\* A call of read_nodes by one of its callers (the medoid centroids, the
\* cache list, the BFS levels) on up to two nodes.
ReadNodesCall ==
  /\ pc \in {"select", "done"}
  /\ \E c \in Callers, S \in SUBSET Nodes :
       /\ 1 <= Cardinality(S) /\ Cardinality(S) <= 2
       /\ \E ns \in SetToSeqs(S) :
            /\ caller' = c /\ ids' = ns
            /\ result' = ReadNodes(layout, ns, c)
  /\ UNCHANGED <<layout, pc, hop, frontier, fnhood, scratch, decoded>>

Next == Start \/ ReadFrontier \/ DecodeFrontier \/ ReadNodesCall

Spec == Init /\ [][Next]_vars

-----------------------------------------------------------------------------
\* The writer's layout (spec 4.5): records in id order from sector 1, each
\* in the rest of the current sector if it fits there, else from the next
\* sector boundary.
RECURSIVE RecStart(_, _)
RecStart(lay, id) ==
  IF id = 0 THEN SectorLen
  ELSE LET next == RecStart(lay, id - 1) + lay.maxNodeLen
           boundary == ((next + SectorLen - 1) \div SectorLen) * SectorLen
       IN  IF (next % SectorLen) + lay.maxNodeLen <= SectorLen THEN next ELSE boundary

\* Where id's coordinates and neighbour count were written (spec 4.5, 6.3).
CoordsHome(lay, id) == [file |-> "index", pos |-> RecStart(lay, id)]
NhoodHome(lay, id) ==
  IF ~lay.partition THEN [file |-> "index", pos |-> RecStart(lay, id) + lay.dbpp]
  ELSE LET p == Id2Partition[id]
           j == CHOOSE j \in 1..Len(GraphPartitions[p + 1]) : GraphPartitions[p + 1][j] = id
       IN  [file |-> "graph", pos |-> (p + 1) * SectorLen + (j - 1) * GraphNodeLen(lay)]

\* A node's record fits in its partition's sector (spec 6.3).
RecordFits(lay, id) ==
  /\ Id2Partition[id] < NumPartitions
  /\ \E j \in 1..Len(GraphPartitions[Id2Partition[id] + 1]) :
       /\ GraphPartitions[Id2Partition[id] + 1][j] = id
       /\ (j - 1) * GraphNodeLen(lay) + 4 + 4 * NbrCount[id] <= SectorLen

\* Spec 4.5 and S3: over several hops that reuse sector_scratch, every
\* frontier node's neighbour list (and, in the default layout, its
\* coordinates) is decoded from that node's own record.
FrontierDecodesOwnRecord ==
  \A i \in DOMAIN decoded :
    /\ decoded[i].nhood = NhoodHome(layout, frontier[i])
    /\ ~layout.partition => decoded[i].coords = CoordsHome(layout, frontier[i])

\* Spec 4.4 and 4.5: a read_nodes entry reported as read holds the node's
\* own neighbour list, when its caller passed a neighbour buffer.
ReadNodesNbrsSound ==
  \A i \in DOMAIN result :
    result[i].ok /\ caller.nbrs => result[i].nhood = NhoodHome(layout, ids[i])

\* Spec 4.5: a read_nodes entry reported as read holds the node's own
\* coordinates, when its caller passed a coordinate buffer; in partition
\* mode these are what the node cache and the medoid centroids are made of.
ReadNodesCoordsSound ==
  \A i \in DOMAIN result :
    result[i].ok /\ caller.coords => result[i].coords = CoordsHome(layout, ids[i])

\* read_nodes fails an entry exactly when the partition files do not hold
\* a record for it within its sector.
ReadNodesComplete ==
  \A i \in DOMAIN result :
    result[i].ok = (layout.partition /\ caller.nbrs => RecordFits(layout, ids[i]))
=============================================================================
