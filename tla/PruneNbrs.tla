------------------------------ MODULE PruneNbrs ------------------------------
(***************************************************************************)
(* prune_node_nbrs, the lambda of cached_beam_search that cuts a neighbour *)
(* list before its distances are computed, and aq_priority_queue, the     *)
(* per-query min-heap of <<PQ distance, id>> pairs that global pruning     *)
(* keeps across calls.  The lambda rewrites node_nbrs and nnbrs in place:  *)
(* node_nbrs is the frontier node's adjacency inside the sector buffer, or *)
(* batched_node_ids.data() under batch_recompute, and the caller then      *)
(* computes nnbrs distances into dist_scratch or batched_dists and inserts *)
(* every returned id into visited.                                         *)
(*                                                                         *)
(* A query of a recompute search is abstracted to the neighbour lists it *)
(* meets in order: a pruned list (a frontier node's adjacency, or a hop's *)
(* batch) or the list of a cached node, which is visited unpruned.  The   *)
(* PQ distance is a function of the id, as pq_dist_lookup makes it for one *)
(* query.  Lists of at most ten ids are never pruned, so the lists here   *)
(* have more ids than BeamSearch's graph.                                 *)
(***************************************************************************)
EXTENDS Naturals, Sequences, SequencesExt

CONSTANTS
  PQD,          \* PQD[id]: the PQ distance of id to the query
  PrunedLists,  \* lists handed to prune_node_nbrs: adjacency lists and batches
  CachedLists,  \* adjacency lists of cached nodes
  PruneRatios,  \* the caller's prune_ratio values, as <<numerator, denominator>>
  MaxLists      \* the lists a query meets, at most

VARIABLES
  global,       \* global_pruning
  ratio,        \* prune_ratio as passed
  heap,         \* aq_priority_queue, in pop order
  visited,      \* query_scratch->visited
  lists,        \* the lists met so far
  lastIn,       \* node_nbrs and nnbrs passed to the latest prune_node_nbrs
  lastOut       \* node_nbrs and nnbrs it left

vars == <<global, ratio, heap, visited, lists, lastIn, lastOut>>

\* Lists of at most this many neighbours are never pruned, and the local cut
\* keeps at least this many.
PruneFloor == 10

\* prune_ratio = 1 - prune_ratio on entry to cached_beam_search: the share
\* kept, as a fraction.
KeepNum(r) == r[2] - r[1]
KeepDen(r) == r[2]

\* The heap's pop order: std::greater on <<distance, id>>.
Before(a, b) == PQD[a] < PQD[b] \/ (PQD[a] = PQD[b] /\ a < b)

\* aq_priority_queue.push, the heap kept as its pop order.
HeapPush(h, x) ==
  LET i == Len(SelectSeq(h, LAMBDA y : ~Before(x, y)))
  IN  SubSeq(h, 1, i) \o <<x>> \o SubSeq(h, i + 1, Len(h))

RECURSIVE PushAll(_, _)
PushAll(h, ids) == IF ids = <<>> THEN h ELSE PushAll(HeapPush(h, Head(ids)), Tail(ids))

\* The iterations of `for (i = 0; i < prune_ratio * original_size; i++)`.
CutSize(n, r) == Len(SelectSeq([i \in 1..n |-> i - 1], LAMBDA i : i * KeepDen(r) < KeepNum(r) * n))

\* A variant of PruneGlobal that keeps every popped id, visited or not;
\* PruneFitsBuffer detects it.
PruneGlobalNoVisitCheck(q, seen, nbrs, r) ==
  LET h == PushAll(q, nbrs)
  IN  [heap |-> h, nbrs |-> SubSeq(h, 1, CutSize(Len(h), r))]

\* The global branch: push every neighbour, pop the top prune_ratio share of
\* the whole heap, keep the popped ids that are not visited, push the popped
\* pairs back, and write the kept ids over node_nbrs.
PruneGlobal(q, seen, nbrs, r) ==
  LET h   == PushAll(q, nbrs)
      top == SubSeq(h, 1, CutSize(Len(h), r))
  IN  [heap |-> h, nbrs |-> SelectSeq(top, LAMBDA x : x \notin seen)]

\* The local branch: sort by PQ distance and keep max(10, nnbrs * ratio)
\* when that is fewer.  std::sort orders equal distances arbitrarily; the
\* ids checked have distinct distances.
PruneLocal(nbrs, r) ==
  LET n    == Len(nbrs)
      cut  == (n * KeepNum(r)) \div KeepDen(r)
      newN == IF cut > PruneFloor THEN cut ELSE PruneFloor
  IN  IF newN < n THEN SubSeq(PushAll(<<>>, nbrs), 1, newN) ELSE nbrs

\* prune_node_nbrs of a recompute search: lists of at most ten neighbours
\* are returned as they are.
PruneNodeNbrs(q, seen, nbrs, isGlobal, r) ==
  CASE Len(nbrs) <= PruneFloor -> [heap |-> q, nbrs |-> nbrs]
    [] isGlobal                -> PruneGlobal(q, seen, nbrs, r)
    [] OTHER                   -> [heap |-> q, nbrs |-> PruneLocal(nbrs, r)]

Init ==
  /\ global \in BOOLEAN /\ ratio \in PruneRatios
  /\ heap = <<>> /\ visited = {} /\ lists = 0
  /\ lastIn = <<>> /\ lastOut = <<>>

\* A frontier node's adjacency without batch_recompute, or a hop's batch
\* with it: prune, then compute distances for the nnbrs ids left and insert
\* each into visited.
ExpandPruned(nbrs) ==
  /\ lists < MaxLists
  /\ LET p == PruneNodeNbrs(heap, visited, nbrs, global, ratio)
     IN  /\ heap' = p.heap
         /\ visited' = visited \cup ToSet(p.nbrs)
         /\ lastIn' = nbrs /\ lastOut' = p.nbrs
  /\ lists' = lists + 1
  /\ UNCHANGED <<global, ratio>>

\* A cached node's adjacency: its ids are inserted into visited unpruned.
ExpandCached(nbrs) ==
  /\ lists < MaxLists
  /\ visited' = visited \cup ToSet(nbrs)
  /\ lists' = lists + 1
  /\ UNCHANGED <<global, ratio, heap, lastIn, lastOut>>

Next ==
  \/ \E nbrs \in PrunedLists : ExpandPruned(nbrs)
  \/ \E nbrs \in CachedLists : ExpandCached(nbrs)

Spec == Init /\ [][Next]_vars

-----------------------------------------------------------------------------
\* prune_node_nbrs writes its result over the caller's node_nbrs, and the
\* caller computes that many distances into dist_scratch or batched_dists,
\* both sized for the unpruned list.  Global pruning keeps ids of earlier
\* calls still in the heap, so its result is not a part of the list passed
\* in; it still never holds more ids than that list, because every id an
\* earlier call kept was visited before this call pops them again.
PruneFitsBuffer == Len(lastOut) <= Len(lastIn)
=============================================================================
