----------------------------- MODULE BeamSearch -----------------------------
(***************************************************************************)
(* One query of PQFlashIndex::cached_beam_search (src/src/pq_flash_index   *)
(* .cpp), L2, without disk-PQ or reorder data, unfiltered or filtered.   *)
(*                                                                         *)
(* The query runs on one thread from top to bottom, so the model is a      *)
(* single sequential process whose steps are: seeding the frontier, one    *)
(* selection of a beam per hop, one expansion per cached or read node, the *)
(* end of a hop, and the post-processing that writes the result.          *)
(* Vectors are abstracted to their distance to the query: ExactDist is the *)
(* full-precision distance, PQDist the PQ-table distance.  The embedding   *)
(* server is an environment whose answer to every fetch is chosen from     *)
(* FetchOutcomes.                                                          *)
(***************************************************************************)
EXTENDS Integers, Sequences, SequencesExt, FiniteSets, TLC

CONSTANTS
  Nodes,          \* node ids: naturals, ties in distance are broken by id
  Adj,            \* Adj[n]: the adjacency list of n as stored on disk
  Medoids,        \* _medoids: non-empty sequence of entry points
  CentroidDist,   \* CentroidDist[p]: query <-> _centroid_data of medoid p
  ExactDist,      \* full-precision distance of a node to the query
  PQDist,         \* PQ distance of a node to the query (pq_dist_lookup)
  OriginDist,     \* distance of the query to the all-zero coordinate vector
  MaxDist,        \* distances are 0..MaxDist
  Cache,          \* ids in _nhood_cache / _coord_cache, fixed after warmup
  DummyToReal,    \* _dummy_to_real_map; its domain is _dummy_pts
  K,              \* k_search
  L,              \* l_search, capacity of retset
  BeamWidth,      \* beam_width
  IoLimits,       \* io_limit values a caller passes
  NoIoLimit,      \* numeric_limits<uint32_t>::max(): more reads than any query issues
  Modes,          \* the flag combinations a query may be issued with
  FetchOutcomes,  \* what one fetch_embeddings_http call may return
  NoNode,         \* a key that is not the id of any node
  PointLabels,    \* PointLabels[n]: the labels _pts_to_labels holds for n
  FilterMedoids,  \* _filter_to_medoid_ids: label -> its medoids
  UniversalLabel, \* _universal_filter_label, or NoLabel when unset
  FilterLabels,   \* filter_label values of filtered queries
  NoLabel         \* not a label: _use_universal_label is false

Dists == 0..MaxDist

Mode == [deferred : BOOLEAN,   \* USE_DEFERRED_FETCH
         skip : BOOLEAN,       \* skip_search_reorder
         recompute : BOOLEAN,  \* recompute_beighbor_embeddings
         dedup : BOOLEAN,      \* dedup_node_dis
         batch : BOOLEAN,      \* batch_recompute
         partition : BOOLEAN,  \* _use_partition (index loaded with a partition prefix)
         filter : BOOLEAN]     \* use_filter

\* "ok": every embedding; "fail": socket, parse or size error;
\* "omit": a well-formed reply without the rows of some ids (missing_ids).
Outcome == {"ok", "fail", "omit"}

ASSUME /\ Nodes \subseteq Nat /\ Nodes # {}
       /\ Adj \in [Nodes -> Seq(Nodes)]
       /\ Medoids \in Seq(Nodes) /\ Medoids # <<>>
       /\ CentroidDist \in [DOMAIN Medoids -> Nat]
       /\ ExactDist \in [Nodes -> Dists] /\ PQDist \in [Nodes -> Dists]
       /\ OriginDist \in Dists
       /\ Cache \subseteq Nodes
       /\ DOMAIN DummyToReal \subseteq Nodes
       /\ K \in Nat \ {0} /\ L >= K /\ BeamWidth \in Nat \ {0}
       /\ IoLimits \subseteq Nat /\ IoLimits # {} /\ NoIoLimit \in Nat
       /\ Modes \subseteq Mode /\ Modes # {}
       /\ FetchOutcomes \subseteq Outcome /\ "ok" \in FetchOutcomes
       /\ NoNode \notin Nodes
       /\ \A n \in Nodes : PointLabels[n] \subseteq Nat
       /\ \A lbl \in DOMAIN FilterMedoids : FilterMedoids[lbl] \in Seq(Nodes) \ {<<>>}
       /\ UniversalLabel \in Nat \cup {NoLabel} /\ FilterLabels \subseteq Nat
       /\ NoLabel \notin Nat
       \* prune_node_nbrs returns at once when nnbrs <= 10: no adjacency,
       \* nor one hop's batch of adjacencies, exceeds that here.
       /\ \A n \in Nodes : BeamWidth * Len(Adj[n]) <= 10

VARIABLES
  mode,        \* the query's flags
  ioLimit,     \* the query's io_limit
  filterLabel, \* the query's filter_label
  pc,          \* "init", "loop", "expand", "post", "done" or "failed"
  retset,      \* NeighborPriorityQueue: sorted <<[id, dist, expanded]>>
  visited,     \* query_scratch->visited
  fullRetset,  \* full_retset: <<[id, dist]>> in expansion order
  memo,        \* node_distances: node id -> distance
  numIos,      \* num_ios
  cachedQ,     \* ids of cached_nhoods of this hop not yet processed
  frontierQ,   \* ids of frontier_nhoods of this hop not yet processed
  batched,     \* batched_node_ids of this hop
  result       \* <<[id, dist]>> written to indices / distances

vars == <<mode, ioLimit, filterLabel, pc, retset, visited, fullRetset, memo, numIos, cachedQ,
          frontierQ, batched, result>>

-----------------------------------------------------------------------------
(* NeighborPriorityQueue (neighbor.h, not part of src/): a best-first      *)
(* container of capacity L ordered by (distance, id).                      *)

NeighborLess(a, b) == a.dist < b.dist \/ (a.dist = b.dist /\ a.id < b.id)

\* A variant of insert that never drops the worst entry (a missing capacity
\* check); TypeOK detects it.
RetsetInsertUnbounded(rs, id, d) ==
  LET nb  == [id |-> id, dist |-> d, expanded |-> FALSE]
      pos == Cardinality({i \in 1..Len(rs) : NeighborLess(rs[i], nb)})
  IN  InsertAt(rs, pos + 1, nb)

\* insert: the new neighbour takes its place in the order and the worst
\* entry falls off when the queue is over capacity.
RetsetInsert(rs, id, d) ==
  LET nb  == [id |-> id, dist |-> d, expanded |-> FALSE]
      pos == Cardinality({i \in 1..Len(rs) : NeighborLess(rs[i], nb)})
      grown == InsertAt(rs, pos + 1, nb)
  IN  IF Len(rs) = L /\ pos = L THEN rs
      ELSE SubSeq(grown, 1, IF Len(grown) > L THEN L ELSE Len(grown))

\* A variant of has_unexpanded_node that tests for a non-empty queue instead
\* of a cursor short of its end; Termination detects it.
HasUnexpandedNonEmpty == retset # <<>>

\* has_unexpanded_node
HasUnexpanded == \E i \in 1..Len(retset) : ~retset[i].expanded

-----------------------------------------------------------------------------
(* compute_dists: the distances of ids to the query and the memo after it. *)

PQOf(ids) == [i \in 1..Len(ids) |-> PQDist[ids[i]]]

\* The memo writes of the dedup branch: the distance of the i-th requested
\* id is stored under node_ids[i], node_ids holding only the ids that
\* missed the memo.  Past the end of node_ids the key is whatever the
\* vector's storage holds there.
RECURSIVE MemoAfter(_, _, _, _)
MemoAfter(m, fresh, ids, ws) ==
  IF ws = <<>> THEN {m}
  ELSE LET i    == Head(ws)
           keys == IF i <= Len(fresh) THEN {fresh[i]} ELSE Nodes \cup {NoNode}
       IN  UNION {MemoAfter(IF k = NoNode THEN m
                            ELSE (k :> ExactDist[ids[i]]) @@ m,
                            fresh, ids, Tail(ws)) : k \in keys}

\* A successful fetch: exact distances, and in dedup mode the memo hits
\* and the memo writes.
Fetched(ids, m) ==
  IF ~mode.dedup
  THEN {[d |-> [i \in 1..Len(ids) |-> ExactDist[ids[i]]], memo |-> m]}
  ELSE LET hit(i) == ids[i] \in DOMAIN m
           fresh  == SelectSeq(ids, LAMBDA x : x \notin DOMAIN m)
           misses == SelectSeq([i \in 1..Len(ids) |-> i], LAMBDA i : ~hit(i))
           d == [i \in 1..Len(ids) |-> IF hit(i) THEN m[ids[i]] ELSE ExactDist[ids[i]]]
       IN  {[d |-> d, memo |-> mm] : mm \in MemoAfter(m, fresh, ids, misses)}

ComputeDists(ids, m) ==
  IF ~mode.recompute THEN {[d |-> PQOf(ids), memo |-> m]}
  ELSE IF mode.dedup /\ \A i \in 1..Len(ids) : ids[i] \in DOMAIN m
  THEN {[d |-> [i \in 1..Len(ids) |-> m[ids[i]]], memo |-> m]}
  ELSE UNION {IF o = "ok" THEN Fetched(ids, m)
              ELSE {[d |-> PQOf(ids), memo |-> m]} : o \in FetchOutcomes}

\* point_has_label: the label is among the point's labels.
PointHasLabel(id, lbl) == lbl \in PointLabels[id]

\* A variant of the filter test in which a configured universal label
\* admits every point, whatever its labels; ResultMatchesFilter detects it.
AdmittedUniversalAny(id) ==
  IF ~mode.filter THEN id \notin DOMAIN DummyToReal
  ELSE PointHasLabel(id, filterLabel) \/ UniversalLabel # NoLabel

\* A variant of the filter test without the dummy skip of unfiltered
\* queries; BindingResultIdsDistinct detects it.
AdmittedWithDummies(id) ==
  IF ~mode.filter THEN TRUE
  ELSE \/ PointHasLabel(id, filterLabel)
       \/ UniversalLabel # NoLabel /\ PointHasLabel(id, UniversalLabel)

\* The two `continue` tests of the insertion loops: unfiltered, a dummy
\* point is skipped; filtered, a point without the filter label and
\* without the universal label (when one is set) is skipped.
Admitted(id) ==
  IF ~mode.filter THEN id \notin DOMAIN DummyToReal
  ELSE \/ PointHasLabel(id, filterLabel)
       \/ UniversalLabel # NoLabel /\ PointHasLabel(id, UniversalLabel)

\* A variant of the insertion loop that does not consult visited;
\* NoDuplicateExpansion detects it.
InsertNbrsIgnoringVisited(rs, vis, ids, ds) ==
  FoldLeft(LAMBDA acc, p :
             <<IF ~Admitted(p[1]) THEN acc[1]
               ELSE RetsetInsert(acc[1], p[1], p[2]),
               acc[2] \cup {p[1]}>>,
           <<rs, vis>>, Zip(ids, ds))

\* The "process prefetched nhood" loop: a neighbour seen for the first time
\* is marked visited; it then enters retset if the filter test admits it.
InsertNbrs(rs, vis, ids, ds) ==
  FoldLeft(LAMBDA acc, p :
             IF p[1] \in acc[2] THEN acc
             ELSE <<IF ~Admitted(p[1]) THEN acc[1]
                    ELSE RetsetInsert(acc[1], p[1], p[2]),
                    acc[2] \cup {p[1]}>>,
           <<rs, vis>>, Zip(ids, ds))

-----------------------------------------------------------------------------
(* The distance pushed to full_retset for an expanded node.                *)

\* A node served from the cache: its coordinates are _coord_cache's copy,
\* which load_cache_list leaves zeroed in partition mode (read_nodes does
\* not read coordinates there).
CachedNodeDist(id, m) ==
  CASE mode.skip      -> {[d |-> r.d[1], memo |-> r.memo] : r \in ComputeDists(<<id>>, m)}
    [] mode.deferred  -> {[d |-> 0, memo |-> m]}
    [] mode.partition -> {[d |-> OriginDist, memo |-> m]}
    [] OTHER          -> {[d |-> ExactDist[id], memo |-> m]}

\* A node read from disk.  In partition mode the sector holds adjacency
\* records only, so the bytes taken as coordinates give an arbitrary value;
\* with recompute and dedup the memo is read with operator[], which inserts
\* 0 for an absent id.
FrontierNodeDist(id, m) ==
  CASE mode.skip     -> {[d |-> r.d[1], memo |-> r.memo] : r \in ComputeDists(<<id>>, m)}
    [] mode.deferred -> {[d |-> 0, memo |-> m]}
    [] mode.recompute /\ mode.dedup /\ mode.partition ->
          IF id \in DOMAIN m THEN {[d |-> m[id], memo |-> m]}
          ELSE {[d |-> 0, memo |-> (id :> 0) @@ m]}
    [] mode.partition -> {[d |-> x, memo |-> m] : x \in Dists}
    [] OTHER          -> {[d |-> ExactDist[id], memo |-> m]}

-----------------------------------------------------------------------------
Init ==
  /\ mode \in Modes
  /\ ioLimit \in IoLimits
  \* an unfiltered search passes dummy_filter = 0
  /\ filterLabel \in (IF mode.filter THEN FilterLabels ELSE {0})
  /\ pc = "init"
  /\ retset = <<>>
  /\ visited = {}
  /\ fullRetset = <<>>
  /\ memo = <<>>
  /\ numIos = 0
  /\ cachedQ = <<>>
  /\ frontierQ = <<>>
  /\ batched = <<>>
  /\ result = <<>>

\* The first medoid whose centroid is strictly closest to the query.
BestMedoid ==
  LET p == CHOOSE p \in DOMAIN Medoids :
             \A q \in DOMAIN Medoids :
               CentroidDist[p] < CentroidDist[q] \/ (CentroidDist[p] = CentroidDist[q] /\ p <= q)
  IN  Medoids[p]

\* The filtered medoid choice: compute_dists of each medoid registered for
\* the label, in order, keeping the first with the least distance; best_dist
\* starts above every distance.  The result is a set of [node, memo]: each
\* compute_dists may fetch, fail over to PQ, and fill the memo.
RECURSIVE FilterMedoidChoices(_, _)
FilterMedoidChoices(ms, best) ==
  IF ms = <<>> THEN {[node |-> best.node, memo |-> best.memo]}
  ELSE UNION {FilterMedoidChoices(Tail(ms),
                IF r.d[1] < best.dist
                THEN [node |-> Head(ms), dist |-> r.d[1], memo |-> r.memo]
                ELSE [best EXCEPT !.memo = r.memo])
              : r \in ComputeDists(<<Head(ms)>>, best.memo)}

\* compute_dists of the chosen medoid, retset.insert and visited.insert.
SeedAt(n, m) ==
  /\ \E r \in ComputeDists(<<n>>, m) :
       /\ retset' = RetsetInsert(retset, n, r.d[1])
       /\ memo' = r.memo
  /\ visited' = visited \cup {n}
  /\ pc' = "loop"

\* Seed the frontier: unfiltered, with the medoid of the closest centroid;
\* filtered, with the medoid of the label closest in compute_dists, or the
\* query throws "Cannot find medoid for specified filter."
Seed ==
  /\ pc = "init"
  /\ \/ ~mode.filter /\ SeedAt(BestMedoid, memo)
     \/ /\ mode.filter /\ filterLabel \in DOMAIN FilterMedoids
        /\ \E c \in FilterMedoidChoices(FilterMedoids[filterLabel],
                                       [node |-> 0, dist |-> MaxDist + 1, memo |-> memo]) :
             SeedAt(c.node, c.memo)
     \/ /\ mode.filter /\ filterLabel \notin DOMAIN FilterMedoids
        /\ pc' = "failed"
        /\ UNCHANGED <<retset, visited, memo>>
  /\ UNCHANGED <<mode, ioLimit, filterLabel, fullRetset, numIos, cachedQ, frontierQ, batched, result>>

\* One iteration of the outer while: pop up to beam_width closest unexpanded
\* nodes, split them into cached and to-be-read, and read the latter.
SelectBeam ==
  /\ pc = "loop"
  /\ HasUnexpanded /\ numIos < ioLimit
  /\ LET open  == SelectSeq(retset, LAMBDA e : ~e.expanded)
         beam  == SubSeq(open, 1, IF Len(open) < BeamWidth THEN Len(open) ELSE BeamWidth)
         ids   == [i \in 1..Len(beam) |-> beam[i].id]
         reads == SelectSeq(ids, LAMBDA x : x \notin Cache)
     IN  /\ retset' = [i \in 1..Len(retset) |->
                         IF retset[i].id \in ToSet(ids)
                         THEN [retset[i] EXCEPT !.expanded = TRUE] ELSE retset[i]]
         /\ cachedQ' = SelectSeq(ids, LAMBDA x : x \in Cache)
         /\ frontierQ' = reads
         /\ numIos' = numIos + Len(reads)
  /\ pc' = "expand"
  /\ UNCHANGED <<mode, ioLimit, filterLabel, visited, fullRetset, memo, batched, result>>

\* The loop condition fails: no unexpanded node, or the I/O budget is spent.
ExitLoop ==
  /\ pc = "loop"
  /\ ~(HasUnexpanded /\ numIos < ioLimit)
  /\ pc' = "post"
  /\ UNCHANGED <<mode, ioLimit, filterLabel, retset, visited, fullRetset, memo, numIos, cachedQ,
                 frontierQ, batched, result>>

\* Process one cached nhood: full distance, then its neighbours at once.
ExpandCached ==
  /\ pc = "expand" /\ cachedQ # <<>>
  /\ LET id == Head(cachedQ) IN
     \E f \in CachedNodeDist(id, memo) :
     \E r \in ComputeDists(Adj[id], f.memo) :
       LET ins == InsertNbrs(retset, visited, Adj[id], r.d) IN
       /\ fullRetset' = Append(fullRetset, [id |-> id, dist |-> f.d])
       /\ retset' = ins[1]
       /\ visited' = ins[2]
       /\ memo' = r.memo
  /\ cachedQ' = Tail(cachedQ)
  /\ UNCHANGED <<mode, ioLimit, filterLabel, pc, numIos, frontierQ, batched, result>>

\* Process one frontier nhood (after all cached ones): full distance, then
\* its neighbours now, or appended to the hop's batch under batch_recompute.
ExpandFrontier ==
  /\ pc = "expand" /\ cachedQ = <<>> /\ frontierQ # <<>>
  /\ LET id == Head(frontierQ) IN
     \E f \in FrontierNodeDist(id, memo) :
       /\ fullRetset' = Append(fullRetset, [id |-> id, dist |-> f.d])
       /\ \/ /\ ~mode.batch
             /\ \E r \in ComputeDists(Adj[id], f.memo) :
                  LET ins == InsertNbrs(retset, visited, Adj[id], r.d) IN
                  /\ retset' = ins[1]
                  /\ visited' = ins[2]
                  /\ memo' = r.memo
             /\ UNCHANGED batched
          \/ /\ mode.batch
             /\ batched' = batched \o Adj[id]
             /\ memo' = f.memo
             /\ UNCHANGED <<retset, visited>>
  /\ frontierQ' = Tail(frontierQ)
  /\ UNCHANGED <<mode, ioLimit, filterLabel, pc, numIos, cachedQ, result>>

\* End of a hop: under batch_recompute one compute_dists for the whole batch.
EndHop ==
  /\ pc = "expand" /\ cachedQ = <<>> /\ frontierQ = <<>>
  /\ IF mode.batch
     THEN \E r \in ComputeDists(batched, memo) :
            LET ins == InsertNbrs(retset, visited, batched, r.d) IN
            /\ retset' = ins[1]
            /\ visited' = ins[2]
            /\ memo' = r.memo
     ELSE UNCHANGED <<retset, visited, memo>>
  /\ batched' = <<>>
  /\ pc' = "loop"
  /\ UNCHANGED <<mode, ioLimit, filterLabel, fullRetset, numIos, cachedQ, frontierQ, result>>

\* A variant of the deferred rescoring that keeps the search-time distances
\* (the overwrite loop dropped); ResultDistancesSound detects it.
RescoredKeepsSearchDist ==
  IF ~mode.deferred THEN {[ok |-> TRUE, full |-> fullRetset]}
  ELSE {IF o = "fail" THEN [ok |-> FALSE, full |-> fullRetset]
        ELSE [ok |-> TRUE, full |-> fullRetset] : o \in FetchOutcomes}

\* The full_retset distances after the deferred fetch, or ok = FALSE when the
\* fetch fails and the query throws.  Row i of the reply overwrites entry i.
Rescored ==
  LET ids == [i \in 1..Len(fullRetset) |-> fullRetset[i].id]
      rescore(rows) == [i \in 1..Len(fullRetset) |->
                          IF i <= Len(rows)
                          THEN [fullRetset[i] EXCEPT !.dist = ExactDist[rows[i]]]
                          ELSE fullRetset[i]]
  IN  IF ~mode.deferred THEN {[ok |-> TRUE, full |-> fullRetset]}
      ELSE UNION {CASE o = "ok"   -> {[ok |-> TRUE, full |-> rescore(ids)]}
                    [] o = "fail" -> {[ok |-> FALSE, full |-> fullRetset]}
                    [] o = "omit" ->
                         {[ok |-> TRUE,
                           full |-> rescore(SelectSeq(ids, LAMBDA x : x \notin gone))] :
                            gone \in SUBSET ToSet(ids) \ {{}}}
                  : o \in FetchOutcomes}

\* Copy the first k_search entries, mapping dummies to their real id.  An
\* index past the end of full_retset reads the vector's stale storage.
CopyTopK(s, stale) ==
  [i \in 1..K |->
     LET e == IF i <= Len(s) THEN s[i] ELSE stale[i] IN
     [id |-> IF e.id \in DOMAIN DummyToReal THEN DummyToReal[e.id] ELSE e.id,
      dist |-> e.dist]]

\* A variant of Finish that copies the top k without sorting full_retset;
\* ResultIsBestExpanded detects it.
FinishUnsorted ==
  /\ pc = "post"
  /\ IF mode.deferred /\ fullRetset = <<>>
     THEN pc' = "done" /\ UNCHANGED <<fullRetset, result>>
     ELSE \E r \in Rescored :
            IF ~r.ok THEN pc' = "failed" /\ UNCHANGED <<fullRetset, result>>
            ELSE /\ fullRetset' = r.full
                 /\ \E stale \in [(Len(r.full) + 1)..K -> [id : Nodes, dist : Dists]] :
                      result' = CopyTopK(r.full, stale)
                 /\ pc' = "done"
  /\ UNCHANGED <<mode, ioLimit, filterLabel, retset, visited, memo, numIos, cachedQ, frontierQ, batched>>

\* After the loop: the deferred fetch (an empty full_retset returns without
\* writing the output), the sort of full_retset and the copy of the top k.
Finish ==
  /\ pc = "post"
  /\ IF mode.deferred /\ fullRetset = <<>>
     THEN pc' = "done" /\ UNCHANGED <<fullRetset, result>>
     ELSE \E r \in Rescored :
            IF ~r.ok THEN pc' = "failed" /\ UNCHANGED <<fullRetset, result>>
            ELSE LET s == SortSeq(r.full, NeighborLess) IN
                 /\ fullRetset' = s
                 /\ \E stale \in [(Len(s) + 1)..K -> [id : Nodes, dist : Dists]] :
                      result' = CopyTopK(s, stale)
                 /\ pc' = "done"
  /\ UNCHANGED <<mode, ioLimit, filterLabel, retset, visited, memo, numIos, cachedQ, frontierQ, batched>>

Next ==
  \/ Seed
  \/ SelectBeam
  \/ ExitLoop
  \/ ExpandCached
  \/ ExpandFrontier
  \/ EndHop
  \/ Finish

\* The query thread runs to completion: the sector reads are synchronous
\* and every remote fetch returns within its 300 s timeout.
Spec == Init /\ [][Next]_vars /\ WF_vars(Next)

-----------------------------------------------------------------------------
Neighbor == [id : Nodes, dist : Dists]

TypeOK ==
  /\ mode \in Mode /\ ioLimit \in IoLimits /\ filterLabel \in FilterLabels \cup {0}
  /\ pc \in {"init", "loop", "expand", "post", "done", "failed"}
  /\ retset \in Seq([id : Nodes, dist : Dists, expanded : BOOLEAN])
  /\ Len(retset) <= L
  /\ visited \subseteq Nodes
  /\ fullRetset \in Seq(Neighbor)
  /\ DOMAIN memo \subseteq Nodes /\ \A x \in DOMAIN memo : memo[x] \in Dists
  /\ numIos \in Nat
  /\ cachedQ \in Seq(Nodes) /\ frontierQ \in Seq(Nodes) /\ batched \in Seq(Nodes)
  /\ result \in Seq(Neighbor)

ExpandedIds == {fullRetset[i].id : i \in 1..Len(fullRetset)}

\* Spec 8.1: no node is expanded twice, so full_retset holds each id at most
\* once.  It rests on visited being seeded with the medoid and on every
\* insertion path checking visited first, across hops and cache hits.
NoDuplicateExpansion ==
  \A i, j \in 1..Len(fullRetset) : i # j => fullRetset[i].id # fullRetset[j].id

\* Spec 8.1: the k ids written to indices are distinct nodes that the
\* search expanded (mapped to their real id).
ResultIdsDistinct ==
  pc = "done" /\ result # <<>> =>
    /\ \A i, j \in 1..Len(result) : i # j => result[i].id # result[j].id
    /\ \A i \in 1..Len(result) :
         \E n \in ExpandedIds :
           result[i].id = (IF n \in DOMAIN DummyToReal THEN DummyToReal[n] ELSE n)

\* Spec 8.3-8.5: every returned distance is the node's true distance, or
\* under skip_search_reorder its PQ distance; whichever of the deferred
\* fetch, the remote recompute with or without the memo, and the cache
\* produced it.
ResultDistancesSound ==
  pc = "done" =>
    \A i \in 1..Len(result) :
      result[i].dist \in (IF mode.skip THEN {ExactDist[result[i].id], PQDist[result[i].id]}
                          ELSE {ExactDist[result[i].id]})

\* Spec 8.2 and 4.7 step 5: the result is the k closest expanded nodes in ascending
\* order of their final distance: full_retset is sorted after the deferred
\* fetch has overwritten its distances, and no expanded node that is left
\* out is strictly closer than one that is returned.
ResultIsBestExpanded ==
  pc = "done" /\ Len(fullRetset) >= K =>
    /\ \A i \in 1..(K - 1) : result[i].dist <= result[i + 1].dist
    /\ \A j \in (K + 1)..Len(fullRetset) : fullRetset[j].dist >= result[K].dist

\* Spec S6 and 4.7 step 3e: a filtered query returns only points that carry
\* the filter label or the universal label.  It rests on the label's medoid
\* seeding the search and on the filter test of all three insertion loops
\* (cached, frontier, batch), after the dummy remap of the top-k copy.
\* With fewer than k expansions the copy reads past full_retset (finding
\* beamsearch_topk), so the claim is made for at least k.
ResultMatchesFilter ==
  pc = "done" /\ mode.filter /\ Len(fullRetset) >= K =>
    \A i \in 1..K :
      \/ PointHasLabel(result[i].id, filterLabel)
      \/ UniversalLabel # NoLabel /\ PointHasLabel(result[i].id, UniversalLabel)

\* The query as the binding's search and batch_search issue it: through the
\* overloads without a filter and without an io_limit, which pass
\* use_filter = false and io_limit = numeric_limits<uint32_t>::max().
BindingCall == ~mode.filter /\ ioLimit = NoIoLimit

\* Spec 8.1 for the queries the binding issues: the k ids returned are
\* distinct expanded nodes.  It rests on visited across hops and cache hits,
\* on the insertion loops skipping dummy points (whose ids the top-k copy
\* maps onto their real point), and on the graph reaching k admitted nodes
\* (otherwise the copy reads past full_retset as at line 2856).
BindingResultIdsDistinct == BindingCall => ResultIdsDistinct

\* The search loop terminates and the query returns or throws.
Termination == <>(pc \in {"done", "failed"})
=============================================================================
