------------------------------ MODULE CacheBFS ------------------------------
(***************************************************************************)
(* The BFS node-cache warmup: PQFlashIndex::cache_bfs_levels followed by   *)
(* load_cache_list, as StaticDiskIndex::cache_bfs_levels runs them.        *)
(*                                                                         *)
(* The BFS starts from the medoids and expands one level at a time; each   *)
(* level's nodes are read, and their neighbours fill the next level until  *)
(* the number of nodes to cache (capped at 10% of the index) is reached.  *)
(* The order in which a level is expanded is that of a robin_set, or a     *)
(* shuffle: any order.  A read may fail (partition mode: a node outside    *)
(* every partition or beyond its sector); its neighbours are then not      *)
(* explored and load_cache_list leaves it out of the cache.               *)
(***************************************************************************)
EXTENDS Integers, Sequences, SequencesExt, FiniteSets

CONSTANTS
  Nodes,        \* node ids of the part of the index the BFS can reach
  Adj,          \* Adj[n]: the adjacency list of n on disk
  Medoids,      \* _medoids
  FilterMedoids, \* _filter_to_medoid_ids: label -> its medoids
  NumPoints,    \* _num_points of the whole index
  Requests,     \* num_nodes_to_cache values a caller may pass
  ReadFailures  \* the sets of nodes whose reads may fail

ASSUME /\ Adj \in [Nodes -> Seq(Nodes)]
       /\ Medoids \in Seq(Nodes) /\ Medoids # <<>>
       /\ \A lbl \in DOMAIN FilterMedoids : FilterMedoids[lbl] \in Seq(Nodes)
       /\ NumPoints \in Nat /\ NumPoints >= Cardinality(Nodes)
       /\ Requests \subseteq Nat
       /\ ReadFailures \subseteq SUBSET Nodes

VARIABLES
  failing,    \* nodes whose read_nodes entry returns false
  requested,  \* num_nodes_to_cache as passed
  num,        \* num_nodes_to_cache after the 10% cap
  nodeSet,    \* node_set: nodes already expanded
  curLevel,   \* cur_level
  toExpand,   \* nodes_to_expand of the current level not yet processed
  finish,     \* finish_flag of the current level
  nodeList,   \* node_list handed to load_cache_list
  cache,      \* ids inserted into _nhood_cache / _coord_cache
  pc          \* "start", "loop", "level", "load" or "done"

vars == <<failing, requested, num, nodeSet, curLevel, toExpand, finish,
          nodeList, cache, pc>>

-----------------------------------------------------------------------------
\* (uint64_t) std::round(_num_points * 0.1), rounding halves up.
TenPercent == (NumPoints + 5) \div 10

\* Mutant of CacheCap: the 10% computed with a truncating division.
CacheCapTruncated(r) ==
  IF r > NumPoints \div 10 THEN (IF NumPoints \div 10 = 0 THEN 1 ELSE NumPoints \div 10) ELSE r

\* Do not cache more than 10% of the nodes, and never fewer than one once
\* the cap applies.
CacheCap(r) ==
  IF r > TenPercent THEN (IF TenPercent = 0 THEN 1 ELSE TenPercent) ELSE r

\* The medoid loop: insert medoids while cur_level is short of num.
MedoidLevel(n) ==
  FoldLeft(LAMBDA lvl, m : IF Cardinality(lvl) < n THEN lvl \cup {m} ELSE lvl,
           {}, Medoids)

\* The label medoids, visited in the unordered_map's order `order`: each
\* is inserted until cur_level holds n nodes, where both loops break.
LabelMedoidLevel(lvl, n, order) ==
  FoldLeft(LAMBDA acc, m : IF Cardinality(acc) < n THEN acc \cup {m} ELSE acc,
           lvl, FlattenSeq([i \in 1..Len(order) |-> FilterMedoids[order[i]]]))

Init ==
  /\ failing \in ReadFailures
  /\ requested \in Requests
  /\ num = 0
  /\ nodeSet = {} /\ curLevel = {} /\ toExpand = <<>> /\ finish = FALSE
  /\ nodeList = {} /\ cache = {}
  /\ pc = "start"

\* The cap and the first level: the medoids, then the label medoids in
\* whatever order _filter_to_medoid_ids iterates.
Start ==
  /\ pc = "start"
  /\ num' = CacheCap(requested)
  /\ \E order \in SetToSeqs(DOMAIN FilterMedoids) :
       curLevel' = LabelMedoidLevel(MedoidLevel(CacheCap(requested)), CacheCap(requested), order)
  /\ pc' = "loop"
  /\ UNCHANGED <<failing, requested, nodeSet, toExpand, finish, nodeList, cache>>

\* A variant of BeginLevel whose while test drops cur_level->size() != 0;
\* ConstructorReturns detects it.
BeginLevelWhileShort ==
  /\ pc = "loop"
  /\ Cardinality(nodeSet) + Cardinality(curLevel) < num
  /\ LET new == curLevel \ nodeSet IN
     /\ nodeSet' = nodeSet \cup new
     /\ toExpand' \in SetToSeqs(new)
  /\ curLevel' = {}
  /\ finish' = FALSE
  /\ pc' = "level"
  /\ UNCHANGED <<failing, requested, num, nodeList, cache>>

\* The while test holds: the current level becomes the level to expand; its
\* nodes join node_set and are read in one batch, then processed in some
\* order.
BeginLevel ==
  /\ pc = "loop"
  /\ Cardinality(nodeSet) + Cardinality(curLevel) < num /\ curLevel # {}
  /\ LET new == curLevel \ nodeSet IN
     /\ nodeSet' = nodeSet \cup new
     /\ toExpand' \in SetToSeqs(new)
  /\ curLevel' = {}
  /\ finish' = FALSE
  /\ pc' = "level"
  /\ UNCHANGED <<failing, requested, num, nodeList, cache>>

\* Mutant of ExploreNbrs: the neighbour loop without the finish_flag test.
ExploreNbrsUnbounded(n) ==
  FoldLeft(LAMBDA acc, x :
             LET lvl == IF x \notin nodeSet THEN acc[1] \cup {x} ELSE acc[1]
             IN  <<lvl, acc[2] \/ Cardinality(lvl) + Cardinality(nodeSet) >= num>>,
           <<curLevel, finish>>, Adj[n])

\* The neighbour loop of one read node: a neighbour not yet expanded joins
\* cur_level, and the loop stops once node_set and cur_level hold num nodes.
ExploreNbrs(n) ==
  FoldLeft(LAMBDA acc, x :
             IF acc[2] THEN acc
             ELSE LET lvl == IF x \notin nodeSet THEN acc[1] \cup {x} ELSE acc[1]
                  IN  <<lvl, Cardinality(lvl) + Cardinality(nodeSet) >= num>>,
           <<curLevel, finish>>, Adj[n])

\* Process the next node of the level; a failed read is skipped.
ExpandNode ==
  /\ pc = "level" /\ toExpand # <<>> /\ ~finish
  /\ LET n == Head(toExpand) IN
     IF n \in failing THEN UNCHANGED <<curLevel, finish>>
     ELSE LET r == ExploreNbrs(n) IN curLevel' = r[1] /\ finish' = r[2]
  /\ toExpand' = Tail(toExpand)
  /\ UNCHANGED <<failing, requested, num, nodeSet, nodeList, cache, pc>>

\* The level ends when its nodes are processed or finish_flag is set.
EndLevel ==
  /\ pc = "level" /\ (toExpand = <<>> \/ finish)
  /\ toExpand' = <<>>
  /\ pc' = "loop"
  /\ UNCHANGED <<failing, requested, num, nodeSet, curLevel, finish, nodeList, cache>>

\* The while test fails: node_list is node_set followed by cur_level.
EndBFS ==
  /\ pc = "loop"
  /\ ~(Cardinality(nodeSet) + Cardinality(curLevel) < num /\ curLevel # {})
  /\ nodeList' = nodeSet \cup curLevel
  /\ pc' = "load"
  /\ UNCHANGED <<failing, requested, num, nodeSet, curLevel, toExpand, finish, cache>>

\* load_cache_list: read every listed node, cache those read successfully.
LoadCacheList ==
  /\ pc = "load"
  /\ cache' = nodeList \ failing
  /\ pc' = "done"
  /\ UNCHANGED <<failing, requested, num, nodeSet, curLevel, toExpand, finish, nodeList>>

Next == Start \/ BeginLevel \/ ExpandNode \/ EndLevel \/ EndBFS \/ LoadCacheList

Spec == Init /\ [][Next]_vars /\ WF_vars(Next)

-----------------------------------------------------------------------------
\* The nodes the BFS can collect: the medoids, the label medoids, and
\* everything reachable from them through nodes whose reads succeed.
RECURSIVE Collectable(_)
Collectable(s) ==
  LET grown == s \cup UNION {ToSet(Adj[n]) : n \in s \ failing}
  IN  IF grown = s THEN s ELSE Collectable(grown)

\* The cap of spec 4.4: 10% of the points (rounded), at least one node.
SpecCap(r) ==
  LET tenth == (NumPoints + 5) \div 10
  IN  IF r <= tenth THEN r ELSE IF tenth > 1 THEN tenth ELSE 1

\* Spec 4.4: the BFS collects exactly the requested number of
\* distinct nodes, capped at 10% of the index, unless it runs out of nodes
\* it can reach; whatever order the levels are expanded in and whichever
\* reads fail.
CacheFilled ==
  pc = "done" =>
    Cardinality(nodeList) =
      LET c == SpecCap(requested) IN
      LET roots == ToSet(Medoids) \cup UNION {ToSet(FilterMedoids[l]) : l \in DOMAIN FilterMedoids} IN
      LET reach == Cardinality(Collectable(roots)) IN
      IF c < reach THEN c ELSE reach

\* The assertion at the end of cache_bfs_levels: when the BFS stops with a
\* non-empty level, node_set and cur_level hold exactly num nodes.
BFSAssert ==
  pc \in {"load", "done"} =>
    Cardinality(nodeSet) + Cardinality(curLevel) = num \/ curLevel = {}

=============================================================================
