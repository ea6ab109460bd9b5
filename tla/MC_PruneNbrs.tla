---------------------------- MODULE MC_PruneNbrs ----------------------------
(***************************************************************************)
(* Twenty-seven ids with distinct PQ distances (std::sort's order is then *)
(* unique).  Adjacency lists just over the ten that are never pruned, cut *)
(* from the near, middle and far parts of the distance order and          *)
(* overlapping: a far list after a near one lets the global cut pop the   *)
(* near list's leftovers.  A hop's batch of two lists (shared ids twice), *)
(* a short list that prune returns as it is, and two cached lists.  Three *)
(* lists per query reach heaps of over forty entries.                     *)
(***************************************************************************)
EXTENDS PruneNbrs

MCPQD == [i \in 0..26 |-> (i * 7) % 27]

\* The id at PQ distance d.
IdAt(d) == CHOOSE i \in DOMAIN MCPQD : MCPQD[i] = d

\* The ids at distances from .. from + n - 1, listed from the far end.
Band(from, n) == [k \in 1..n |-> IdAt(from + n - k)]

Near == Band(0, 11)
Mid  == Band(8, 12)
Far  == Band(16, 11)

MCPrunedLists == {Near, Mid, Far, Near \o Far, <<IdAt(3), IdAt(20), IdAt(9)>>}
MCCachedLists == {<<IdAt(12), IdAt(5)>>, Mid}

\* prune_ratio 0 (the default), 1/4, 1/2 and 3/4.
MCPruneRatios == {<<0, 4>>, <<1, 4>>, <<2, 4>>, <<3, 4>>}
=============================================================================
