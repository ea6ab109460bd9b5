-------------------------- MODULE MC_QueryThreads --------------------------
(***************************************************************************)
(* Two slots for two batch workers and a range_search caller, so a thread  *)
(* waits for a slot; three batch queries.  Five points at distances 1, 2,  *)
(* 3, 5 and 8: radii that take none, some and all of them, with            *)
(* min_l_search odd and even and max_l_search within the index.  A 4-bit   *)
(* l_search: max_l_search stays below 2^Width as it does below 2^32.       *)
(***************************************************************************)
EXTENDS QueryThreads

CONSTANTS w1, w2, r

MCWorkers == {w1, w2}

MCDists == <<1, 2, 3, 5, 8>>
=============================================================================
