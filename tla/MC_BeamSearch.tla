--------------------------- MODULE MC_BeamSearch ---------------------------
(***************************************************************************)
(* A six-node index for BeamSearch.  The graph has cycles, two entry       *)
(* points, a dummy point, two cached nodes, and distances chosen so that   *)
(* the PQ order and the exact order disagree (PQ prefers 5 and 2, exact    *)
(* prefers 3 and 5): a wrong distance changes the order of retset and the  *)
(* result.  Labels give filtered queries a seed, a universal label and a *)
(* label without medoid.                                                   *)
(***************************************************************************)
EXTENDS BeamSearch

MCNodes == 0..5

MCAdj == 0 :> <<1, 2>> @@ 1 :> <<0, 3, 4>> @@ 2 :> <<4, 5>> @@
         3 :> <<5>> @@ 4 :> <<2, 5, 1>> @@ 5 :> <<3>>

MCExactDist == 0 :> 6 @@ 1 :> 4 @@ 2 :> 5 @@ 3 :> 1 @@ 4 :> 1 @@ 5 :> 2
MCPQDist    == 0 :> 5 @@ 1 :> 5 @@ 2 :> 3 @@ 3 :> 2 @@ 4 :> 2 @@ 5 :> 1

\* Entry points 3 and 0; the centroid of 0 is the closer one.
MCMedoids == <<3, 0>>
MCCentroidDist == <<4, 2>>

\* 4 is a dummy point standing for 3, a copy of its vector (same exact and
\* PQ distance); it is reached from 1 and 2.  An unfiltered query skips it;
\* a filtered one admits it, and the top-k copy maps it onto 3.
MCDummyToReal == 4 :> 3

\* Labels 1, 2 and 3, and the universal label 9 on node 3 and its dummy.  Label 1
\* reaches 1 and 3 from its medoid 0 but not 5, the second-closest node,
\* which has only label 2; label 2 has two medoids, and compute_dists
\* prefers the second; label 3 has no medoid.  The dummy 4 carries a subset
\* of the labels of its real point 3, as the filtered build writes it.
MCPointLabels == 0 :> {1, 2} @@ 1 :> {1, 3} @@ 2 :> {1, 2} @@ 3 :> {9} @@
                 4 :> {9} @@ 5 :> {2}
MCFilterMedoids == 1 :> <<0>> @@ 2 :> <<0, 2>>

\* Flag combinations used by the passing run: every mode the binding can
\* issue in which no known defect of BeamSearch applies to the result.
\*   dedup only with remote recompute and without skip_search_reorder;
\*   partition only where the expanded distance does not come from the
\*   sector (deferred fetch, or skip_search_reorder without dedup).
MCModesPass ==
  {m \in Mode : /\ m.dedup => (m.recompute /\ ~m.skip)
                /\ m.partition => (m.deferred \/ (m.skip /\ ~m.dedup))}

\* Partitioned index, remote recompute with the distance memo: the
\* configuration in which frontier distances come from node_distances.
MCModesMemo ==
  {[deferred |-> FALSE, skip |-> FALSE, recompute |-> TRUE, dedup |-> TRUE,
    batch |-> b, partition |-> TRUE, filter |-> FALSE] : b \in BOOLEAN}

\* Plain full-precision search, the C++ API default flags.
MCModesPlain ==
  {[deferred |-> FALSE, skip |-> FALSE, recompute |-> FALSE, dedup |-> FALSE,
    batch |-> FALSE, partition |-> FALSE, filter |-> FALSE]}
=============================================================================
