------------------------- MODULE MC_StaticDiskIndex -------------------------
(***************************************************************************)
(* The constructor with every cache_mechanism, a load that may fail, and   *)
(* for each warmup the instance its own runs use: the sample warmup over   *)
(* five nodes and three overlapping sample searches on two threads, the    *)
(* BFS over eight nodes near two medoids of a 45-point index; a load      *)
(* meets a complete index or one with a single file or check gone wrong.  *)
(***************************************************************************)
EXTENDS StaticDiskIndex

CONSTANTS t1, t2

MCThreads == {t1, t2}

MCSamples == << <<0, 1, 3>>, <<2, 0>>, <<0, 4, 1>> >>

MCSWReadFailures == {{}, {1}}

MCAdj == 0 :> <<1, 2>> @@ 1 :> <<3, 4>> @@ 2 :> <<4, 6>> @@ 3 :> <<0>> @@
         4 :> <<7>> @@ 5 :> <<6>> @@ 6 :> <<7, 2>> @@ 7 :> <<5>>

MCMedoids == <<0, 5>>

\* Label medoids: one repeats a medoid, and the two labels' order decides
\* which of 3 and 7 fills a first level of three.
MCFilterMedoids == 1 :> <<3, 0>> @@ 2 :> <<7>>

MCBFSRequests == {0, 1, 3, 4, 9}

MCBFSReadFailures == {{}, {2}, {0, 6}, {0, 3, 5, 6, 7}}

\* Load environments: a complete index on disk, with and without a
\* partition prefix, and every environment that differs from one of them
\* in a single file or header check.
MCGoodEnv == [x \in Fields |-> x \notin {"partition", "reorder"}]

MCPartitionEnv == [MCGoodEnv EXCEPT !.partition = TRUE]

MCLoadEnvs ==
  UNION {{e} \cup {[e EXCEPT ![x] = ~e[x]] : x \in Fields \ {"partition"}}
           : e \in {MCGoodEnv, MCPartitionEnv}}
=============================================================================
