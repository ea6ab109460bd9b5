--------------------------- MODULE StaticDiskIndex --------------------------
(***************************************************************************)
(* The constructor of the Python binding StaticDiskIndex: PQFlashIndex     *)
(* load, then the cache warmup chosen by cache_mechanism (1: sample        *)
(* queries, 2: BFS levels) and load_cache_list.  The two warmups are the   *)
(* modules SampleWarmup and CacheBFS, instantiated on the constructor's    *)
(* state; only the one cache_mechanism selects ever takes a step.  The     *)
(* load itself is the module IndexLoad, applied to the files on disk.     *)
(***************************************************************************)
EXTENDS Naturals, FiniteSets, SequencesExt, IndexLoad

CONSTANTS
  Mechanisms,          \* cache_mechanism values a caller passes
  LoadEnvs,            \* the file environments _index.load may meet
  SWNodes, SWThreads, SWSamples, SWRequests, SWFileExists,
  SWReadFailures,      \* sets of nodes whose load_cache_list read may fail
  BFSNodes, BFSAdj, BFSMedoids, BFSFilterMedoids, BFSNumPoints, BFSRequests, BFSReadFailures

ASSUME /\ Mechanisms \subseteq Nat
       /\ LoadEnvs \subseteq FileEnvs /\ LoadEnvs # {}
       /\ SWReadFailures \subseteq SUBSET SWNodes

VARIABLES
  mech,            \* cache_mechanism
  ld,              \* the index state _index.load returned with
  cpc,             \* "load", "warmup", "sample", "bfs", "ready" or "thrown"
  swFile, swRequested, counting, counter, next, thr, swList, swPc,
  swFailing,       \* nodes whose read fails in the sample path's load_cache_list
  swCache,         \* the ids load_cache_list caches after the sample warmup
  failing, bfsRequested, num, nodeSet, curLevel, toExpand, finish,
  bfsList, bfsCache, bfsPc

swVars == <<swFile, swRequested, counting, counter, next, thr, swList, swPc>>
bfsVars == <<failing, bfsRequested, num, nodeSet, curLevel, toExpand, finish,
             bfsList, bfsCache, bfsPc>>
vars == <<mech, ld, cpc, swFailing, swCache, swVars, bfsVars>>

SW == INSTANCE SampleWarmup WITH
  Nodes <- SWNodes, Threads <- SWThreads, Samples <- SWSamples,
  Requests <- SWRequests, FileExists <- SWFileExists,
  sampleFile <- swFile, requested <- swRequested, nodeList <- swList, pc <- swPc

BFS == INSTANCE CacheBFS WITH
  Nodes <- BFSNodes, Adj <- BFSAdj, Medoids <- BFSMedoids, FilterMedoids <- BFSFilterMedoids,
  NumPoints <- BFSNumPoints, Requests <- BFSRequests, ReadFailures <- BFSReadFailures,
  requested <- bfsRequested, nodeList <- bfsList, cache <- bfsCache, pc <- bfsPc

-----------------------------------------------------------------------------
Init ==
  /\ mech \in Mechanisms
  /\ ld = IndexDefaults
  /\ cpc = "load"
  /\ swFailing \in SWReadFailures
  /\ swCache = {}
  /\ SW!Init
  /\ BFS!Init

\* _index.load; a non-zero result throws runtime_error, and so does an
\* exception of the load itself.
Load ==
  /\ cpc = "load"
  /\ \E f \in LoadEnvs : \E r \in LoadFromSeparatePaths(f) :
       /\ ld' = r
       /\ cpc' = IF r.rc = "ok" THEN "warmup" ELSE "thrown"
  /\ UNCHANGED <<mech, swFailing, swCache, swVars, bfsVars>>

\* A variant of Dispatch whose cache_sample_paths does not test for the
\* sample file; CountingOffWhenReady detects it.
DispatchNoFileCheck ==
  /\ cpc = "warmup"
  /\ cpc' = CASE mech = 1 -> "sample" [] mech = 2 -> "bfs" [] OTHER -> "ready"
  /\ UNCHANGED <<mech, ld, swFailing, swCache, swVars, bfsVars>>

\* The cache_mechanism branch; cache_sample_paths returns at once when the
\* sample file does not exist.
Dispatch ==
  /\ cpc = "warmup"
  /\ cpc' = CASE mech = 1 /\ swFile -> "sample"
              [] mech = 2 -> "bfs"
              [] OTHER -> "ready"
  /\ UNCHANGED <<mech, ld, swFailing, swCache, swVars, bfsVars>>

\* A step of generate_cache_list_from_sample_queries.
SampleStep ==
  /\ cpc = "sample" /\ SW!Next
  /\ UNCHANGED <<mech, ld, cpc, swFailing, swCache, bfsVars>>

\* load_cache_list(node_list) after the sample warmup: the nodes read
\* successfully are cached.
SampleLoadCache ==
  /\ cpc = "sample" /\ swPc = "done"
  /\ swCache' = ToSet(swList) \ swFailing
  /\ cpc' = "ready"
  /\ UNCHANGED <<mech, ld, swFailing, swVars, bfsVars>>

\* A step of cache_bfs_levels or of its load_cache_list.
BFSStep ==
  /\ cpc = "bfs" /\ BFS!Next
  /\ UNCHANGED <<mech, ld, cpc, swFailing, swCache, swVars>>

BFSDone ==
  /\ cpc = "bfs" /\ bfsPc = "done"
  /\ cpc' = "ready"
  /\ UNCHANGED <<mech, ld, swFailing, swCache, swVars, bfsVars>>

Next ==
  \/ Load \/ Dispatch \/ SampleStep \/ SampleLoadCache \/ BFSStep \/ BFSDone

Spec == Init /\ [][Next]_vars /\ WF_vars(Next)

-----------------------------------------------------------------------------
\* SampleWarmup's CountsExact on the constructor: when the constructor warms
\* the cache from sample queries, every visit count is exact however the
\* threads of generate_cache_list_from_sample_queries interleave.
CountsExact == mech = 1 => SW!CountsExact

\* CacheBFS's CacheFilled on the constructor: cache_bfs_levels collects the
\* capped number of nodes, or every node it can reach.
CacheFilled == mech = 2 => BFS!CacheFilled

\* CacheBFS's BFSAssert on the constructor: the assertion closing
\* cache_bfs_levels holds.
BFSAssert == mech = 2 => BFS!BFSAssert

\* generate_cache_list_from_sample_queries raises _count_visited_nodes
\* before it looks for the sample file and returns with it still raised
\* when the file is missing (line 430); every later query would then bump
\* the shared visit counter.  Through the binding, which checks for the file
\* first, a constructed index never has counting on.
CountingOffWhenReady == cpc = "ready" => ~counting

\* The constructor returns or throws: the load, the warmup the
\* cache_mechanism selects (the sample searches on every omp thread, or
\* the BFS, whose while loop ends only because each level is cleared and
\* node_set grows) and load_cache_list all finish.
ConstructorReturns == <>(cpc \in {"ready", "thrown"})

\* A constructor that returns has an index that can serve searches: without
\* a partition prefix, load_from_separate_paths returned 0 only after it
\* read the _disk.index header and opened the reader, took the medoids from
\* the medoids file or the header, and filled the centroids from the
\* centroids file or from the medoids' vectors read through that reader.
\* (Partition mode meets none of this; see the hazards at lines 1420-1457.)
ConstructedIndexLoaded ==
  cpc \in {"warmup", "sample", "bfs", "ready"} /\ ~ld.partition =>
    /\ ld.rc = "ok" /\ Searchable(ld)
    /\ ld.medoids \in {"file", "header"}
    /\ ld.centroids \in {"file", "medoids"}
=============================================================================
