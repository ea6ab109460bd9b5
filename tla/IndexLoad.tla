------------------------------ MODULE IndexLoad ------------------------------
(***************************************************************************)
(* PQFlashIndex::load and load_from_separate_paths.  Loading is one        *)
(* sequential call with nothing running beside it, so it is modelled as an *)
(* operator from the files on disk to the set of states the index can be   *)
(* in when the call returns: a chain of stages, each of which may end the  *)
(* call (rc "err" for an early return of -1, "thrown" for an exception,   *)
(* "aborted" for a failed assert; "ok" is a return of 0) and leaves the    *)
(* later stages out.                                                       *)
(*                                                                         *)
(* A file environment is a record of what the disk holds:                 *)
(*   partition     partition_prefix is non-empty (load sets _use_partition)*)
(*   pq256         the PQ pivots file has 256 centroids                    *)
(*   labels, labelsToMedoids, univ, dummy   the label files exist          *)
(*   chunksOk      _n_chunks <= MAX_PQ_CHUNKS                              *)
(*   diskPQ        <index>_pq_pivots.bin exists                            *)
(*   indexOpens    the _disk.index metadata stream opens                   *)
(*   nnodesMatch   its point count equals the compressed file's            *)
(*   degreeOk      the degree it implies is <= MAX_GRAPH_DEGREE            *)
(*   reorder       it says reorder data exists                             *)
(*   medoidsFile, medoidsDim1, centroidsFile, centroidsMatch               *)
(*   partitionFile, graphFile   the partition-mode files open             *)
(***************************************************************************)

\* Build without NDEBUG: a failed assert aborts; with it, execution goes on.
CONSTANT AssertsAbort   \* subset of BOOLEAN: the builds considered

Fields == {"partition", "pq256", "labels", "labelsToMedoids", "univ", "dummy",
           "chunksOk", "diskPQ", "indexOpens", "nnodesMatch", "degreeOk",
           "reorder", "medoidsFile", "medoidsDim1", "centroidsFile",
           "centroidsMatch", "partitionFile", "graphFile"}

FileEnvs == [Fields -> BOOLEAN]

\* The index members load sets, with the initialisers of their
\* declarations.  medoids is where _medoids came from ("none": nullptr,
\* "file", the header's medoid_id_on_file, or "undef": an uninitialised
\* medoid_id_on_file); centroids is where _centroid_data came from ("none":
\* nullptr, "file", the medoid vectors read by read_nodes, "uninit": the
\* uninitialised new T[] buffers a successful read left unwritten, or
\* "zero": the memset left untouched by a failed read).  readerOpen,
\* header, partInfo and graphMeta say
\* whether the reader was opened and the header, partition table and graph
\* metadata were read.
IndexDefaults ==
  [rc |-> "ok", partition |-> FALSE, filterMedoids |-> FALSE,
   universal |-> FALSE, dummy |-> FALSE, diskPQ |-> FALSE, header |-> FALSE,
   readerOpen |-> FALSE, medoids |-> "none", centroids |-> "none",
   partInfo |-> FALSE, graphMeta |-> FALSE]

\* load: a non-empty partition_prefix sets _use_partition before
\* load_from_separate_paths runs.
Fresh(f) == [IndexDefaults EXCEPT !.partition = f.partition]

Fail(s, code) == [s EXCEPT !.rc = code]

\* Run stage Op on every state the call is still going in.
Then(S, Op(_)) == UNION {IF s.rc = "ok" THEN Op(s) ELSE {s} : s \in S}

\* get_bin_metadata of the pivots file: anything but 256 centroids returns -1.
CheckPQPivots(f, s) == {IF f.pq256 THEN s ELSE Fail(s, "err")}

\* The labels branch: parse_label_file and the label map, then the
\* optional labels_to_medoids, universal label and dummy map files.
LoadLabels(f, s) ==
  {IF f.labels
     THEN [s EXCEPT !.filterMedoids = f.labelsToMedoids, !.universal = f.univ,
                    !.dummy = f.dummy]
     ELSE s}

\* Too many PQ chunks throws; disk PQ pivots are loaded when present.
LoadPQTables(f, s) ==
  {IF f.chunksOk THEN [s EXCEPT !.diskPQ = f.diskPQ] ELSE Fail(s, "thrown")}

\* The index metadata, read only without a partition prefix: an unopened
\* file or a point-count mismatch returns -1, an excessive degree or
\* reorder data without disk PQ throws; reader->open ends the block.
ReadIndexMetadata(f, s) ==
  {CASE s.partition                 -> s
     [] ~f.indexOpens \/ ~f.nnodesMatch -> Fail(s, "err")
     [] ~f.degreeOk \/ (f.reorder /\ ~s.diskPQ) -> Fail(s, "thrown")
     [] OTHER -> [s EXCEPT !.header = TRUE, !.readerOpen = TRUE]}

\* use_medoids_data_as_centroids: the centroid buffer is zeroed and each
\* medoid's coordinates are read with read_nodes into a new T[] buffer,
\* copied when the read succeeds.  In partition mode read_nodes succeeds
\* without writing coordinates, so the uninitialised buffers are copied.
UseMedoidsDataAsCentroids(s) ==
  [s EXCEPT !.centroids = CASE s.partition    -> "uninit"
                            [] ~s.readerOpen  -> "zero"
                            [] OTHER          -> "medoids"]

\* The medoids file with its optional centroids file, or else the single
\* medoid of the header; in partition mode that header was never read and
\* the code asserts false.
LoadMedoids(f, s) ==
  IF f.medoidsFile
    THEN {CASE ~f.medoidsDim1 -> Fail(s, "thrown")
            [] ~f.centroidsFile -> UseMedoidsDataAsCentroids([s EXCEPT !.medoids = "file"])
            [] ~f.centroidsMatch -> Fail(s, "thrown")
            [] OTHER -> [s EXCEPT !.medoids = "file", !.centroids = "file"]}
    ELSE IF s.partition
      THEN {IF abort THEN Fail(s, "aborted")
            ELSE UseMedoidsDataAsCentroids([s EXCEPT !.medoids = "undef"])
              : abort \in AssertsAbort}
      ELSE {UseMedoidsDataAsCentroids([s EXCEPT !.medoids = "header"])}

\* read_partition_info and load_graph_index; both return 1 on an unopened
\* file, and load_from_separate_paths ignores what they return.
LoadPartition(f, s) ==
  {IF s.partition
     THEN [s EXCEPT !.partInfo = f.partitionFile, !.graphMeta = f.graphFile]
     ELSE s}

\* A variant of LoadFromSeparatePaths that loads the medoids before the
\* index metadata block opens the reader; ConstructedIndexLoaded detects it.
LoadMedoidsBeforeHeader(f) ==
  LET S1 == CheckPQPivots(f, Fresh(f))
      S2 == Then(S1, LAMBDA s : LoadLabels(f, s))
      S3 == Then(S2, LAMBDA s : LoadPQTables(f, s))
      S4 == Then(S3, LAMBDA s : LoadMedoids(f, s))
      S5 == Then(S4, LAMBDA s : ReadIndexMetadata(f, s))
  IN  Then(S5, LAMBDA s : LoadPartition(f, s))

\* load_from_separate_paths, stage by stage in the order of the code.
LoadFromSeparatePaths(f) ==
  LET S1 == CheckPQPivots(f, Fresh(f))
      S2 == Then(S1, LAMBDA s : LoadLabels(f, s))
      S3 == Then(S2, LAMBDA s : LoadPQTables(f, s))
      S4 == Then(S3, LAMBDA s : ReadIndexMetadata(f, s))
      S5 == Then(S4, LAMBDA s : LoadMedoids(f, s))
  IN  Then(S5, LAMBDA s : LoadPartition(f, s))

\* The index can serve node reads: through the disk index file, or in
\* partition mode through the partition table and the graph file.
Searchable(s) ==
  IF s.partition THEN s.partInfo /\ s.graphMeta ELSE s.readerOpen /\ s.header
=============================================================================
