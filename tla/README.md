# TLA+ models of the DiskANN PQ flash index

These modules model `PQFlashIndex` (`src/src/pq_flash_index.cpp`, `src/include/pq_flash_index.h`)
and its Python binding `StaticDiskIndex`. They are checked with TLC. Every definition is translated
from the C++ source. `PROJECT.json` maps each definition to the lines it models. The exceptions
are code that is not in this tree: `NeighborPriorityQueue` (`neighbor.h`), the destructor of
`ScratchStoreManager`, and the embedding server. They are modelled from the design text (`spec.md`)
and marked `spec_modelled`.

## The system

| Part | Source | State | Operations |
|---|---|---|---|
| Search loop | `cached_beam_search` (1772-2889) | retset (bounded best-first queue), visited, full_retset, node_distances memo, num_ios, the hop's cached / frontier / batched lists | seed with best medoid, select beam, expand cached node, expand read node, end hop, deferred rescoring, sort and copy top k |
| Neighbour distances | `compute_dists` lambda (1875-1987) | node_distances | PQ lookup; remote fetch + exact distance; memo hit/miss split; PQ fallback on failure |
| Pruning | `prune_node_nbrs` lambda (2001-2095) | aq_priority_queue (global pruning) | local / global PQ-ranked cut |
| Embedding client | `fetch_embeddings_zmq` (1571-1702), `g_zmq_context` (1556-1569) | thread-local REQ socket, global context | lazy connect, send, receive with 300 s timeout, close and rebuild on error |
| Node cache | `load_cache_list` (331-375), `cache_bfs_levels` (474-614), `generate_cache_list_from_sample_queries` | `_nhood_cache`, `_coord_cache`, `_node_visit_counter` | BFS warmup, sample-query warmup with a shared atomic counter |
| Scratch pool | `setup_thread_data` (139-156), `ScratchStoreManager` | `_thread_data` queue of per-thread scratch | borrow at query start, return at query end |
| Layout | `get_node_sector`, `offset_to_node*` (117-137), `read_nodes` (158-329), partition reads (2241-2309, 2501-2556) | sector buffers | packed-sector and partition decoding |
| Range search | `range_search` (2902-2940) | l_search, res_count | repeated searches with doubling l_search |
| Loading | `load` (886-912), `load_from_separate_paths` (1009-1461), `read_partition_info`, `load_graph_index` (914-1007), `use_medoids_data_as_centroids` (615-659) | index header, reader, medoids, centroids, label tables, partition tables | file checks with early returns, throws and an assert |
| Label filters | `point_has_label` (775-790), filtered medoid choice (2124-2144), insertion filters (2383-2388) | the query's filter label | filtered seeding, filtered expansion |
| Binding | `StaticDiskIndex` (`pq_flash_index.h` 291-424) | the index, `cache_mechanism` | constructor (load, then one warmup), `search`, `batch_search` (omp threads), `set_zmq_port` |

How the parts interact:
- The binding's `batch_search` runs one query per omp thread.
- Each query borrows a scratch slot from the pool.
- A query reads sectors through the reader, or serves nodes from the cache that the warmup filled.
- With the recompute or deferred flags, a query asks the embedding server for vectors over the thread's socket.
- The sample-query warmup runs searches in parallel, and those searches bump the shared visit counter.

### What makes each part correct
- **Search loop**
  - No node is expanded twice.
  - The ids returned are distinct expanded nodes.
  - The returned distances are the nodes' true distances: PQ distances are allowed under `skip_search_reorder`.
  - The distances are true whichever of the cache, the memo, the remote recompute or the deferred fetch produced them.
  - The result is the k best expanded nodes, in order.
  - `io_limit` bounds the reads, up to one beam past it.
  - The query terminates.
- **Pruning**: never returns more ids than the list it was given, so the in-place rewrite and the distance buffers stay in bounds.
- **Memo** (`node_distances`): gives the same distance the fetch would.
- **Embedding client**: a reply is only ever taken as the answer to its own request, from the server the call named; a timed-out socket is rebuilt; every call returns.
- **Cache warmup**: reads at most `num_nodes_to_cache` distinct nodes; the visit counts are exact under parallel searches; the counting flag is off once the index is built.
- **Scratch pool**: no slot is used by two queries at once; no borrower waits forever.
- **Layout**: every frontier node decodes its own sector.
- **Loading**: a load that returns 0 has read the header, opened the reader, and set medoids and centroids from files or from the medoids' vectors.
- **Label filters**: every result of a filtered query carries the filter label or the universal label.
- **Range search**: returns exactly the prefix of the sorted result within the range, and all of it when it stops by the half rule; it stops.

## Modules

### `BeamSearch` (with `MC_BeamSearch`)
One query of `cached_beam_search`, unfiltered or filtered, with the L2 metric.

**Model of a query.** The query runs on one thread from top to bottom (spec §5), so the model is a single sequential process.
- `pc` records where the function is.
- Vectors are abstracted to their distance to the query:
  - `ExactDist` is the full-precision distance;
  - `PQDist` is the PQ-table distance;
  - `OriginDist` is the distance to the zero vector, which a zeroed coordinate cache yields.
- The embedding server is the environment. Each fetch returns `ok`, `fail` (connect / send / receive / parse / size error) or `omit` (a well-formed reply without some ids).
- The flags the binding passes are the record `mode`, chosen in `Init` from `Modes`.
- The caller's `io_limit` is the variable `ioLimit`, chosen in `Init` from `IoLimits`.

**State** (`VARIABLES`):
- `retset`: `NeighborPriorityQueue`, a sorted sequence capped at `L`.
- `visited`.
- `fullRetset`: `full_retset`.
- `memo`: `node_distances`.
- `numIos`: `num_ios`.
- `cachedQ`, `frontierQ`: `cached_nhoods` and `frontier_nhoods` of the current hop.
- `batched`: `batched_node_ids`.
- `result`: the `indices` and `distances` output.

**Actions:**

| Action | Code |
|---|---|
| `Seed` | medoid choice (2109-2124) and seeding (2148-2150) |
| `SelectBeam` | loop test and beam pops (2172-2239); `num_ios` is counted per uncached beam node |
| `ExitLoop` | the loop test failing (2172) |
| `ExpandCached` | one iteration of the cached loop (2316-2395): full distance, `compute_dists` of the adjacency, insertion loop |
| `ExpandFrontier` | one iteration of the frontier loop (2408-2609); one disjunct per value of `batch_recompute` |
| `EndHop` | the batch compute of `batch_recompute` (2611-2646) |
| `Finish` | deferred fetch (2651-2751), sort (2753) and top-k copy with dummy remap (2853-2876) |

`ComputeDists` is the whole `compute_dists` lambda. It gives the set of possible `(distances, memo)` results:
- the PQ path;
- the all-hits early return;
- the fetch, whose failure or size mismatch falls back to PQ;
- the memo write-back, which (as at line 1965) is keyed by `node_ids[i]`.

A write-back index past the end of `node_ids` is undefined behaviour, so the key there is any node or none. `CachedNodeDist` and `FrontierNodeDist` are the distance branches for the expanded node, in the code's order.

**Two kinds of undefined behaviour** become nondeterministic choices:
- reading `full_retset[i]` past its end in the top-k copy gives an arbitrary `[id, dist]`, because the scratch vector is reused;
- coordinates decoded from a partition sector give an arbitrary distance.

**Label filters.** `mode.filter` is `use_filter`; the binding itself always passes false (line 1543), so filtered queries are those of other callers.
- `filterLabel` is the query's label, chosen in `Init` from `FilterLabels`.
- `PointLabels`, `FilterMedoids` (`_filter_to_medoid_ids`) and `UniversalLabel` are the parsed label tables; `NoLabel` means no universal label.
- `Seed` has three disjuncts: the unfiltered best medoid; the filtered choice (`FilterMedoidChoices`, the strict `<` scan over the label's medoids, each through `compute_dists`); and the throw "Cannot find medoid for specified filter." (line 2144) for a label without medoids.
- `Admitted` is the insertion loops' test (2383-2388): an unfiltered query skips dummy points; a filtered one skips points without the label or the universal label.
- `BindingCall` is how the binding calls `cached_beam_search` (1506-1543): no filter, and `io_limit` the largest `uint32_t` (`NoIoLimit`). `BindingResultIdsDistinct` checks that such a query returns distinct ids, since an unfiltered query skips dummies before the remap of line 2860.
- `MC_BeamSearch` gives six nodes label sets with overlaps, medoids for labels 1 and 2 and none for 3, and universal label 9 on node 3 and its dummy.

**Not modelled yet:**
- `prune_node_nbrs`: the bounds keep every adjacency, and every hop's batch, at 10 or fewer ids, where the lambda returns at once (2006-2010). An `ASSUME` states this. Pruning itself is the module `PruneNbrs`.
- reorder data, disk PQ and the inner-product rescaling.

**Constants** (`MC_BeamSearch`):
- A 6-node graph with cycles.
- Two medoids, so the medoid choice matters.
- One dummy point, 4, a copy of node 3: the same distances and, with the universal label, the same labels. An unfiltered query must skip it, and a filtered one can admit both.
- Two cached nodes (0, 2).
- Distances chosen so that the PQ order and the exact order disagree, so a wrong distance changes retset's order.
- `K = 2`, `L = 3`, `BeamWidth = 2`.
- `IoLimits = {1, 100}`: a limit that stops the loop after one hop, and one that never does.

With `L = 3`, the queue truncates and expanded entries fall out. With `BeamWidth = 2`, a hop mixes cached and read nodes.

**Fairness.** `WF_vars(Next)`. One thread runs the query. Sector reads are synchronous. Every fetch returns within its 300 s timeout (spec §5), so an enabled step is eventually taken. A finished query has no next step, so the runs set `CHECK_DEADLOCK FALSE`; the liveness property `Termination` is what rules out a query that stops early.

### `EmbeddingClient` (with `MC_EmbeddingClient`)
`fetch_embeddings_zmq` (1571-1702), the process-wide context `g_zmq_context` with its `ZmqContextManager` (1556-1569), and the thread-local `SocketCleanup` (1591-1602).

**State:**
- `ctx`: the context.
- `tl`: each thread's `tl_socket`.
- `open`: the sockets not yet closed.
- `timed`: the sockets with `ZMQ_RCVTIMEO` set.
- `sockPort`: the port in each socket's endpoint.
- `reqs` and `reps`: the requests at the server and the replies in flight.
- `asked` and `served`: the port a thread's last call passed, and the port of the server that answered it.
- `phase`: process exit.

**Actions:**

| Action | Code |
|---|---|
| `Call` | creates a socket if `tl_socket` is null, otherwise reuses it, then sends. The `zmq_port` of the call is chosen from `Ports`. |
| `Connect` | creates the socket, sets both timeouts, connects to `tcp://127.0.0.1:port` (1605-1628). |
| `SendOn` | sends, or closes the socket and resets it to null (1630-1637). |
| `Recv` | takes the reply, then runs the parse and size checks. A bad reply fails the call and keeps the socket (1639-1701). |
| `Timeout` | the 300 s receive timeout: close, reset, fail (1644-1650). |
| `ThreadExit`, `MainCleanup` | `SocketCleanup` closes the socket if the context is still live. |
| `DestroyContext` | `zmq_ctx_destroy`, which waits until no socket is open. |
| `Serve`, `ServerLose` (spec-modelled) | the embedding server answers or loses a request. |
| `DropStale` | ZMQ drops a reply to a closed socket. |

**Fairness:** weak fairness on receive, timeout, joined-thread exit and the exit steps. The clock runs and ZMQ delivers. Nothing forces a new call.

### `FetchCall` and the refinement
`FetchCall` is the abstract promise of one remote fetch per thread (spec §4.8, §7):
- `Begin`: a call waits for the server; `FailFast`: it fails before anything is sent;
- `Answer`: the server holds a well-formed answer to that call;
- `ReturnOk` only after `Answer`; `ReturnFail` at any time; `Exit`.
- Weak fairness on returning: every call returns.

`EmbeddingClient` instantiates it with a refinement mapping: a thread in `zmq_msg_recv` is busy, and the call is answered when a well-formed reply to the socket's current request is in flight. `FetchRefinement` (the abstract `Spec` as a `PROPERTY`) then says that a call never returns ok with a late reply to an earlier, timed-out request, and that every call returns.

### `CacheBFS`, `SampleWarmup`, `IndexLoad` and `StaticDiskIndex` (with `MC_StaticDiskIndex`)
`StaticDiskIndex` is the binding's constructor: `_index.load`, then the warmup `cache_mechanism` selects, then `load_cache_list`. It composes the two warmup modules with `INSTANCE ... WITH`, on its own variables; only the warmup selected ever takes a step.
- `Load`: `IndexLoad`'s load (below); a non-zero result throws.
- `Dispatch`: the `cache_mechanism` branch. The sample path returns at once when the sample file is missing.
- `SampleStep`: a step of `SampleWarmup`, which is `generate_cache_list_from_sample_queries` (386-471). A sample search is abstracted to the sequence of nodes it pops.
  - `Start`: the early return when the request covers the index, the counting flag and counter reset, and the return when the sample file is missing.
  - `TakeQuery`: the `schedule(dynamic, 1)` hand-out. `Pop`: the `fetch_add` at 2199-2202. `EndQuery`.
  - `SelectTop`: the unstable descending sort (any order of ties, `MostVisited`), `min(num, size)` ids, and clearing the flag.
- `SampleLoadCache`: `load_cache_list` of the chosen ids, with reads that may fail.
- `BFSStep`, `BFSDone`: a step of `CacheBFS`, which is `cache_bfs_levels` (474-614) followed by `load_cache_list` (331-376).
  - `Start`: the 10% cap (`std::round`) and the medoid level.
  - `BeginLevel`: a level's new nodes join `node_set`, in any `robin_set` order.
  - `ExpandNode`: the neighbour loop with `finish_flag` (`ExploreNbrs`). A failed read skips the node.
  - `EndLevel`, `EndBFS`, `LoadCacheList`.

`CacheBFS`'s `Start` also adds the label medoids of `_filter_to_medoid_ids` to the first level, in any order of the map and up to the cap (501-514).

**Loading.** `Load` applies `IndexLoad`, whose `LoadFromSeparatePaths(f)` is the set of states `load_from_separate_paths` can return with for a file environment `f` (a record of which files exist and which header checks pass). Loading is one sequential call, so it is an operator and `Load` one action. The stages, in the code's order, each end the call on failure (`Then` skips the rest):
- `CheckPQPivots`: not 256 centroids returns -1.
- `LoadLabels`: the label files (labels to medoids, universal label, dummy map).
- `LoadPQTables`: too many chunks throws; the disk PQ pivots.
- `ReadIndexMetadata`: skipped in partition mode. Otherwise an unopened file or a point-count mismatch returns -1, and a degree over the maximum or reorder data without disk PQ throws; then the reader opens.
- `LoadMedoids`: the medoids file (bad dimension throws), the centroids file (mismatch throws) or `UseMedoidsDataAsCentroids`; without a medoids file, the header's medoid, or in partition mode `assert(false)`. Builds with and without `NDEBUG` are the choice `AssertsAbort`; without the abort, the medoid is the uninitialised `medoid_id_on_file`.
- `UseMedoidsDataAsCentroids`: in partition mode `read_nodes` returns true without writing coordinates, so the centroids are copies of the uninitialised `new T[]` buffers (`"uninit"`). They stay zero only when a read fails.
- `LoadPartition`: `read_partition_info` and `load_graph_index`, whose return values are ignored.

`ConstructedIndexLoaded` checks that a constructor that returns, without a partition prefix, has an index whose header was read, whose reader is open, and whose medoids and centroids came from files or from the medoids' vectors. Partition mode fails all of this when a partition file is missing, when there is no centroids file, or when there is no medoids file. Dropping the property's partition guard makes TLC find it; those cases are listed as hazards at lines 1452, 1396 and 1422, since no run slot is left for a violation run.

`MC_StaticDiskIndex` uses `cache_mechanism` 0, 1 and 2. A load meets a complete index, with or without a partition prefix, or one that differs from it in a single file or check (38 environments).
- The sample warmup has two threads, three overlapping sample searches over 5 nodes, requests {0, 3, 5}, and a sample file that may be missing.
- The BFS has 8 nodes, two medoids, a 45-point index (cap 5), requests {0, 1, 3, 4, 9} and four sets of failing reads; in the last every read from the roots fails, so only four nodes are reachable and the loop must end on an empty level.

`ConstructorReturns` checks, under `WF_vars(Next)` (the constructor is one thread of control; the warmup threads are the omp threads, which the OS runs), that every constructor returns or throws: the sample warmup finishes its queries and the BFS loop of line 518 ends, on the cache target or on an empty level.

`Init` starts from `IndexDefaults`, the initialisers of the members in the header (`pq_flash_index.h` 179-276).

`generate_cache_list_from_sample_queries` raises `_count_visited_nodes` before it tests for the sample file, and returns with it raised when the file is missing (line 430). `CountingOffWhenReady` checks that the binding, which tests for the file first, never leaves a constructed index counting.

### `QueryThreads` (with `MC_QueryThreads`)
The query entry points sharing the scratch pool (spec §4.6, §6.1).
- `SetupSlot`: one iteration of `setup_thread_data`, which pushes a new `SSDThreadData` slot under `omp critical`.
- `Borrow`, `Release`: `ScratchStoreManager`'s constructor pops a slot, waiting while the pool is empty; its destructor pushes it back. The pool is a set, so any pop order is allowed.
- `TakeQuery`, `SearchDone`, `WorkerDone`: `batch_search`'s omp workers under `schedule(dynamic, 1)`.
- `RangeStart`, `RangeIter`: `range_search`'s doubling loop.
  - A search with `k = l_search` is abstracted to its result: the `l` nearest distances, and past the index's points whatever the reused scratch holds (`Garbage`).
  - `CountWithin` is the `res_count` loop.
  - `RangeNext` applies the half rule and doubles `l_search` in `Width`-bit arithmetic, stopping past `max_l_search`.

**Fairness.** Weak fairness on every thread's steps: the OS runs every runnable thread, and a thread waiting for a slot runs once one stays free.

`MC_QueryThreads` has two slots for two workers and a range caller, so a thread waits for a slot; three batch queries; five points at distances 1, 2, 3, 5 and 8; radii that take none, some and all of them; `min_l_search` odd and even; and a 4-bit `l_search`.

### `PruneNbrs` (with `MC_PruneNbrs`)
`prune_node_nbrs` (2001-2096) and the per-query min-heap `aq_priority_queue` (1990-1993) that global pruning keeps across calls. A query is abstracted to the neighbour lists it meets, in order.
- `ExpandPruned`: a frontier node's adjacency, or a hop's batch under `batch_recompute`. It is pruned, and every returned id joins `visited` (2560-2628).
- `ExpandCached`: a cached node's adjacency. It is not pruned, and its ids join `visited` (2365-2393).
- `PruneNodeNbrs`: lists of at most 10 ids are returned as they are; otherwise global or local pruning.
  - `PruneGlobal`: push every id (`PushAll`, `HeapPush` in the heap's pop order `Before`), take the top `CutSize` entries of the whole heap, and keep the unvisited ones.
  - `PruneLocal`: sort, then keep `max(10, n * ratio)` when that is fewer.
- The caller's `prune_ratio` is a fraction `<<num, den>>`. Line 1783 turns it into the share kept (`KeepNum`, `KeepDen`).

`MC_PruneNbrs` gives 27 ids distinct PQ distances, three bands of 11 or 12 ids (near, middle, far) that overlap, their concatenation, a short list, two cached lists, and the ratios 0, 1/4, 1/2 and 3/4. A query meets 3 lists. The bands make ids an earlier cut left in the heap surface in a later one.

### `DiskLayout` (with `MC_DiskLayout`)
The sector arithmetic and the node reads, for the default layout and the partition layout.
- Operators:
  - `GetNodeSector`, `OffsetToNode`, `ReadAt` (117-137);
  - `GraphNodeLen` (989-991);
  - `NumSectorsPerNode` (1849-1850);
  - the partition lookups `PartitionPos`, `PartitionCountPos`, `PartitionRecordOk` (239-312).
- `ReadNodes` is the whole of `read_nodes` (159-329). Its callers are `ReadNodesCall`:
  - `use_medoids_data_as_centroids` (coords only);
  - `load_cache_list` (coords and neighbours);
  - `cache_bfs_levels` (neighbours only).
- For the search loop, `Start` is the `beam_width` check (1786-1789). `ReadFrontier` places the frontier buffers and the reads (2211-2293). `DecodeFrontier` decodes each frontier node (2413-2533).
- The reference definitions describe a writer that lays each node out at its own offset: `RecStart`, `CoordsHome`, `NhoodHome`. The properties compare what the code decodes against them.
- Scratch memory not written by the current read holds `Stale` or `Unwritten` bytes, so a misplaced read shows up as decoding the wrong record.

`MC_DiskLayout` has four layouts:
- `Packed`: 4 nodes per 4 KB sector;
- `MultiSector`: one 5000-byte node over two sectors;
- `Partitioned`: 2512-byte records;
- `PartitionedWide`: 6096-byte records, wider than a sector.

It has 5 nodes in two graph partitions. Node 4 is in no partition, and node 3 has a record too long for its sector.

## Runs

| Run | cfg | Expect | What it shows |
|---|---|---|---|
| `beamsearch_pass` | `BeamSearch_pass.cfg` | pass | A query never expands a node twice. Its distances are true, its result is the k best expanded nodes, a filtered result carries the filter or universal label, an unfiltered query as the binding calls it returns distinct ids, and it returns. 70,339 states. |
| `beamsearch_memo` | `BeamSearch_memo.cfg` | violation of `ResultDistancesSound` | The memo index bug (line 1965). |
| `beamsearch_topk` | `BeamSearch_topk.cfg` | violation of `ResultIdsDistinct` | Top-k copy past the end of `full_retset` (line 2856). |
| `prunenbrs_pass` | `PruneNbrs_pass.cfg` | pass | Local and global pruning, at four ratios and in any order of pruned and cached lists, never return more ids than they were given, though global pruning returns ids of earlier lists. 1,362 states. |
| `embedding_pass` | `EmbeddingClient_pass.cfg` | pass | Covers a lossy server, timeouts racing late replies, retries on two threads and joined workers. No socket leaks or is used after close, the client refines `FetchCall`, and exit completes. 33,453 states. |
| `embedding_omp_exit` | `EmbeddingClient_omp_exit.cfg` | violation of `ExitCompletes` | A pooled omp worker keeps its socket open, so `zmq_ctx_destroy` at exit never returns (line 1564). |
| `embedding_port` | `EmbeddingClient_port.cfg` | violation of `ReplyFromAskedServer` | A call with another `zmq_port` reuses the thread's socket and is answered by the old server (line 1605). |
| `staticdiskindex_pass` | `StaticDiskIndex_pass.cfg` | pass | For every `cache_mechanism`, thread interleaving, expansion order and set of failing reads: the sample counts are exact, the BFS fills min(cap, reachable) nodes, its assertion holds, a built index does not keep counting, a constructed unpartitioned index is fully loaded, and every constructor returns or throws. 301,968 states. |
| `querythreads_pass` | `QueryThreads_pass.cfg` | pass | Batch workers and a range caller over two slots: range search returns the in-range results (all of them after a half-rule stop), and every query returns. 4,578 states. |
| `disklayout_pass` | `DiskLayout_pass.cfg` | pass | For the packed, multi-sector and partition layouts, every frontier node decodes its own record, and `read_nodes` returns the right neighbours and fails exactly where it must. |
| `disklayout_wide` | `DiskLayout_wide.cfg` | violation of `FrontierDecodesOwnRecord` | Partition records wider than a sector land at the wrong place in the scratch buffer (line 2267). |
| `disklayout_coords` | `DiskLayout_coords.cfg` | violation of `ReadNodesCoordsSound` | In partition mode, `read_nodes` returns true without writing the coordinates (line 173). |

### Findings
- **Memo (1965).** The `compute_dists` write-back files a distance under the wrong node. A query can then return a node with distance 0.
- **Top-k (2856).** With `io_limit`, the top-k copy reads past `full_retset`. The result can contain duplicate or never-expanded ids.
- **Exit hang (1564).**
  - After a `batch_search` with the remote features, process exit hangs in `zmq_ctx_destroy`.
  - The omp pool threads never run their `SocketCleanup`.
- **Port (1605).**
  - The thread-local socket keeps the endpoint of the first `zmq_port` it was created for.
  - After `set_zmq_port`, or a search of a second index on the same thread, requests go to the old server, and its embeddings are accepted.
- **Wide partitions (2267).**
  - In partition mode `_nnodes_per_sector` stays 0, so a node spans `ceil(_max_node_len / 4096)` sectors.
  - The buffers are strided by that count, but the reads are placed at `idx * 4096`.
  - With records over 4 KB, a node decodes another node's bytes.
- **Partition coordinates (173).** `read_nodes` skips the coordinate copy in partition mode and still returns true. The node cache and the medoid centroids get unwritten coordinates.

Each property of a passing run has a mutant in `PROJECT.json`. A mutant is a variant of one definition with a plausible bug, and the run detects it:

| Property | Mutant |
|---|---|
| `TypeOK` | an insert without the capacity check |
| `NoDuplicateExpansion` | an insertion loop that ignores `visited` |
| `ResultDistancesSound` | a deferred rescoring that keeps the search-time distances |
| `ResultIsBestExpanded` | a copy without the sort |
| `Termination` | `has_unexpanded_node` tested as "non-empty" |
| `PruneFitsBuffer` | global pruning that keeps popped ids already visited |
| `NoSocketLeak` | the timeout path without the reset to nullptr |
| `FetchRefinement` | a socket without `ZMQ_RCVTIMEO` |
| `ExitCompletes` | the main thread's cleanup without the close |
| `CacheFilled` | the 10% cap truncated instead of rounded |
| `BFSAssert` | the neighbour loop without the `finish_flag` test |
| `CountsExact` | the counting flag raised late |
| `CountingOffWhenReady` | the binding's dispatch without the sample-file test |
| `RangeComplete` | the `res_count` loop without the all-in-range case |
| `AllQueriesReturn` | range search's doubling without the `max_l_search` stop |
| `FrontierDecodesOwnRecord` | default-layout reads placed one sector apart in `sector_scratch`, not `num_sectors_per_node` apart |
| `ReadNodesNbrsSound` | the sector computed without the header sector |
| `ReadNodesComplete` | the partition record check without the `needed` bound |
| `ResultMatchesFilter` | the insertion filter admitting every point once a universal label exists |
| `ConstructedIndexLoaded` | the medoids loaded before the index header opens the reader |
| `BindingResultIdsDistinct` | the insertion test admitting dummy points on unfiltered queries |
| `ConstructorReturns` | the BFS while test without `cur_level->size() != 0` |

### Bounds
Every run is small enough to finish in seconds, and chosen so that the case a property is about happens:
- `L = 3` truncates the queue, and `BeamWidth = 2` mixes cached and read nodes.
- `io_limit` 1 stops the loop after the first hop, which reads a whole beam; 100 never stops it.
- The prune lists have 11 to 33 ids, above the floor of 10 where pruning starts, and overlap so global pruning meets ids earlier lists left in the heap.
- Two threads with two calls each, and four sockets, allow a timeout followed by a rebuild on each thread.
- Two ports are enough to change the endpoint.
- The BFS request values cover 0, under the cap, at the cap, and over it.
- The warmup samples overlap, so the threads' increments race on the same node.
- Two slots for three threads make a thread wait for a slot; `Width = 4` keeps `max_l_search` below the wrap, as 32 bits do.
- The layouts include one node per sector, several nodes per sector, and nodes over a sector.

## Plan (most important first)
1. `BeamSearch`: reorder data and disk PQ.
2. A composition of `PruneNbrs` into `BeamSearch`, on a graph whose adjacencies exceed 10 ids (the state space is the obstacle).
3. The deferred fetch with a short reply (line 2693): `BeamSearch` models it as the fetch outcome `omit`, but no run enables it, since the design says `missing_ids` is unused and the server never sends one.

## Not modelled, and why
- The contents of the index files: label-file parsing (`parse_label_file`, `load_label_map`, `get_filter_number`), the PQ tables, partition lists and graph metadata. They are parsing, and feed constants (`Adj`, `Medoids`, `PointLabels`, `FilterMedoids`, `CentroidDist`) rather than behaviour. The `max_base_norm` file only matters for the inner-product metric, which is not modelled.
- The generated protobuf code is byte parsing.
- `generate_random_labels` and the filtered sample warmup: the binding never filters. A random label without medoids throws inside the omp region (line 2144); `Seed` models the throw.
- The dummy remap of a filtered query (line 2860) can return one real id twice, against spec 8.1's distinct ids. `MC_BeamSearch` has the case: a filtered query on label 2 returns id 3 twice, once for itself and once for its dummy 4. `BindingResultIdsDistinct` checks the half the binding reaches, the unfiltered query with no I/O limit. It is listed as a hazard because no run slot is left.
- The `io_limit` overshoot (line 2172): the loop tests `num_ios < io_limit` only before a hop, so with `io_limit` 1 a hop of two uncached nodes ends with two reads, against spec 4.7 and scenario S5 (`n_ios <= io_limit`). `SelectBeam` keeps the code's test and TLC reaches such a state; no run states it because every violation slot holds a finding, and a property that allows the overshoot would only restate the guard.
- The scratch pool's pop and push (`ConcurrentQueue`, not in this tree) are atomic in `QueryThreads`, taken from the spec; no property is stated about them alone, since it would follow from that modelling. `AllQueriesReturn` checks what depends on them: that waiting for a slot never blocks a query forever.
- The unstable sort of the sample warmup is modelled (`MostVisited` allows any order of ties), but no property restates that the kept nodes are the most visited, since that follows from `MostVisited`'s definition; `CountsExact` checks the counts it sorts.
- The PQ table and distance kernels are numerical code outside this tree. They are abstracted to the constant distance functions.
- The CMake files and the generated protobuf header have no behaviour to check.
