----------------------------- MODULE QueryThreads -----------------------------
(***************************************************************************)
(* The query entry points of PQFlashIndex sharing the scratch pool.        *)
(*                                                                         *)
(* setup_thread_data creates one SSDThreadData slot per load-time thread   *)
(* and pushes it into _thread_data.  Every cached_beam_search borrows a    *)
(* slot through ScratchStoreManager, resets it, and gives it back when it  *)
(* returns.  StaticDiskIndex::batch_search runs its queries on omp worker  *)
(* threads (schedule(dynamic, 1)), possibly more threads than slots; a     *)
(* range_search caller runs searches with a doubling l_search, each one    *)
(* borrowing a slot again.  The pool is a set: the spec calls it a LIFO,   *)
(* and any pop order is allowed here.  A search is abstracted to its       *)
(* result: the distances of the l nearest points, in order; entries past  *)
(* the index's points are whatever the reused scratch holds.               *)
(***************************************************************************)
EXTENDS Naturals, Sequences, FiniteSets, FiniteSetsExt

CONSTANTS
  NumSlots,     \* num_threads passed to load: the slots setup_thread_data makes
  Workers,      \* the omp threads of batch_search
  NumQueries,   \* num_queries of the batch
  Ranger,       \* a thread calling range_search
  Dists,        \* the sorted distances of the index's points to the range query
  Garbage,      \* distances a read past the end of full_retset may yield
  Radii,        \* range values
  MinLs, MaxLs, \* min_l_search and max_l_search values
  Width         \* bits of the uint32 l_search

ASSUME /\ NumSlots \in Nat \ {0} /\ NumQueries \in Nat
       /\ Ranger \notin Workers
       /\ Dists \in Seq(Nat)
       /\ Width \in Nat \ {0}
       /\ MinLs \subseteq 1..(2 ^ Width - 1) /\ MaxLs \subseteq 1..(2 ^ Width - 1)

Threads == Workers \cup {Ranger}
Slots == 1..NumSlots
NoSlot == 0
NumPoints == Len(Dists)

VARIABLES
  created,    \* slots setup_thread_data has pushed
  pool,       \* slots in _thread_data
  held,       \* held[t]: the slot t's ScratchStoreManager holds
  tpc,        \* tpc[t]: "idle", "borrow", "search" or "done"
  nextQ,      \* the next query index the omp schedule hands out
  doneQ,      \* the number of batch queries whose search has returned
  radius, minL, maxL,
  l,          \* range_search's l_search
  lastL,      \* the l_search of its latest search
  resCount,   \* res_count
  halfStop    \* the latest search had fewer than half its results in range

vars == <<created, pool, held, tpc, nextQ, doneQ, radius, minL, maxL, l, lastL,
          resCount, halfStop>>

-----------------------------------------------------------------------------
\* The possible results of cached_beam_search(k = l_search, l_search): the
\* l nearest distances, and past the last point anything the copy reads.
SearchResults(n) ==
  {[i \in 1..n |-> IF i <= NumPoints THEN Dists[i] ELSE g[i]] : g \in [1..n -> Garbage]}

\* A variant of CountWithin that drops the case where every result is in
\* range, so res_count keeps its earlier value; RangeComplete detects it.
CountWithinNoFull(res, prev, r) ==
  LET over == {i \in DOMAIN res : res[i] > r}
  IN  IF over # {} THEN Min(over) - 1 ELSE prev

\* The res_count loop: the index of the first result out of range, or all
\* l_search results when none is; with l_search = 0 res_count is unchanged.
CountWithin(res, prev, r) ==
  LET over == {i \in DOMAIN res : res[i] > r}
  IN  IF over # {} THEN Min(over) - 1
      ELSE IF Len(res) > 0 THEN Len(res) ELSE prev

Init ==
  /\ created = {} /\ pool = {}
  /\ held = [t \in Threads |-> NoSlot]
  /\ tpc = [t \in Threads |-> "idle"]
  /\ nextQ = 1 /\ doneQ = 0
  /\ radius \in Radii /\ minL \in MinLs /\ maxL \in MaxLs
  /\ l = 0 /\ lastL = 0 /\ resCount = 0 /\ halfStop = FALSE

\* One iteration of setup_thread_data's loop: a new slot, pushed under the
\* omp critical section.
SetupSlot ==
  /\ Cardinality(created) < NumSlots
  /\ \E s \in Slots \ created : created' = created \cup {s} /\ pool' = pool \cup {s}
  /\ UNCHANGED <<held, tpc, nextQ, doneQ, radius, minL, maxL, l, lastL, resCount, halfStop>>

Loaded == Cardinality(created) = NumSlots

\* A batch_search worker takes the next query of the dynamic schedule.
TakeQuery(w) ==
  /\ Loaded /\ tpc[w] = "idle" /\ nextQ <= NumQueries
  /\ tpc' = [tpc EXCEPT ![w] = "borrow"]
  /\ nextQ' = nextQ + 1
  /\ UNCHANGED <<created, pool, held, doneQ, radius, minL, maxL, l, lastL, resCount, halfStop>>

\* The worker finds the loop exhausted and waits at the implicit barrier.
WorkerDone(w) ==
  /\ tpc[w] = "idle" /\ nextQ > NumQueries
  /\ tpc' = [tpc EXCEPT ![w] = "done"]
  /\ UNCHANGED <<created, pool, held, nextQ, doneQ, radius, minL, maxL, l, lastL, resCount, halfStop>>

\* range_search starts: l_search = min_l_search.
RangeStart ==
  /\ Loaded /\ tpc[Ranger] = "idle"
  /\ l' = minL % (2 ^ Width)
  /\ tpc' = [tpc EXCEPT ![Ranger] = "borrow"]
  /\ UNCHANGED <<created, pool, held, nextQ, doneQ, radius, minL, maxL, lastL, resCount, halfStop>>

\* ScratchStoreManager's constructor pops a slot, waiting while the pool is
\* empty; the search then resets it.
Borrow(t) ==
  /\ tpc[t] = "borrow" /\ pool # {}
  /\ \E s \in pool : pool' = pool \ {s} /\ held' = [held EXCEPT ![t] = s]
  /\ tpc' = [tpc EXCEPT ![t] = "search"]
  /\ UNCHANGED <<created, nextQ, doneQ, radius, minL, maxL, l, lastL, resCount, halfStop>>

\* The manager's destructor, when cached_beam_search returns, pushes the slot
\* back.
Release(t) ==
  /\ pool' = pool \cup {held[t]}
  /\ held' = [held EXCEPT ![t] = NoSlot]

\* A batch query's search returns.
SearchDone(w) ==
  /\ tpc[w] = "search"
  /\ Release(w)
  /\ doneQ' = doneQ + 1
  /\ tpc' = [tpc EXCEPT ![w] = "idle"]
  /\ UNCHANGED <<created, nextQ, radius, minL, maxL, l, lastL, resCount, halfStop>>

\* A variant of RangeNext without the max_l_search test; AllQueriesReturn
\* detects it.
RangeNextNoMax(n, stop) == [l |-> (n * 2) % (2 ^ Width), stop |-> stop]

\* The end of an iteration: stop on the half rule, double l_search in
\* uint32, stop once it exceeds max_l_search.
RangeNext(n, stop) ==
  LET l2 == (n * 2) % (2 ^ Width)
  IN  [l |-> l2, stop |-> stop \/ l2 > maxL]

\* One iteration of range_search's loop after the borrow: the search with
\* k = l_search, the slot given back, res_count, and the stop rules.
RangeIter ==
  /\ tpc[Ranger] = "search"
  /\ Release(Ranger)
  /\ \E res \in SearchResults(l) :
       LET rc == CountWithin(res, resCount, radius)
           half == rc < l \div 2
           nx == RangeNext(l, half)
       IN  /\ resCount' = rc
           /\ halfStop' = half
           /\ lastL' = l
           /\ l' = nx.l
           /\ tpc' = [tpc EXCEPT ![Ranger] = IF nx.stop THEN "done" ELSE "borrow"]
  /\ UNCHANGED <<created, nextQ, doneQ, radius, minL, maxL>>

Next ==
  \/ SetupSlot \/ RangeStart \/ RangeIter
  \/ \E w \in Workers : TakeQuery(w) \/ WorkerDone(w) \/ SearchDone(w)
  \/ \E t \in Threads : Borrow(t)

\* The OS runs every runnable thread; a thread waiting for a slot runs once
\* one stays free.
Spec ==
  /\ Init /\ [][Next]_vars
  /\ WF_vars(SetupSlot) /\ WF_vars(RangeStart) /\ WF_vars(RangeIter)
  /\ \A t \in Threads : WF_vars(Borrow(t))
  /\ \A w \in Workers : WF_vars(TakeQuery(w)) /\ WF_vars(WorkerDone(w)) /\ WF_vars(SearchDone(w))

-----------------------------------------------------------------------------
\* The points of Dists within r among its first n.
InRange(n, r) == Cardinality({i \in 1..n : i <= NumPoints /\ Dists[i] <= r})

\* Spec 6.1: range_search returns the results of its last search that lie
\* within the radius, and when it stopped because fewer than half of them
\* did, that is every point within the radius.
RangeComplete ==
  tpc[Ranger] = "done" =>
    /\ resCount = InRange(lastL, radius)
    /\ halfStop => resCount = InRange(NumPoints, radius)

\* Every batch query completes and range_search returns, with more threads
\* than slots.
AllQueriesReturn ==
  <>(doneQ = NumQueries /\ tpc[Ranger] = "done")
=============================================================================
