---------------------------- MODULE SampleWarmup ----------------------------
(***************************************************************************)
(* The sample-query cache warmup: generate_cache_list_from_sample_queries. *)
(*                                                                         *)
(* omp threads (schedule(dynamic, 1)) take the sample queries one at a     *)
(* time and run cached_beam_search on each; while _count_visited_nodes is  *)
(* set, every closest_unexpanded() pop of a search adds one to the node's  *)
(* entry of the shared _node_visit_counter with an atomic fetch_add.       *)
(* After the parallel loop the counter is sorted by count, descending,     *)
(* and the first num_nodes_to_cache ids become the cache list.  A search   *)
(* is abstracted to the sequence of nodes it pops.                         *)
(***************************************************************************)
EXTENDS Integers, Sequences, SequencesExt, FiniteSets

CONSTANTS
  Nodes,        \* 0.._num_points - 1
  Threads,      \* the omp threads of the parallel loop
  Samples,      \* Samples[i]: the nodes the i-th sample search pops, in order
  Requests,     \* num_nodes_to_cache values a caller may pass
  FileExists    \* whether the sample file can be found: a subset of BOOLEAN

ASSUME /\ Nodes = 0..(Cardinality(Nodes) - 1)
       /\ Samples \in Seq(Seq(Nodes))
       /\ Requests \subseteq Nat
       /\ FileExists \subseteq BOOLEAN /\ FileExists # {}

NumPoints == Cardinality(Nodes)
Idle == [q |-> 0, i |-> 0]

VARIABLES
  sampleFile,  \* file_exists(sample_bin)
  requested,   \* num_nodes_to_cache
  counting,    \* _count_visited_nodes
  counter,     \* _node_visit_counter: node -> visits
  next,        \* the next sample index the omp schedule hands out
  thr,         \* thr[t]: the query t runs and the position of its next pop
  nodeList,    \* node_list
  pc           \* "start", "run" or "done"

vars == <<sampleFile, requested, counting, counter, next, thr, nodeList, pc>>

-----------------------------------------------------------------------------
Init ==
  /\ sampleFile \in FileExists
  /\ requested \in Requests
  /\ counting = FALSE
  /\ counter = [n \in Nodes |-> 0]
  /\ next = 1
  /\ thr = [t \in Threads |-> Idle]
  /\ nodeList = <<>>
  /\ pc = "start"

\* A variant of Start that leaves _count_visited_nodes unset (the flag
\* raised after the parallel loop instead); CountsExact detects it.
StartCountingLate ==
  /\ pc = "start"
  /\ IF requested >= NumPoints
     THEN /\ nodeList' = [i \in 1..NumPoints |-> i - 1]
          /\ pc' = "done"
          /\ UNCHANGED <<counting, counter>>
     ELSE /\ counter' = [n \in Nodes |-> 0]
          /\ UNCHANGED counting
          /\ IF sampleFile THEN pc' = "run" ELSE pc' = "done"
          /\ UNCHANGED nodeList
  /\ UNCHANGED <<sampleFile, requested, next, thr>>

\* Up to the parallel loop: every node when num_nodes_to_cache covers the
\* index; otherwise counting on, counters zeroed, and the sample file
\* loaded, or a return if it is missing.
Start ==
  /\ pc = "start"
  /\ IF requested >= NumPoints
     THEN /\ nodeList' = [i \in 1..NumPoints |-> i - 1]
          /\ pc' = "done"
          /\ UNCHANGED <<counting, counter>>
     ELSE /\ counting' = TRUE
          /\ counter' = [n \in Nodes |-> 0]
          /\ IF sampleFile THEN pc' = "run" ELSE pc' = "done"
          /\ UNCHANGED nodeList
  /\ UNCHANGED <<sampleFile, requested, next, thr>>

\* An idle thread takes the next sample query.
TakeQuery(t) ==
  /\ pc = "run" /\ thr[t] = Idle /\ next <= Len(Samples)
  /\ thr' = [thr EXCEPT ![t] = [q |-> next, i |-> 1]]
  /\ next' = next + 1
  /\ UNCHANGED <<sampleFile, requested, counting, counter, nodeList, pc>>

\* One closest_unexpanded() pop of t's search, with the visit count bumped
\* by fetch_add while counting is on.
Pop(t) ==
  /\ thr[t] # Idle /\ thr[t].i <= Len(Samples[thr[t].q])
  /\ LET n == Samples[thr[t].q][thr[t].i] IN
     IF counting THEN counter' = [counter EXCEPT ![n] = @ + 1] ELSE UNCHANGED counter
  /\ thr' = [thr EXCEPT ![t].i = @ + 1]
  /\ UNCHANGED <<sampleFile, requested, counting, next, nodeList, pc>>

\* t's search returns.
EndQuery(t) ==
  /\ thr[t] # Idle /\ thr[t].i > Len(Samples[thr[t].q])
  /\ thr' = [thr EXCEPT ![t] = Idle]
  /\ UNCHANGED <<sampleFile, requested, counting, counter, next, nodeList, pc>>

\* The orders std::sort may leave the counter c in under the comparator
\* left.second > right.second: descending counts, ties in any order.
MostVisited(c) ==
  {s \in SetToSeqs(Nodes) :
     \A i, j \in 1..NumPoints : i < j => ~(c[s[j]] > c[s[i]])}

\* After the implicit barrier of the parallel loop: sort, keep the first
\* min(num_nodes_to_cache, size) ids, switch counting off.
SelectTop ==
  /\ pc = "run" /\ next > Len(Samples) /\ \A t \in Threads : thr[t] = Idle
  /\ \E s \in MostVisited(counter) :
       nodeList' = SubSeq(s, 1, IF requested < NumPoints THEN requested ELSE NumPoints)
  /\ counting' = FALSE
  /\ pc' = "done"
  /\ UNCHANGED <<sampleFile, requested, counter, next, thr>>

Next ==
  \/ Start \/ SelectTop
  \/ \E t \in Threads : TakeQuery(t) \/ Pop(t) \/ EndQuery(t)

\* The omp threads run until the loop is exhausted.
Spec == Init /\ [][Next]_vars /\ WF_vars(Next)

-----------------------------------------------------------------------------
\* The visits of n over all sample searches.
Visits(n) ==
  FoldLeft(LAMBDA acc, q : acc + Cardinality({i \in 1..Len(q) : q[i] = n}), 0, Samples)

\* Spec 4.4 and 5: with the searches of all threads interleaved, every
\* node's counter ends equal to the number of times the sample searches
\* popped it; no increment is lost or counted outside the warmup.
CountsExact ==
  pc = "done" /\ sampleFile /\ requested < NumPoints =>
    \A n \in Nodes : counter[n] = Visits(n)
=============================================================================
