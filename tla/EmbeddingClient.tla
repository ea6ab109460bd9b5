--------------------------- MODULE EmbeddingClient --------------------------
(***************************************************************************)
(* The remote embedding client of pq_flash_index.cpp: fetch_embeddings_zmq *)
(* with its thread-local REQ socket, the process-wide ZMQ context and its  *)
(* teardown at process exit.                                               *)
(*                                                                         *)
(* Threads call fetch_embeddings_zmq one call at a time each.  A call      *)
(* creates and connects the thread's socket if it has none, sends, and     *)
(* then waits for the reply or the 300 s receive timeout.  The embedding   *)
(* server takes requests, answers them (well-formed or not) or loses them  *)
(* (a restart).  ZMQ delivers a reply only to the socket that sent the     *)
(* request and drops a reply whose socket has been closed.  At process     *)
(* exit the main thread's thread_local objects are destroyed, then the     *)
(* static ZmqContextManager calls zmq_ctx_destroy, which blocks until      *)
(* every socket of the context is closed.                                  *)
(***************************************************************************)
EXTENDS Naturals, FiniteSets

CONSTANTS
  Threads,      \* threads that may call fetch_embeddings_zmq
  Main,         \* the thread that runs exit()
  MaxCalls,     \* calls per thread
  MaxSockets,   \* sockets created over the whole run
  JoinWorkers,  \* TRUE when the worker threads are joined before exit
  Ports         \* the _zmq_port values calls may pass (one per index, or
                \* the values set_zmq_port installs)

ASSUME /\ Main \in Threads
       /\ MaxCalls \in Nat /\ MaxSockets \in Nat
       /\ JoinWorkers \in BOOLEAN

Sockets == 1..MaxSockets
NoSocket == 0

VARIABLES
  ctx,       \* g_zmq_context: "live" or "null"
  tl,        \* tl[t]: thread t's tl_socket, NoSocket for nullptr
  open,      \* sockets created and not yet closed
  timed,     \* sockets on which ZMQ_RCVTIMEO / ZMQ_SNDTIMEO are set
  nextSock,  \* the id of the next socket zmq_socket creates
  pc,        \* pc[t]: "idle", "recv" (in zmq_msg_recv) or "exited"
  calls,     \* calls[t]: calls thread t has made
  outcome,   \* outcome[t]: what the last call of t returned
  reqs,      \* requests at the server: [sock, call]
  reps,      \* replies on the way back: [sock, call, wellFormed]
  phase,     \* "run", "exit_tls", "exit_static" or "done"
  sockPort,  \* sockPort[s]: the port in the endpoint socket s connected to
  asked,     \* asked[t]: the zmq_port of t's last call
  served     \* served[t]: the port of the server whose reply t took last

portVars == <<sockPort, asked, served>>
vars == <<ctx, tl, open, timed, nextSock, pc, calls, outcome, reqs, reps, phase,
          sockPort, asked, served>>

-----------------------------------------------------------------------------
Init ==
  /\ ctx = "live"
  /\ tl = [t \in Threads |-> NoSocket]
  /\ open = {}
  /\ timed = {}
  /\ nextSock = 1
  /\ pc = [t \in Threads |-> "idle"]
  /\ calls = [t \in Threads |-> 0]
  /\ outcome = [t \in Threads |-> "none"]
  /\ reqs = {}
  /\ reps = {}
  /\ phase = "run"
  /\ sockPort = [s \in Sockets |-> "none"]
  /\ asked = [t \in Threads |-> "none"]
  /\ served = [t \in Threads |-> "none"]

\* zmq_close followed by tl_socket = nullptr; the call returns false.  o is
\* the set of open sockets before the close.
CloseAndFail(t, s, o) ==
  /\ open' = o \ {s}
  /\ tl' = [tl EXCEPT ![t] = NoSocket]
  /\ outcome' = [outcome EXCEPT ![t] = "fail"]
  /\ pc' = [pc EXCEPT ![t] = "idle"]

\* zmq_send on the thread's socket s: the request reaches the server and the
\* thread waits in zmq_msg_recv, or the send fails and the socket is closed.
\* o is the set of open sockets, s among them.
SendOn(t, s, o) ==
  \/ /\ reqs' = reqs \cup {[sock |-> s, call |-> calls[t] + 1, port |-> sockPort'[s]]}
     /\ tl' = [tl EXCEPT ![t] = s]
     /\ pc' = [pc EXCEPT ![t] = "recv"]
     /\ open' = o
     /\ UNCHANGED outcome
  \/ /\ CloseAndFail(t, s, o)
     /\ UNCHANGED reqs

\* A variant of Connect that does not set the socket timeouts;
\* FetchRefinement detects it.
ConnectNoTimeout(t, p) ==
  /\ nextSock' = nextSock + 1
  /\ sockPort' = [sockPort EXCEPT ![nextSock] = p]
  /\ UNCHANGED timed
  /\ \/ SendOn(t, nextSock, open \cup {nextSock})
     \/ /\ outcome' = [outcome EXCEPT ![t] = "fail"]
        /\ UNCHANGED <<tl, open, pc, reqs>>

\* A new socket for a thread that has none: zmq_socket, both timeouts set,
\* zmq_connect to tcp://127.0.0.1:p; a failed connect closes it and the
\* call returns false.
Connect(t, p) ==
  /\ nextSock' = nextSock + 1
  /\ sockPort' = [sockPort EXCEPT ![nextSock] = p]
  /\ timed' = timed \cup {nextSock}
  /\ \/ SendOn(t, nextSock, open \cup {nextSock})
     \/ /\ outcome' = [outcome EXCEPT ![t] = "fail"]
        /\ UNCHANGED <<tl, open, pc, reqs>>

\* fetch_embeddings_zmq up to the send, called with zmq_port p: reuse the
\* thread's socket, or create one (zmq_socket returns NULL when the
\* context is gone or out of sockets).
Call(t) ==
  /\ phase = "run" /\ pc[t] = "idle" /\ calls[t] < MaxCalls
  /\ calls' = [calls EXCEPT ![t] = @ + 1]
  /\ \E p \in Ports :
       /\ asked' = [asked EXCEPT ![t] = p]
       /\ IF tl[t] # NoSocket
          THEN UNCHANGED <<timed, nextSock, sockPort>> /\ SendOn(t, tl[t], open)
          ELSE \/ /\ outcome' = [outcome EXCEPT ![t] = "fail"]
                  /\ UNCHANGED <<tl, open, timed, nextSock, pc, reqs, sockPort>>
               \/ /\ ctx = "live" /\ nextSock <= MaxSockets
                  /\ Connect(t, p)
  /\ UNCHANGED <<ctx, reps, phase, served>>

\* The embedding server answers a request, with a reply that parses and has
\* a consistent size or one that does not.
Serve ==
  /\ \E r \in reqs, wf \in BOOLEAN :
       /\ reqs' = reqs \ {r}
       /\ reps' = reps \cup {[sock |-> r.sock, call |-> r.call, port |-> r.port,
                              wellFormed |-> wf]}
  /\ UNCHANGED <<ctx, tl, open, timed, nextSock, pc, calls, outcome, phase,
                 sockPort, asked, served>>

\* The server is restarted and a request it held is never answered.
ServerLose ==
  /\ \E r \in reqs : reqs' = reqs \ {r}
  /\ UNCHANGED <<ctx, tl, open, timed, nextSock, pc, calls, outcome, reps, phase,
                 sockPort, asked, served>>

\* zmq_msg_recv returns the reply to the thread's socket.  A reply that
\* fails to parse or has the wrong size fails the call; the socket is kept.
Recv(t) ==
  /\ pc[t] = "recv"
  /\ \E m \in reps :
       /\ m.sock = tl[t]
       /\ reps' = reps \ {m}
       /\ outcome' = [outcome EXCEPT ![t] =
                        IF m.wellFormed THEN "ok" ELSE "fail"]
       /\ served' = [served EXCEPT ![t] = m.port]
  /\ pc' = [pc EXCEPT ![t] = "idle"]
  /\ UNCHANGED <<ctx, tl, open, timed, nextSock, calls, reqs, phase, sockPort, asked>>

\* A variant of the timeout path that closes the socket but keeps it as
\* tl_socket (the reset to nullptr dropped); NoSocketLeak detects it.
TimeoutNoReset(t) ==
  /\ pc[t] = "recv" /\ tl[t] \in timed
  /\ open' = open \ {tl[t]}
  /\ outcome' = [outcome EXCEPT ![t] = "fail"]
  /\ pc' = [pc EXCEPT ![t] = "idle"]
  /\ UNCHANGED <<ctx, tl, timed, nextSock, calls, reqs, reps, phase>>
  /\ UNCHANGED portVars

\* The receive timeout expires, whether or not the reply is still on its
\* way: the socket is closed and reset, and the call returns false.
Timeout(t) ==
  /\ pc[t] = "recv" /\ tl[t] \in timed
  /\ CloseAndFail(t, tl[t], open)
  /\ UNCHANGED <<ctx, timed, nextSock, calls, reqs, reps, phase>>
  /\ UNCHANGED portVars

\* ZMQ discards a reply addressed to a closed socket.
DropStale ==
  /\ \E m \in reps : m.sock \notin open /\ reps' = reps \ {m}
  /\ UNCHANGED <<ctx, tl, open, timed, nextSock, pc, calls, outcome, reqs, phase>>
  /\ UNCHANGED portVars

\* The thread_local SocketCleanup of a worker that exits: it closes the
\* socket if the context is still there.
ThreadExit(t) ==
  /\ JoinWorkers /\ phase = "run"
  /\ t # Main /\ pc[t] = "idle"
  /\ IF tl[t] # NoSocket /\ ctx = "live"
     THEN open' = open \ {tl[t]} /\ tl' = [tl EXCEPT ![t] = NoSocket]
     ELSE UNCHANGED <<open, tl>>
  /\ pc' = [pc EXCEPT ![t] = "exited"]
  /\ UNCHANGED <<ctx, timed, nextSock, calls, outcome, reqs, reps, phase>>
  /\ UNCHANGED portVars

\* The main thread calls exit() once no query is running; pooled worker
\* threads are parked, joined workers have exited.
BeginExit ==
  /\ phase = "run"
  /\ \A t \in Threads : pc[t] # "recv"
  /\ JoinWorkers => \A t \in Threads \ {Main} : pc[t] = "exited"
  /\ phase' = "exit_tls"
  /\ UNCHANGED <<ctx, tl, open, timed, nextSock, pc, calls, outcome, reqs, reps>>
  /\ UNCHANGED portVars

\* A variant of the main thread's cleanup that leaves its socket open;
\* ExitCompletes detects it.
MainCleanupNoClose ==
  /\ phase = "exit_tls"
  /\ phase' = "exit_static"
  /\ UNCHANGED <<ctx, tl, open, timed, nextSock, pc, calls, outcome, reqs, reps>>
  /\ UNCHANGED portVars

\* exit() destroys the main thread's thread_local SocketCleanup first.
MainCleanup ==
  /\ phase = "exit_tls"
  /\ IF tl[Main] # NoSocket /\ ctx = "live"
     THEN open' = open \ {tl[Main]} /\ tl' = [tl EXCEPT ![Main] = NoSocket]
     ELSE UNCHANGED <<open, tl>>
  /\ phase' = "exit_static"
  /\ UNCHANGED <<ctx, timed, nextSock, pc, calls, outcome, reqs, reps>>
  /\ UNCHANGED portVars

\* ~ZmqContextManager: zmq_ctx_destroy returns once no socket is open.
DestroyContext ==
  /\ phase = "exit_static"
  /\ open = {}
  /\ ctx' = "null"
  /\ phase' = "done"
  /\ UNCHANGED <<tl, open, timed, nextSock, pc, calls, outcome, reqs, reps>>
  /\ UNCHANGED portVars

Next ==
  \/ \E t \in Threads : Call(t) \/ Recv(t) \/ Timeout(t) \/ ThreadExit(t)
  \/ Serve \/ ServerLose \/ DropStale
  \/ BeginExit \/ MainCleanup \/ DestroyContext

\* Receives and timeouts are taken when enabled (the clock runs and ZMQ
\* delivers what has arrived), the server answers what it holds unless it
\* loses it, and exit() runs to its end once called.  Joined workers exit
\* (a join waits for them); nothing forces a call or the start of exit.
Fairness ==
  /\ \A t \in Threads : WF_vars(Recv(t)) /\ WF_vars(Timeout(t)) /\ WF_vars(ThreadExit(t))
  /\ WF_vars(MainCleanup) /\ WF_vars(DestroyContext)

Spec == Init /\ [][Next]_vars /\ Fairness

-----------------------------------------------------------------------------
\* Spec 4.8 and 7: every failure closes the socket and resets tl_socket, so
\* across any sequence of timeouts, send failures and retries a thread's
\* tl_socket is an open socket, and every open socket is the tl_socket of
\* exactly one thread: none is used after close and none leaks.
NoSocketLeak ==
  /\ \A t \in Threads : tl[t] # NoSocket => tl[t] \in open
  /\ \A s \in open : Cardinality({t \in Threads : tl[t] = s}) = 1

\* The abstract fetch of each thread, seen through this module's state: a
\* thread in zmq_msg_recv is busy, and the server has answered its call when
\* a well-formed reply to the socket's current request is on its way.
Fetch == INSTANCE FetchCall WITH
  fpc <- [t \in Threads |-> CASE pc[t] = "recv" -> "busy"
                              [] pc[t] = "exited" -> "exited"
                              [] OTHER -> "idle"],
  answered <- [t \in Threads |->
                 /\ pc[t] = "recv"
                 /\ \E m \in reps : m.sock = tl[t] /\ m.call = calls[t] /\ m.wellFormed],
  fout <- outcome

\* Spec 4.8, 5 and 7: fetch_embeddings_zmq implements FetchCall.  A call
\* returns true only with the well-formed reply to the request it sent,
\* never with a late reply to an earlier, timed-out request of the same
\* thread (the timeout closes and rebuilds the REQ socket); and bounded by
\* the 300 s timeout, every call returns, even if the server lost the
\* request.
FetchRefinement == Fetch!Spec

\* Spec 9: the context has a teardown at process exit: once exit() has
\* destroyed the thread_local objects, zmq_ctx_destroy returns.
ExitCompletes == phase = "exit_static" ~> phase = "done"

\* Spec 4.8: a fetch asks the embedding server of the zmq_port it is given
\* (the index's _zmq_port, which set_zmq_port may change, or that of another
\* index searched from the same thread).  The tl_socket kept from an
\* earlier call stays connected to the endpoint built at its creation, so
\* a call that succeeds must still have been answered by the server of the
\* port it asked for.
ReplyFromAskedServer ==
  \A t \in Threads : pc[t] = "idle" /\ outcome[t] = "ok" => served[t] = asked[t]
=============================================================================
