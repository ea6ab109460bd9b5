------------------------------ MODULE FetchCall ------------------------------
(***************************************************************************)
(* What a remote embedding fetch promises its caller (spec 4.8, 7), per     *)
(* thread: a call either fails at once or waits for the server; it returns *)
(* ok only with a well-formed answer to that very call, it may fail at any *)
(* time (timeout, send error, bad reply), and it always returns.  A thread *)
(* that has exited makes no more calls.  EmbeddingClient implements it.    *)
(***************************************************************************)
CONSTANTS Threads

VARIABLES
  fpc,       \* fpc[t]: "idle", "busy" or "exited"
  answered,  \* answered[t]: the server holds a well-formed answer to t's call
  fout       \* fout[t]: what t's last call returned: "none", "ok" or "fail"

fvars == <<fpc, answered, fout>>

Init ==
  /\ fpc = [t \in Threads |-> "idle"]
  /\ answered = [t \in Threads |-> FALSE]
  /\ fout = [t \in Threads |-> "none"]

\* A call that waits for the server.
Begin(t) ==
  /\ fpc[t] = "idle"
  /\ fpc' = [fpc EXCEPT ![t] = "busy"]
  /\ UNCHANGED <<answered, fout>>

\* A call that fails before anything is sent.
FailFast(t) ==
  /\ fpc[t] = "idle"
  /\ fout' = [fout EXCEPT ![t] = "fail"]
  /\ UNCHANGED <<fpc, answered>>

\* The server answers t's pending call.
Answer(t) ==
  /\ fpc[t] = "busy" /\ ~answered[t]
  /\ answered' = [answered EXCEPT ![t] = TRUE]
  /\ UNCHANGED <<fpc, fout>>

ReturnOk(t) ==
  /\ fpc[t] = "busy" /\ answered[t]
  /\ fpc' = [fpc EXCEPT ![t] = "idle"]
  /\ answered' = [answered EXCEPT ![t] = FALSE]
  /\ fout' = [fout EXCEPT ![t] = "ok"]

ReturnFail(t) ==
  /\ fpc[t] = "busy"
  /\ fpc' = [fpc EXCEPT ![t] = "idle"]
  /\ answered' = [answered EXCEPT ![t] = FALSE]
  /\ fout' = [fout EXCEPT ![t] = "fail"]

Exit(t) ==
  /\ fpc[t] = "idle"
  /\ fpc' = [fpc EXCEPT ![t] = "exited"]
  /\ UNCHANGED <<answered, fout>>

Next ==
  \E t \in Threads :
    Begin(t) \/ FailFast(t) \/ Answer(t) \/ ReturnOk(t) \/ ReturnFail(t) \/ Exit(t)

\* Every call returns.
Spec == Init /\ [][Next]_fvars /\ \A t \in Threads : WF_fvars(ReturnOk(t) \/ ReturnFail(t))
=============================================================================
