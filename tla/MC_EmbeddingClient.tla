------------------------- MODULE MC_EmbeddingClient -------------------------
(***************************************************************************)
(* Two threads, the main thread and one omp worker, each making two calls  *)
(* to one or two embedding servers; enough sockets for every call to need  *)
(* a fresh one after a failure.                                            *)
(***************************************************************************)
EXTENDS EmbeddingClient

CONSTANTS m, w, p1, p2

MCThreads == {m, w}

\* One embedding server for the whole process.
MCPorts == {p1}

\* Two servers: two indexes, or a port changed with set_zmq_port.
MCTwoPorts == {p1, p2}
=============================================================================
