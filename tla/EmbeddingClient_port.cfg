\* Calls of one thread against two embedding servers: the tl_socket of the
\* first call is reused for a call with the other port.
CONSTANTS
  m = m
  w = w
  p1 = p1
  p2 = p2
  Threads <- MCThreads
  Main = m
  MaxCalls = 2
  MaxSockets = 4
  JoinWorkers = TRUE
  Ports <- MCTwoPorts

SPECIFICATION Spec

CHECK_DEADLOCK FALSE

INVARIANT
  ReplyFromAskedServer
