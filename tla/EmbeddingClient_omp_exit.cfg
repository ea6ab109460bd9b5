\* batch_search's omp worker threads stay parked in the pool until the
\* process exits, so their thread_local SocketCleanup never runs first.
CONSTANTS
  m = m
  w = w
  p1 = p1
  p2 = p2
  Threads <- MCThreads
  Main = m
  MaxCalls = 2
  MaxSockets = 4
  JoinWorkers = FALSE
  Ports <- MCPorts

SPECIFICATION Spec

CHECK_DEADLOCK FALSE

PROPERTY
  ExitCompletes
