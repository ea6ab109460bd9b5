\* Worker threads joined before exit (a std::thread caller, or a pool shut
\* down before the interpreter exits).
CONSTANTS
  m = m
  w = w
  p1 = p1
  p2 = p2
  Threads <- MCThreads
  Main = m
  MaxCalls = 2
  MaxSockets = 4
  JoinWorkers = TRUE
  Ports <- MCPorts

SPECIFICATION Spec

\* After exit() the process has ended and no step remains.
CHECK_DEADLOCK FALSE

INVARIANTS
  NoSocketLeak

PROPERTIES
  FetchRefinement
  ExitCompletes

