CONSTANTS
  PQD <- MCPQD
  PrunedLists <- MCPrunedLists
  CachedLists <- MCCachedLists
  PruneRatios <- MCPruneRatios
  MaxLists = 3

SPECIFICATION Spec

\* A query meets at most MaxLists lists and then stops.
CHECK_DEADLOCK FALSE

INVARIANTS
  PruneFitsBuffer
