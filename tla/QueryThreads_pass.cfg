CONSTANTS
  w1 = w1
  w2 = w2
  r = r
  NumSlots = 2
  Workers <- MCWorkers
  NumQueries = 3
  Ranger = r
  Dists <- MCDists
  Garbage = {0, 9}
  Radii = {0, 2, 4, 9}
  MinLs = {1, 3}
  MaxLs = {4, 5}
  Width = 4

SPECIFICATION Spec

\* Once every query has returned no thread has a step left.
CHECK_DEADLOCK FALSE

INVARIANTS
  RangeComplete

PROPERTIES
  AllQueriesReturn
