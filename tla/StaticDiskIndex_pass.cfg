CONSTANTS
  t1 = t1
  t2 = t2
  Mechanisms = {0, 1, 2}
  LoadEnvs <- MCLoadEnvs
  AssertsAbort = {TRUE, FALSE}
  SWNodes = {0, 1, 2, 3, 4}
  SWThreads <- MCThreads
  SWSamples <- MCSamples
  SWRequests = {0, 3, 5}
  SWFileExists = {TRUE, FALSE}
  SWReadFailures <- MCSWReadFailures
  BFSNodes = {0, 1, 2, 3, 4, 5, 6, 7}
  BFSAdj <- MCAdj
  BFSMedoids <- MCMedoids
  BFSFilterMedoids <- MCFilterMedoids
  BFSNumPoints = 45
  BFSRequests <- MCBFSRequests
  BFSReadFailures <- MCBFSReadFailures

SPECIFICATION Spec

\* The constructor returns or throws; its final state has no successor.
CHECK_DEADLOCK FALSE

INVARIANTS
  CountsExact
  CacheFilled
  BFSAssert
  CountingOffWhenReady
  ConstructedIndexLoaded

PROPERTIES
  ConstructorReturns
