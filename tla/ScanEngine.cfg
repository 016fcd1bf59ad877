\* Every interleaving of the pool, the collection and the ways a check can end.
SPECIFICATION FairSpec
CONSTANTS
  w1 = w1
  w2 = w2
  Regions <- MCRegions
  LocalChecks <- MCLocalChecks
  GlobalChecks <- MCGlobalChecks
  Workers <- MCWorkers
  Resources <- MCResources
  Cost <- MCCost
INVARIANTS
  TypeOK
  PoolConsistent
  Settled
  ReportIsComplete
  EachResourceReportedOnce
PROPERTIES
  MeetsContract
  Terminates
\* The scan ends: a returned result has no next step.
CHECK_DEADLOCK FALSE
