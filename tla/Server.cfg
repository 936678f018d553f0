SPECIFICATION FairServer
CONSTANTS
  Requests = {r1, r2, r3}
  MaxQueries = 2
INVARIANTS
  ServerInv
  OneProbeAtATime
  PoolOutlivesRequests
  AnswersAreFresh
  CleanExitsAreClean
  SignedInCanSignOut
PROPERTIES
  EveryReadinessRequestEnds
  EveryShutdownEnds
\* The process exits.
CHECK_DEADLOCK FALSE
