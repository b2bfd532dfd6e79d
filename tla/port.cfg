\* Two callers, a solver that may be missing, slow, or exit twice.
CONSTANTS
  Caller = {c1, c2}
  MaxRequest = 5
  MaxSolver = 3
SPECIFICATION FairSpec
CHECK_DEADLOCK FALSE
INVARIANT OneInFlight
PROPERTY StaleOnlyAfterTimeout
PROPERTY EveryCallEnds
