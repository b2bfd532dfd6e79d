\* Two callers, three scanners, one limit exceeded.
CONSTANTS
  Caller = {c1, c2}
  MaxRequest = 3
  MaxScanner = 3
  MaxLimit = 1
SPECIFICATION FairSpec
CHECK_DEADLOCK FALSE
INVARIANT AnswerIsMine
INVARIANT Paired
INVARIANT OneScanner
PROPERTY EveryCallEnds
