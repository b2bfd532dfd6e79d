\* Two threads, nine calls, arrays of three tasks.
CONSTANTS
  w1 = w1
  w2 = w2
  root = root
  a = a
  a1 = a1
  a2 = a2
  b = b
  c = c
  c1 = c1
  e = e
  last = last
  Worker <- MCWorker
  Main = w1
  Task <- MCTask
  Root = root
  Calls <- MCCalls
  kTaskArraySize = 3
  None = None
SPECIFICATION Spec
CHECK_DEADLOCK FALSE
INVARIANT SplitBelowHead
INVARIANT NoSignalLost
PROPERTY ImplementsForkJoin
PROPERTY EveryThreadEnds
