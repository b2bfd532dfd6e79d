\* Three contracts of one key, three writes and one recovery of any kind; Postgres
\* is unreachable once and lost once, the log answers an error once, the Store and
\* the node die once each.
CONSTANTS
  Id = {i1, i2, i3}
  Key = {k1}
  Reviewer = {r1}
  Verdict = {}
  None = None
  Absent = Absent
  Outages = 1
  NodeCrashes = 1
  Losses = 1
  StoreExits = 1
  LogFailures = 1
  MaxWrites = 3
  Recoveries = {"restore_postgres", "fill_gaps", "restore_ets"}
  MaxRuns = 1
SYMMETRY Sym
SPECIFICATION Spec
CHECK_DEADLOCK FALSE
INVARIANT RowFromLog
INVARIANT StoredOrUnderWay
INVARIANT NoGapForgotten
INVARIANT ReplayEndsForAReason
