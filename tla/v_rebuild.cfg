\* Postgres is lost once and restored.
CONSTANTS
  Id = {i1}
  Key = {k1}
  Reviewer = {r1}
  Verdict = {}
  None = None
  Absent = Absent
  Outages = 0
  NodeCrashes = 0
  Losses = 1
  StoreExits = 0
  LogFailures = 0
  MaxWrites = 2
  Recoveries = {"restore_postgres"}
  MaxRuns = 1
SYMMETRY Sym
SPECIFICATION RSpec
CHECK_DEADLOCK FALSE
PROPERTY RestoreRebuilds
