\* Two versions of one key, two clients that may be the seed loader, every SAP
\* answer, expiry dates that pass and a Store that may restart.
CONSTANTS
  Id = {i1, i2}
  Key = {k1}
  Client = {c1, c2}
  Reviewer = {c1, c2, seed}
  SeedClient = {c1, c2}
  Dated = {i1, i2}
  SapResult = {"ok", "mismatch"}
  MayRestart = TRUE
  Verdict = {}
  SeedLoader = seed
  None = None
  Absent = Absent
SYMMETRY Sym
SPECIFICATION Spec
CHECK_DEADLOCK FALSE
INVARIANT TypeOK
INVARIANT LogLagsOnlySupersession
PROPERTY ApprovalAfterSapRun
PROPERTY ImplementsBook
