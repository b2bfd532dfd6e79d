\* Three versions of one key, two concurrent clients; approvals are forced.
CONSTANTS
  Id = {i1, i2, i3}
  Key = {k1}
  Client = {c1, c2}
  Reviewer = {c1, c2, seed}
  SeedClient = {}
  Dated = {}
  SapResult = {}
  MayRestart = FALSE
  Verdict = {}
  SeedLoader = seed
  None = None
  Absent = Absent
SYMMETRY Sym
SPECIFICATION Spec
CHECK_DEADLOCK FALSE
INVARIANT OneApproved
INVARIANT ActiveSetExact
INVARIANT VersionIdentity
INVARIANT PreviousIsOlder
INVARIANT SupersededHasSuccessor
