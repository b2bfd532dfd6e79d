\* Two contracts of one counterparty, two runs, two clock readings; three writes
\* (two, once the second run began), one fault and one recovery of any kind.
CONSTANTS
  Contract = {c1, c2}
  Counterparty = {A}
  Audit = {r1, r2}
  Starter = {trader}
  Time = {t1, t2}
  MaxWrites = 3
  Faults = 1
  MaxRuns = 1
  None = None
SYMMETRY Sym
CONSTRAINT OneRunOrTwoWrites
SPECIFICATION Spec
CHECK_DEADLOCK FALSE
INVARIANT IndexFaithful
INVARIANT AuditsFilled
INVARIANT LinksWhole
INVARIANT RefusalHasReason
 
