\* Two entry types, two days, two faults of any kind, a manifest every second
\* entry.
CONSTANTS
  Type = {contract, audit}
  ManifestEvery = 2
  MaxDay = 2
  MaxEntry = 5
  MaxFault = 2
SYMMETRY Sym
SPECIFICATION LogSpec
CHECK_DEADLOCK FALSE
INVARIANT ChainLinked
INVARIANT SeqIsOrder
INVARIANT AckedReadable
PROPERTY BreaksOnlyAtStart
