\* Two callers, one solver.
CONSTANTS
  Caller = {c1, c2}
  MaxRequest = 3
  MaxSolver = 1
SYMMETRY Sym
SPECIFICATION Spec
CHECK_DEADLOCK FALSE
INVARIANT ResultOfRequest
