----------------------------- MODULE MCSolverPort -----------------------------
(***************************************************************************)
(* SolverPort for TLC: callers are interchangeable.                        *)
(***************************************************************************)
EXTENDS SolverPort, TLC

Sym == Permutations(Caller)
=============================================================================
