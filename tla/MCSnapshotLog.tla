---------------------------- MODULE MCSnapshotLog ----------------------------
(***************************************************************************)
(* SnapshotLog for TLC: entry types are interchangeable.                   *)
(***************************************************************************)
EXTENDS SnapshotLog, TLC

Sym == Permutations(Type)
=============================================================================
