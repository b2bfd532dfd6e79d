---------------------------- MODULE MCNetworkScanner ----------------------------
(***************************************************************************)
(* NetworkScanner for TLC: callers are interchangeable.                    *)
(***************************************************************************)
EXTENDS NetworkScanner, TLC

Sym == Permutations(Caller)
=============================================================================
