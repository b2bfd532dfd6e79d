----------------------------- MODULE MCSolveAudits -----------------------------
(***************************************************************************)
(* SolveAudits for TLC: ids, counterparties and times are interchangeable. *)
(***************************************************************************)
EXTENDS SolveAudits, TLC

Sym == Permutations(Contract) \cup Permutations(Counterparty)
         \cup Permutations(Audit) \cup Permutations(Time)

(* A bound: a second run begins only while two calls of the Writer suffice. *)
OneRunOrTwoWrites ==
  Cardinality({r \in Audit : run[r].is # "none"}) < 2 \/ count.writes <= 2
=============================================================================
