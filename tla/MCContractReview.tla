--------------------------- MODULE MCContractReview ---------------------------
(***************************************************************************)
(* ContractReview for TLC.  Clients are interchangeable except for the     *)
(* seed loader's; ids and keys are interchangeable.                        *)
(***************************************************************************)
EXTENDS ContractReview, TLC

Sym == Permutations(Id) \cup Permutations(Key) \cup Permutations(Client)
=============================================================================
