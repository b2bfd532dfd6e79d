------------------------- MODULE MCContractDurability -------------------------
(***************************************************************************)
(* ContractDurability for TLC: contract ids are interchangeable.           *)
(***************************************************************************)
EXTENDS ContractDurability, TLC

Sym == Permutations(Id)
=============================================================================
