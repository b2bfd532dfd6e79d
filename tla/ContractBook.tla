----------------------------- MODULE ContractBook -----------------------------
(***************************************************************************)
(* What the contract book promises the solver: for each counterparty and   *)
(* product group at most one contract is in force, a contract comes into   *)
(* force once, the one it replaces is out of force for good, and coming    *)
(* into force and replacing are one step.                                  *)
(***************************************************************************)
CONSTANTS Id, Key, None

VARIABLES
  inForce,  (* key -> the contract the solver may use, or None            *)
  retired   (* the contracts that were in force and were replaced         *)

BookInit ==
  /\ inForce = [k \in Key |-> None]
  /\ retired = {}

(* Contract i comes into force for k and replaces what was in force.       *)
Activate(k, i) ==
  /\ i \notin retired
  /\ \A q \in Key : inForce[q] # i
  /\ inForce' = [inForce EXCEPT ![k] = i]
  /\ retired' = retired \cup ({inForce[k]} \ {None})

(* The in-memory book is lost.                                             *)
Forget ==
  /\ inForce' = [k \in Key |-> None]
  /\ retired' = {}

BookNext == Forget \/ \E k \in Key, i \in Id : Activate(k, i)

BookSpec == BookInit /\ [][BookNext]_<<inForce, retired>>
=============================================================================
