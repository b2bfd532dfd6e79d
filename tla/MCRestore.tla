------------------------------- MODULE MCRestore -------------------------------
(***************************************************************************)
(* ContractDurability with a history variable, for what is said of a       *)
(* restore into a new, empty database.                                     *)
(***************************************************************************)
EXTENDS MCContractDurability

VARIABLE rebuilding (* restore_postgres began on an empty table and nothing *)
                    (* was written since                                   *)

RInit == Init /\ rebuilding = FALSE

Begins == runs' # runs /\ recovery'.op = "restore_postgres"
OnEmptyTable == losses > 0 /\ tasks = {} /\ \A i \in Id : pg[i] = Absent

RNext ==
  /\ Next
  /\ rebuilding' = IF Begins THEN OnEmptyTable ELSE rebuilding /\ writes' = writes

RSpec == RInit /\ [][RNext]_<<vars, rebuilding>>

Finishes == recovery.todo # {} /\ recovery'.todo = {} /\ recovery'.cut = 0

(* Restoring a lost database from the log rebuilds the table: each         *)
(* contract's last snapshot.                                               *)
RestoreRebuilds ==
  [][ rebuilding /\ Finishes =>
        \A i \in Id : logged[i] # Absent => pg'[i] = logged[i] ]_<<vars, rebuilding>>
=============================================================================
