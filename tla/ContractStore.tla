---------------------------- MODULE ContractStore ----------------------------
(***************************************************************************)
(* TradingDesk.Contracts.Store: the GenServer that owns every parsed       *)
(* contract version.  Its three ETS tables are the variables contracts,    *)
(* index and active; each handle_call clause that writes is one action.    *)
(*                                                                         *)
(* `logged` is the latest snapshot of each contract handed to              *)
(* DB.Writer.persist_contract (what replaying the snapshot log to the      *)
(* latest entry per id yields).  Only ingest and update_status persist, and  *)
(* update_status persists one contract even when it changes two.           *)
(*                                                                         *)
(* Data abstraction.  A key is Contract.canonical_key.  A file hash is     *)
(* represented by the id of the version it was computed from.  The         *)
(* SAP fields sap_validated and sap_discrepancies are one value:           *)
(*   "none"      not validated since ingestion                             *)
(*   "ok"        sap_validated, no :high discrepancy                       *)
(*   "mismatch"  not validated, some :high discrepancy                     *)
(*   "manual"    not validated, no :high one (SAP not configured)          *)
(* template_validation, llm_validation and verification_status are `check`. *)
(***************************************************************************)
EXTENDS Naturals, Sequences, FiniteSets

CONSTANTS
  Id,        (* contract ids: Contract.generate_id draws a fresh one      *)
  Key,       (* canonical keys {counterparty, product_group}              *)
  Reviewer,  (* reviewer identities                                       *)
  Verdict,   (* results of the template, LLM and hash checks              *)
  None,      (* Elixir's nil                                              *)
  Absent     (* no row in the ETS table                                   *)

VARIABLES
  contracts, (* :contracts       id  -> contract                          *)
  index,     (* :contract_index  key -> ids, oldest version first         *)
  active,    (* :active_set      key -> id of the approved version        *)
  logged     (* id -> last snapshot handed to DB.Writer                   *)

storeVars == <<contracts, index, active, logged>>

Status == {"draft", "pending_review", "approved", "rejected", "superseded"}
SapState == {"none", "ok", "mismatch", "manual"}

Contract ==
  [ key : Key, version : Nat \ {0}, status : Status, clauses : BOOLEAN,
    prev : Id \cup {None}, sap : SapState, reviewer : Reviewer \cup {None},
    position : BOOLEAN, check : Verdict \cup {None} ]

(* Of a persisted snapshot only the identity and the review outcome matter. *)
Snapshot == [ key : Key, version : Nat \ {0}, status : Status,
              reviewer : Reviewer \cup {None} ]

SnapshotOf(c) == [ key |-> c.key, version |-> c.version, status |-> c.status,
                   reviewer |-> c.reviewer ]

ASSUME StoreAssumption ==
  /\ None \notin Id \cup Reviewer \cup Verdict
  /\ Absent \notin Contract \cup Snapshot

StoreTypeOK ==
  /\ contracts \in [Id -> Contract \cup {Absent}]
  /\ index \in [Key -> Seq(Id)]
  /\ active \in [Key -> Id \cup {None}]
  /\ logged \in [Id -> Snapshot \cup {Absent}]

Stored(i) == contracts[i] # Absent
HasStatus(i, s) == Stored(i) /\ contracts[i].status = s

-----------------------------------------------------------------------------
(* init/1: three empty tables.                                             *)
EmptyTables ==
  [ contracts |-> [i \in Id |-> Absent],
    index     |-> [k \in Key |-> <<>>],
    active    |-> [k \in Key |-> None] ]

StoreInit ==
  /\ contracts = EmptyTables.contracts
  /\ index = EmptyTables.index
  /\ active = EmptyTables.active
  /\ logged = [i \in Id |-> Absent]

(* The newest version of a key, as list_versions puts it first.            *)
Latest(k) == IF index[k] = <<>> THEN None ELSE index[k][Len(index[k])]

(* validate_transition/2.                                                  *)
ValidTransition ==
  { <<"draft", "pending_review">>, <<"pending_review", "approved">>,
    <<"pending_review", "rejected">>, <<"rejected", "pending_review">> }

Accepts(i, new) ==
  Stored(i) /\ <<contracts[i].status, new>> \in ValidTransition

-----------------------------------------------------------------------------
(* MUTANT of Ingest: versions are counted from zero.                       *)
IngestFromZero(i, k, hasClauses, prev, position, who) ==
  LET c == [ key |-> k, version |-> Len(index[k]), status |-> "draft",
             clauses |-> hasClauses, prev |-> prev, sap |-> "none",
             reviewer |-> who, position |-> position, check |-> None ]
  IN /\ ~Stored(i) /\ logged[i] = Absent
     /\ contracts' = [contracts EXCEPT ![i] = c]
     /\ index' = [index EXCEPT ![k] = Append(@, i)]
     /\ logged' = [logged EXCEPT ![i] = SnapshotOf(c)]
     /\ UNCHANGED active

(* MUTANT of Ingest: the next version is one more than the active one's.   *)
IngestAfterActive(i, k, hasClauses, prev, position, who) ==
  LET c == [ key |-> k, status |-> "draft",
             version |-> IF active[k] = None THEN 1
                         ELSE contracts[active[k]].version + 1,
             clauses |-> hasClauses, prev |-> prev, sap |-> "none",
             reviewer |-> who, position |-> position, check |-> None ]
  IN /\ ~Stored(i) /\ logged[i] = Absent
     /\ contracts' = [contracts EXCEPT ![i] = c]
     /\ index' = [index EXCEPT ![k] = Append(@, i)]
     /\ logged' = [logged EXCEPT ![i] = SnapshotOf(c)]
     /\ UNCHANGED active

(* {:ingest, contract}: the id is new, the version is one more than the     *)
(* number of versions of the key, the status is :draft and SAP has not     *)
(* been asked.  The reviewer is kept: nil, but for a replayed snapshot.    *)
Ingest(i, k, hasClauses, prev, position, who) ==
  LET c == [ key |-> k, version |-> Len(index[k]) + 1, status |-> "draft",
             clauses |-> hasClauses, prev |-> prev, sap |-> "none",
             reviewer |-> who, position |-> position, check |-> None ]
  IN /\ ~Stored(i) /\ logged[i] = Absent
     /\ contracts' = [contracts EXCEPT ![i] = c]
     /\ index' = [index EXCEPT ![k] = Append(@, i)]
     /\ logged' = [logged EXCEPT ![i] = SnapshotOf(c)]
     /\ UNCHANGED active

(* MUTANT of Displaced: only an older version is displaced.                *)
DisplacesOlder(i, new) ==
  { j \in Id \ {i} : /\ new = "approved"
                     /\ active[contracts[i].key] = j
                     /\ Stored(j)
                     /\ contracts[j].version < contracts[i].version }

(* MUTANT of Displaced: the active version is displaced at submission too. *)
DisplacesAtSubmission(i, new) ==
  { j \in Id \ {i} : /\ new \in {"pending_review", "approved"}
                     /\ active[contracts[i].key] = j
                     /\ Stored(j) }

(* The contract an approval of i displaces: the active one of its key.     *)
Displaced(i, new) ==
  { j \in Id \ {i} : /\ new = "approved"
                     /\ active[contracts[i].key] = j
                     /\ Stored(j) }

(* MUTANT of UpdateStatus: the active set is not updated.                  *)
UpdateStatusOnly(i, new, who) ==
  LET c == [contracts[i] EXCEPT !.status = new, !.reviewer = who]
  IN /\ Accepts(i, new)
     /\ contracts' =
          [ j \in Id |-> IF j = i THEN c
                         ELSE IF j \in Displaced(i, new)
                              THEN [contracts[j] EXCEPT !.status = "superseded"]
                              ELSE contracts[j] ]
     /\ logged' = [logged EXCEPT ![i] = SnapshotOf(c)]
     /\ UNCHANGED <<index, active>>

(* MUTANT of UpdateStatus: the contract as it was is persisted.            *)
UpdateStatusLogsOld(i, new, who) ==
  LET c == [contracts[i] EXCEPT !.status = new, !.reviewer = who]
  IN /\ Accepts(i, new)
     /\ contracts' =
          [ j \in Id |-> IF j = i THEN c
                         ELSE IF j \in Displaced(i, new)
                              THEN [contracts[j] EXCEPT !.status = "superseded"]
                              ELSE contracts[j] ]
     /\ active' = IF new = "approved" THEN [active EXCEPT ![c.key] = i]
                                      ELSE active
     /\ logged' = [logged EXCEPT ![i] = SnapshotOf(contracts[i])]
     /\ UNCHANGED index

(* {:update_status, id, new, opts} when the transition is legal.  Of the     *)
(* two contracts an approval writes only the approved one is persisted.    *)
UpdateStatus(i, new, who) ==
  LET c == [contracts[i] EXCEPT !.status = new, !.reviewer = who]
  IN /\ Accepts(i, new)
     /\ contracts' =
          [ j \in Id |-> IF j = i THEN c
                         ELSE IF j \in Displaced(i, new)
                              THEN [contracts[j] EXCEPT !.status = "superseded"]
                              ELSE contracts[j] ]
     /\ active' = IF new = "approved" THEN [active EXCEPT ![c.key] = i]
                                      ELSE active
     /\ logged' = [logged EXCEPT ![i] = SnapshotOf(c)]
     /\ UNCHANGED index

(* {:update_open_position, cp, pg, tons}: only the active contract of a    *)
(* key takes a position; nothing is persisted.                             *)
UpdateOpenPosition(k) ==
  /\ active[k] # None
  /\ Stored(active[k])
  /\ contracts' = [contracts EXCEPT ![active[k]].position = TRUE]
  /\ UNCHANGED <<index, active, logged>>

(* {:update_sap_validation, id, result}.                                   *)
UpdateSapValidation(i, result) ==
  /\ Stored(i)
  /\ contracts' = [contracts EXCEPT ![i].sap = result]
  /\ UNCHANGED <<index, active, logged>>

(* {:update_template_validation, id, result}, {:update_llm_validation, id, *)
(* result} and {:update_verification, id, attrs}: each stores a result in   *)
(* a field of its own that nothing modelled reads.                         *)
UpdateCheck(i, result) ==
  /\ Stored(i)
  /\ contracts' = [contracts EXCEPT ![i].check = result]
  /\ UNCHANGED <<index, active, logged>>

(* The owner of the tables dies, with the node or in a handler whose call  *)
(* of SnapshotLog exits: the supervisor starts init/1 again and every row  *)
(* is gone.  What was persisted stays.  Readers ask the owner, so that a   *)
(* handler that dies after its writes is one that has run, if the log took *)
(* its entry, and else one that has not begun, followed by this.           *)
Restart ==
  /\ contracts' = EmptyTables.contracts
  /\ index' = EmptyTables.index
  /\ active' = EmptyTables.active
  /\ UNCHANGED logged

=============================================================================
