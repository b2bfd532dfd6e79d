---------------------------- MODULE ContractReview ----------------------------
(***************************************************************************)
(* The clients of Contracts.Store: LegalReview (submit, approve, reject),  *)
(* SapValidator.validate, the ingestion paths and the seed loader.         *)
(*                                                                         *)
(* Each of them reads a contract with one GenServer call, decides, and     *)
(* writes with a second call.  Between the two calls any other client, a   *)
(* restart of the Store or the calendar may act, so a client is a session  *)
(* that remembers what it decided and about which contract.                *)
(***************************************************************************)
EXTENDS ContractStore

CONSTANTS
  Client,     (* LiveView, controller and task processes                   *)
  SeedClient, (* the processes somebody runs SeedLoader.load_all in        *)
  SeedLoader, (* the reviewer name SeedLoader approves under               *)
  Dated,      (* the contracts with an expiry_date, which may pass         *)
  SapResult,  (* what a comparison with SAP can say                        *)
  MayRestart  (* whether the Store may die in this instance                *)

ASSUME ReviewAssumption ==
  /\ Client \cup {SeedLoader} \subseteq Reviewer
  /\ SeedLoader \notin Client
  /\ SeedClient \subseteq Client
  /\ Dated \subseteq Id
  /\ MayRestart \in BOOLEAN
  /\ SapResult \subseteq SapState \ {"none"}

VARIABLES
  session,   (* client -> the operation it is in the middle of            *)
  expired    (* contracts whose expiry_date is before today               *)

vars == <<contracts, index, active, logged, session, expired>>

(* Operations under way about a stored contract.                           *)
ContractOp == {"submit", "approve", "force_approve", "reject", "validate",
               "seed_submit", "seed_approve"}

Session ==
  [op : {"idle"}, id : {None}, key : {None}, prev : {None}]
    \cup [op : {"ingest"}, id : {None}, key : Key, prev : Id \cup {None}]
    \cup [op : ContractOp, id : Id, key : {None}, prev : {None}]

IdleSession == [op |-> "idle", id |-> None, key |-> None, prev |-> None]

TypeOK ==
  /\ StoreTypeOK
  /\ session \in [Client -> Session]
  /\ expired \in SUBSET Id

Init ==
  /\ StoreInit
  /\ session = [c \in Client |-> IdleSession]
  /\ expired = {}

-----------------------------------------------------------------------------
About(op, i) == [IdleSession EXCEPT !.op = op, !.id = i]

(* The first call: a Store.get (or list_versions) whose reply is acceptable.*)
Begin(c, s) ==
  /\ session[c].op = "idle"
  /\ session' = [session EXCEPT ![c] = s]
  /\ UNCHANGED <<storeVars, expired>>

Finish(c) ==
  /\ session' = [session EXCEPT ![c] = IdleSession]
  /\ UNCHANGED expired

(* The second call: Store.update_status, which may by now be refused with  *)
(* :invalid_transition or :not_found.                                      *)
SettleStatus(c, op, new, who) ==
  LET i == session[c].id
  IN /\ session[c].op = op
     /\ \/ UpdateStatus(i, new, who)
        \/ ~Accepts(i, new) /\ UNCHANGED storeVars
     /\ Finish(c)

(* LegalReview.submit_for_review and validate_submittable.                 *)
SubmitRead(c, i) ==
  /\ HasStatus(i, "draft") \/ HasStatus(i, "rejected")
  /\ contracts[i].clauses
  /\ Begin(c, About("submit", i))

SubmitWrite(c) == SettleStatus(c, "submit", "pending_review", None)

(* MUTANT of ApproveRead: no discrepancy is taken for validated.           *)
ApproveReadNoMismatch(c, i) ==
  /\ HasStatus(i, "pending_review")
  /\ i \notin expired
  /\ \/ contracts[i].sap # "mismatch" /\ Begin(c, About("approve", i))
     \/ Begin(c, About("force_approve", i))

(* LegalReview.approve and validate_approvable.                            *)
ApproveRead(c, i) ==
  /\ HasStatus(i, "pending_review")
  /\ i \notin expired
  /\ \/ contracts[i].sap = "ok" /\ Begin(c, About("approve", i))
     \/ Begin(c, About("force_approve", i))

ApproveWrite(c) ==
  \/ SettleStatus(c, "approve", "approved", c)
  \/ SettleStatus(c, "force_approve", "approved", c)

(* LegalReview.reject and validate_rejectable.                             *)
RejectRead(c, i) ==
  /\ HasStatus(i, "pending_review")
  /\ Begin(c, About("reject", i))

RejectWrite(c) == SettleStatus(c, "reject", "rejected", c)

(* SapValidator.validate: get, fetch from SAP, write what the comparison   *)
(* says; an unreachable SAP writes nothing.                                *)
ValidateRead(c, i) == Stored(i) /\ Begin(c, About("validate", i))

ValidateWrite(c) ==
  /\ session[c].op = "validate"
  /\ \/ \E result \in SapResult :
           UpdateSapValidation(session[c].id, result)
     \/ UNCHANGED storeVars
  /\ Finish(c)

(* CopilotIngestion and Inventory.ingest_file look up the newest version's *)
(* hash before the ingest.                                                 *)
IngestRead(c, k) ==
  Begin(c, [op |-> "ingest", id |-> None, key |-> k, prev |-> Latest(k)])

IngestWrite(c) ==
  /\ session[c].op = "ingest"
  /\ \E i \in Id, hasClauses \in BOOLEAN :
       Ingest(i, session[c].key, hasClauses, session[c].prev, FALSE, None)
  /\ Finish(c)

(* Contracts.Pipeline ingests without a lookup.                            *)
PipelineIngest(k) ==
  /\ \E i \in Id, hasClauses \in BOOLEAN : Ingest(i, k, hasClauses, None, FALSE, None)
  /\ UNCHANGED <<session, expired>>

(* SeedLoader: ingest with a position, submit and approve, three calls and *)
(* no look at the clauses or at SAP.                                       *)
SeedIngest(c, k) ==
  /\ c \in SeedClient
  /\ session[c].op = "idle"
  /\ \E i \in Id, hasClauses \in BOOLEAN :
       /\ Ingest(i, k, hasClauses, None, TRUE, None)
       /\ session' = [session EXCEPT ![c] = About("seed_submit", i)]
  /\ UNCHANGED expired

SeedSubmit(c) ==
  LET i == session[c].id
  IN /\ session[c].op = "seed_submit"
     /\ \/ UpdateStatus(i, "pending_review", None)
        \/ ~Accepts(i, "pending_review") /\ UNCHANGED storeVars
     /\ session' = [session EXCEPT ![c] = About("seed_approve", i)]
     /\ UNCHANGED expired

SeedApprove(c) == SettleStatus(c, "seed_approve", "approved", SeedLoader)

(* Writers that keep no earlier read: SAP position refresh, template, LLM  *)
(* and hash checks.                                                        *)
Annotate ==
  /\ \/ \E k \in Key : UpdateOpenPosition(k)
     \/ \E i \in Id, v \in Verdict : UpdateCheck(i, v)
  /\ UNCHANGED <<session, expired>>

(* Midnight passes: Contract.expired? turns true for a dated contract.     *)
Expire(i) ==
  /\ i \in Dated
  /\ Stored(i)
  /\ expired' = expired \cup {i}
  /\ UNCHANGED <<storeVars, session>>

StoreRestart == MayRestart /\ Restart /\ UNCHANGED <<session, expired>>

ClientStep(c) ==
  \/ \E i \in Id : \/ SubmitRead(c, i) \/ ApproveRead(c, i)
                   \/ RejectRead(c, i) \/ ValidateRead(c, i)
  \/ \E k \in Key : IngestRead(c, k) \/ SeedIngest(c, k)
  \/ SubmitWrite(c) \/ ApproveWrite(c) \/ RejectWrite(c)
  \/ ValidateWrite(c) \/ IngestWrite(c) \/ SeedSubmit(c) \/ SeedApprove(c)

Next ==
  \/ \E c \in Client : ClientStep(c)
  \/ \E k \in Key : PipelineIngest(k)
  \/ Annotate
  \/ \E i \in Id : Expire(i)
  \/ StoreRestart

Spec == Init /\ [][Next]_vars

-----------------------------------------------------------------------------
(* SAFETY                                                                  *)

(* Only one contract per counterparty and product group is approved at a   *)
(* time, whatever the interleaving of reviewers, seed loader and restarts. *)
OneApproved ==
  \A i, j \in Id :
    HasStatus(i, "approved") /\ HasStatus(j, "approved")
      /\ contracts[i].key = contracts[j].key => i = j

(* The active set is the approved contracts: every approved contract is    *)
(* the active one of its key, and what a solve reads through               *)
(* get_active_set is stored, approved and filed under the right key.       *)
ActiveSetExact ==
  /\ \A i \in Id : HasStatus(i, "approved") => active[contracts[i].key] = i
  /\ \A k \in Key : active[k] # None =>
       HasStatus(active[k], "approved") /\ contracts[active[k]].key = k

(* A key and a version name one contract: Contract's documented identity.  *)
VersionIdentity ==
  \A i, j \in Id :
    Stored(i) /\ Stored(j) /\ contracts[i].key = contracts[j].key
      /\ contracts[i].version = contracts[j].version => i = j

(* The recorded previous hash is that of an older version of the same key. *)
(* Two ingestions may record the same one, as neither sees the other's     *)
(* contract; but following the hashes always leads back to a first version.*)
PreviousIsOlder ==
  ~MayRestart => \A i \in Id : Stored(i) /\ contracts[i].prev # None =>
    LET p == contracts[i].prev
    IN /\ Stored(p) /\ contracts[p].key = contracts[i].key
       /\ contracts[p].version < contracts[i].version

(* A superseded version always has a successor in force: superseding never *)
(* leaves a counterparty without an active contract.                       *)
SupersededHasSuccessor ==
  \A i \in Id : HasStatus(i, "superseded") =>
                 active[contracts[i].key] \notin {None, i}

(* What DB.Writer was given of a contract is its current status, except    *)
(* that a superseded contract stays :approved there: a lag of exactly that *)
(* one transition, never of a review decision.                             *)
LogLagsOnlySupersession ==
  \A i \in Id : Stored(i) =>
    /\ logged[i] # Absent
    /\ \/ logged[i].status = contracts[i].status
       \/ contracts[i].status = "superseded" /\ logged[i].status = "approved"

(* A decided contract carries the name of who decided, an undecided one    *)
(* carries none, in memory and in what was persisted.                      *)
DecisionNamesReviewer ==
  \A i \in Id, t \in {contracts, logged} : t[i] # Absent =>
    (t[i].status \in {"approved", "rejected", "superseded"}
       <=> t[i].reviewer # None)

-----------------------------------------------------------------------------
(* ACTION PROPERTIES                                                       *)

Approves(i) ==
  /\ Stored(i) /\ contracts'[i] # Absent
  /\ contracts[i].status # "approved" /\ contracts'[i].status = "approved"

(* An approval by a reviewer, unless forced, is of a contract SAP          *)
(* validation was run on, even if its result changed since it was read.    *)
ApprovesAfterSapRun ==
  \A i \in Id : Approves(i) =>
    \/ contracts[i].sap # "none"
    \/ \E c \in Client : /\ session[c].id = i
                          /\ session[c].op \in {"force_approve", "seed_approve"}

ApprovalAfterSapRun == [][ApprovesAfterSapRun]_vars

-----------------------------------------------------------------------------
(* REFINEMENT.  The book read off the contracts' statuses, not off the     *)
(* active set: the approved contract of each key, and the superseded ones. *)
InForce(k) == { i \in Id : HasStatus(i, "approved") /\ contracts[i].key = k }

BookInForce == [k \in Key |-> IF InForce(k) = {} THEN None
                              ELSE CHOOSE i \in InForce(k) : TRUE]
Retired == { i \in Id : HasStatus(i, "superseded") }

Book == INSTANCE ContractBook WITH inForce <- BookInForce, retired <- Retired

(* The clients' two-step operations on the Store implement the book.       *)
ImplementsBook == Book!BookSpec
=============================================================================
