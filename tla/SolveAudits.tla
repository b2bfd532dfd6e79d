----------------------------- MODULE SolveAudits -----------------------------
(***************************************************************************)
(* What becomes of the record of a solve: Pipeline.write_audit puts it     *)
(* into SolveAuditStore, logs it and starts a task for Postgres, whose     *)
(* tables refer to one another; SnapshotRestore replays contracts, audits  *)
(* and saved scenarios, in this order, from the log.                       *)
(*                                                                         *)
(* A row keeps a result as JSON, which has no form for tuples: the         *)
(* sensitivities of a Monte Carlo distribution are tuples, and so may be   *)
(* the SAP discrepancies of a contract.  Inserting either raises before    *)
(* Postgres is asked, in a task as in a replay.                            *)
(*                                                                         *)
(* Contracts.Store and its log are reduced to what audits need of them:    *)
(* which contracts there are, in which order they were logged and which    *)
(* version they have (ContractStore, ContractDurability and SnapshotLog    *)
(* are the detailed models).  An audit never changes once completed, so    *)
(* the id stands for the record wherever it is kept.  What a recovery has  *)
(* still to replay is kept as positions in the log, which only grows.      *)
(***************************************************************************)
EXTENDS Naturals, FiniteSets, Sequences

CONSTANTS
  Contract,     (* contract ids                                            *)
  Counterparty, (* who they are with                                       *)
  Audit,        (* run ids, which are audit ids                            *)
  Starter,      (* trader ids and "__auto_runner__"                        *)
  Time,         (* clock readings, which the indexes only compare          *)
  MaxWrites,    (* bound: calls of the Writer                              *)
  Faults,       (* bound: deaths of the node, of calls to Postgres, of     *)
                (* calls of the stores and of the log                      *)
  MaxRuns,      (* bound: recoveries                                       *)
  None          (* nil                                                     *)

ASSUME AuditsAssumption ==
  /\ MaxWrites \in Nat /\ Faults \in Nat /\ MaxRuns \in Nat
  /\ None \notin Contract \cup Audit \cup Starter

VARIABLES
  store,     (* Contracts.Store                                            *)
  ident,     (* the counterparty and version an id was stored with         *)
  run,       (* each run: its phase, contracts_used, completed_at, starter *)
             (* and whether its result has a JSON form                     *)
  recorded,  (* SolveAuditStore's main table                               *)
  index,     (* its three index tables: key -> time -> audit               *)
  log,       (* the snapshot log, by type                                  *)
  odd,       (* the entries of contracts in it that have no JSON form      *)
  tasks,     (* the Writer's tasks not yet run                             *)
  contractRow, (* Postgres: contracts                                      *)
  auditRow,    (* ... solve_audits                                         *)
  link,        (* ... solve_audit_contracts                                *)
  scenarioRow, (* ... scenarios: a saved one and the number of its copy    *)
  recovery,  (* the recovery under way                                     *)
  count      (* writes, outages, crashes, lost calls and recoveries so far *)

memory == <<store, recorded, index>>
tables == <<contractRow, auditRow, link, scenarioRow>>
vars == <<memory, ident, run, log, odd, tasks, tables, recovery, count>>

Position == 1..MaxWrites
Scenario == 1..MaxWrites
Nameless == 0
Timeline == "timeline"
IndexKey == Contract \cup Starter \cup {Timeline}
Type == {"contract", "audit", "scenario"}
Item == Contract \cup Audit \cup Scenario \cup {Nameless}
Operation == {"fill_gaps", "restore_postgres", "restore_ets"}
Task == [type : {"contract"}, id : Contract, n : Position]
          \cup [type : {"audit"}, id : Audit, n : Position]
          \cup [type : {"scenario"}, id : Scenario \cup {Nameless}, n : Position]
NoIdent == [party |-> None, version |-> 0]
NoRun == [is |-> "none", used |-> {}, at |-> None, by |-> None, encodes |-> TRUE]
Idle == [op |-> "none", type |-> "none", todo |-> {}, refused |-> 0,
         read |-> [t \in Type |-> 0]]

(* What is under way: the positions still to replay of the type whose turn *)
(* it is, the position of an audit that was refused, how much was read.    *)
Recovery == [op : Operation \cup {"none"}, type : Type \cup {"none"},
             todo : SUBSET Position, refused : 0..MaxWrites,
             read : [Type -> 0..MaxWrites]]

TypeOK ==
  /\ store \subseteq Contract
  /\ ident \in [Contract -> [party : Counterparty \cup {None}, version : Nat]]
  /\ run \in [Audit -> [is : {"none", "recorded", "ended", "died"},
                       used : SUBSET Contract, at : Time \cup {None},
                       by : Starter \cup {None}, encodes : BOOLEAN]]
  /\ recorded \subseteq Audit
  /\ index \in [IndexKey -> [Time -> Audit \cup {None}]]
  /\ log \in [Type -> Seq(Item)]
  /\ odd \subseteq Position
  /\ tasks \subseteq Task
  /\ contractRow \subseteq Contract /\ auditRow \subseteq Audit
  /\ link \subseteq Audit \X Contract
  /\ scenarioRow \subseteq Scenario \X (Nat \ {0})
  /\ recovery \in Recovery
  /\ count \in [writes : 0..MaxWrites, outages : 0..Faults, crashes : 0..Faults,
                lost : 0..Faults, runs : 0..MaxRuns]

Init ==
  /\ store = {} /\ ident = [c \in Contract |-> NoIdent]
  /\ run = [r \in Audit |-> NoRun]
  /\ recorded = {} /\ index = [k \in IndexKey |-> [t \in Time |-> None]]
  /\ log = [t \in Type |-> <<>>] /\ odd = {} /\ tasks = {}
  /\ contractRow = {} /\ auditRow = {} /\ link = {} /\ scenarioRow = {}
  /\ recovery = Idle
  /\ count = [writes |-> 0, outages |-> 0, crashes |-> 0, lost |-> 0, runs |-> 0]

-----------------------------------------------------------------------------
(* THE WRITER: log, then a task                                            *)

Faulty == count.outages + count.crashes + count.lost < Faults

Counts == [count EXCEPT !.writes = @ + 1]
CountsLost == [Counts EXCEPT !.lost = @ + 1]

(* The entry goes to the log, as one that has a JSON form or one that has  *)
(* not.                                                                    *)
Logs(type, id, fits) ==
  /\ log' = [log EXCEPT ![type] = Append(@, id)]
  /\ odd' = IF fits THEN odd ELSE odd \cup {Len(log[type]) + 1}

LogsNot == UNCHANGED <<log, odd>>

(* The log may answer an error; the task is started all the same.          *)
Persist(type, id, fits) ==
  /\ count.writes < MaxWrites
  /\ \/ Logs(type, id, fits) /\ count' = Counts
     \/ Faulty /\ LogsNot /\ count' = CountsLost
  /\ tasks' = IF fits THEN tasks \cup {[type |-> type, id |-> id, n |-> count.writes + 1]}
              ELSE tasks

(* The caller exits when the log does not answer, which may log the entry  *)
(* all the same.                                                           *)
PersistExits(type, id, fits) ==
  /\ count.writes < MaxWrites
  /\ Logs(type, id, fits) \/ LogsNot
  /\ Faulty /\ count' = CountsLost
  /\ UNCHANGED tasks

(* Contracts.Store.ingest: ids are random; the version counts the          *)
(* contracts with the counterparty that are in memory.  What is ingested   *)
(* has a JSON form, unless restore_ets takes it from the log.              *)
Ingests(c, party, fits) ==
  /\ ident[c] = NoIdent
  /\ fits \/ odd # {}
  /\ ident' = [ident EXCEPT ![c] = [party |-> party,
       version |-> 1 + Cardinality({d \in store : ident[d].party = party})]]
  /\ UNCHANGED <<recorded, index, run, tables, recovery>>

IngestContract(c, party, fits) ==
  /\ Ingests(c, party, fits)
  /\ store' = store \cup {c}
  /\ Persist("contract", c, fits)

(* A change of status logs and writes the contract again, with what SAP    *)
(* validation has found meanwhile.                                         *)
ChangeStatus(c, fits) ==
  /\ c \in store
  /\ Persist("contract", c, fits)
  /\ UNCHANGED <<memory, ident, run, tables, recovery>>

(* The Store is the caller of the Writer and dies with its tables.         *)
StoreExits(c, fits) ==
  /\ PersistExits("contract", c, fits)
  /\ store' = {}

IngestExits(c, party, fits) == Ingests(c, party, fits) /\ StoreExits(c, fits)

StatusExits(c, fits) ==
  /\ c \in store
  /\ StoreExits(c, fits)
  /\ UNCHANGED <<recorded, index, ident, run, tables, recovery>>

-----------------------------------------------------------------------------
(* RUNS                                                                    *)

(* snapshot_active_contracts/1: at most one contract of a counterparty.    *)
ActiveSets ==
  {C \in SUBSET store :
     \A c, d \in C : ident[c].party = ident[d].party => c = d}

KeysOf(audit) == audit.used \cup {audit.by, Timeline}

(* MUTANT of Record: the time of the indexes is that of recording.         *)
RecordAtNow(r, audit) ==
  /\ recorded' = recorded \cup {r}
  /\ \E now \in Time : index' = [k \in IndexKey |->
       IF k \in KeysOf(audit) THEN [index[k] EXCEPT ![now] = r] ELSE index[k]]

(* SolveAuditStore's handler of {:record, audit}; an index entry of the    *)
(* same key and time is replaced.                                          *)
Record(r, audit) ==
  /\ recorded' = recorded \cup {r}
  /\ index' = [k \in IndexKey |->
       IF k \in KeysOf(audit) THEN [index[k] EXCEPT ![audit.at] = r] ELSE index[k]]

(* A run snapshots the contracts, solves, reads the clock (two may read    *)
(* the same) and records the audit; what it used was in the store all      *)
(* along, so nothing of it is seen before this.  write_audit/1 goes to the *)
(* store first ...                                                         *)
Audits(r, by, is) ==
  /\ run[r].is = "none"
  /\ \E C \in ActiveSets, t \in Time, encodes \in BOOLEAN :
       run' = [run EXCEPT ![r] =
                 [is |-> is, used |-> C, at |-> t, by |-> by, encodes |-> encodes]]
  /\ UNCHANGED <<store, ident, log, odd, tasks, tables, recovery>>

RecordAudit(r, by) ==
  /\ Audits(r, by, "recorded")
  /\ Record(r, run'[r])
  /\ UNCHANGED count

(* ... whose answer may come too late for the run,                         *)
RecordExits(r, by) ==
  /\ Audits(r, by, "died")
  /\ Record(r, run'[r])
  /\ Faulty /\ count' = [count EXCEPT !.lost = @ + 1]

(* ... then to persist_solve_audit/1, which may end it, too.               *)
Ends(r, is) ==
  /\ run[r].is = "recorded"
  /\ run' = [run EXCEPT ![r].is = is]
  /\ UNCHANGED <<memory, ident, tables, recovery>>

PersistAudit(r) == Ends(r, "ended") /\ Persist("audit", r, TRUE)
PersistAuditExits(r) == Ends(r, "died") /\ PersistExits("audit", r, TRUE)

-----------------------------------------------------------------------------
(* SCENARIOS                                                               *)

(* Scenarios.Store's save, which ScenarioLive calls without an audit_id,   *)
(* so that link_to_audit is not reached; a deletion in memory reaches      *)
(* neither log nor Postgres.  A scenario is the number of its write; those *)
(* with a blank name are alike.                                            *)
Saved == {count.writes + 1, Nameless}

SaveScenario(s) ==
  /\ s \in Saved
  /\ Persist("scenario", s, TRUE)
  /\ UNCHANGED <<memory, ident, run, tables, recovery>>

SaveExits(s) ==
  /\ s \in Saved
  /\ PersistExits("scenario", s, TRUE)
  /\ UNCHANGED <<memory, ident, run, tables, recovery>>

-----------------------------------------------------------------------------
(* POSTGRES                                                                *)

(* The unique index on counterparty, product group and version.            *)
Refused(c) == \E d \in contractRow \ {c} : ident[d] = ident[c]

(* do_persist_contract: an upsert by id; a refusal is a warning.           *)
UpsertContract(c) ==
  /\ contractRow' = IF Refused(c) THEN contractRow ELSE contractRow \cup {c}
  /\ UNCHANGED <<auditRow, link, scenarioRow>>

(* MUTANT of InsertAudit: the inserts are not in one transaction.          *)
InsertAuditAlone(r) ==
  /\ auditRow' = auditRow \cup {r}
  /\ link' = link \cup (IF run[r].used \subseteq contractRow THEN {r} \X run[r].used ELSE {})
  /\ UNCHANGED <<contractRow, scenarioRow>>

(* do_persist_solve_audit: the row and its links in one transaction, which *)
(* a result without a JSON form, a taken id and a contract without a row   *)
(* undo.                                                                   *)
InsertAudit(r) ==
  /\ IF run[r].encodes /\ r \notin auditRow /\ run[r].used \subseteq contractRow
     THEN /\ auditRow' = auditRow \cup {r}
          /\ link' = link \cup ({r} \X run[r].used)
     ELSE UNCHANGED <<auditRow, link>>
  /\ UNCHANGED <<contractRow, scenarioRow>>

Copies(s) == {row \in scenarioRow : row[1] = s}

(* do_persist_scenario: the row gets a number of its own; the changeset    *)
(* refuses a blank name.                                                   *)
InsertScenario(s) ==
  /\ scenarioRow' = IF s = Nameless THEN scenarioRow
                    ELSE scenarioRow \cup {<<s, Cardinality(Copies(s)) + 1>>}
  /\ UNCHANGED <<contractRow, auditRow, link>>

(* The task of a write, whose exceptions are rescued.  One of a contract   *)
(* without a JSON form is not kept: it only warns.                         *)
RunTask(t) ==
  /\ t \in tasks /\ tasks' = tasks \ {t}
  /\ \/ t.type = "contract" /\ UpsertContract(t.id)
     \/ t.type = "audit" /\ InsertAudit(t.id)
     \/ t.type = "scenario" /\ InsertScenario(t.id)
  /\ UNCHANGED <<memory, ident, run, log, odd, recovery, count>>

(* Postgres is not reached.                                                *)
FailTask(t) ==
  /\ t \in tasks /\ tasks' = tasks \ {t}
  /\ Faulty /\ count' = [count EXCEPT !.outages = @ + 1]
  /\ UNCHANGED <<memory, ident, run, log, odd, tables, recovery>>

(* The node dies: its tables, tasks, runs and recovery are gone.           *)
NodeCrash ==
  /\ Faulty /\ count' = [count EXCEPT !.crashes = @ + 1]
  /\ store' = {} /\ recorded' = {} /\ tasks' = {}
  /\ index' = [k \in IndexKey |-> [t \in Time |-> None]]
  /\ run' = [r \in Audit |-> IF run[r].is = "recorded"
                              THEN [run[r] EXCEPT !.is = "died"] ELSE run[r]]
  /\ recovery' = Idle
  /\ UNCHANGED <<ident, log, odd, tables>>

-----------------------------------------------------------------------------
(* RECOVERY                                                                *)

Rows == Cardinality(scenarioRow)

(* MUTANT of Missing: audits are compared by number, as scenarios are.     *)
MissingByCount(type) ==
  {n \in DOMAIN log[type] :
     \/ type = "contract" /\ log[type][n] \notin contractRow
     \/ type = "audit" /\ n > Cardinality(auditRow)
     \/ type = "scenario" /\ Rows < Len(log[type])}

(* MUTANT of Missing: one scenario fewer than logged is taken for a task   *)
(* under way.                                                              *)
MissingButOne(type) ==
  {n \in DOMAIN log[type] :
     \/ type = "contract" /\ log[type][n] \notin contractRow
     \/ type = "audit" /\ log[type][n] \notin auditRow
     \/ type = "scenario" /\ Rows + 1 < Len(log[type])}

(* find_missing_contracts/1, find_missing_audits/1 by id;                  *)
(* find_missing_scenarios/1 all or none, by the number of rows.            *)
Missing(type) ==
  {n \in DOMAIN log[type] :
     \/ type = "contract" /\ log[type][n] \notin contractRow
     \/ type = "audit" /\ log[type][n] \notin auditRow
     \/ type = "scenario" /\ Rows < Len(log[type])}

(* Each type is read when its turn comes.                                  *)
Turn(op, type, todo) ==
  recovery' = [op |-> op, type |-> type, refused |-> recovery.refused, todo |-> todo,
    read |-> [recovery.read EXCEPT ![type] = Len(log[type])]]

ToReplay(op, type) == IF op = "fill_gaps" THEN Missing(type) ELSE DOMAIN log[type]

(* fill_gaps/1, restore_postgres/1; restore_ets/1, whose ingestion of      *)
(* contracts under new ids is IngestContract.                              *)
Begin(op) ==
  LET type == IF op = "restore_ets" THEN "audit" ELSE "contract"
  IN /\ recovery = Idle
     /\ count.runs < MaxRuns /\ count' = [count EXCEPT !.runs = @ + 1]
     /\ Turn(op, type, ToReplay(op, type))
     /\ UNCHANGED <<memory, ident, run, log, odd, tasks, tables>>

NextOf(type) == IF type = "contract" THEN "audit" ELSE "scenario"

NextType ==
  /\ recovery.op # "none" /\ recovery.todo = {}
  /\ \/ /\ recovery.op # "restore_ets" /\ recovery.type # "scenario"
        /\ Turn(recovery.op, NextOf(recovery.type),
                ToReplay(recovery.op, NextOf(recovery.type)))
     \/ (recovery.op = "restore_ets" \/ recovery.type = "scenario") /\ recovery' = Idle
  /\ UNCHANGED <<memory, ident, run, log, odd, tasks, tables, count>>

(* The entry of the log whose turn it is.                                  *)
IsNext(n) == n \in recovery.todo /\ \A m \in recovery.todo : n <= m

Replaying(type) ==
  recovery.op \in {"fill_gaps", "restore_postgres"} /\ recovery.type = type

Rest(n) == [recovery EXCEPT !.todo = @ \ {n}]
Raised == [recovery EXCEPT !.todo = {}]

(* MUTANT of ReplayContract: the replay ends with the first insert.        *)
ReplayContractOnce(n) ==
  LET c == log["contract"][n]
  IN /\ Replaying("contract") /\ IsNext(n)
     /\ contractRow' = IF n \in odd \/ Refused(c) THEN contractRow ELSE contractRow \cup {c}
     /\ recovery' = Raised
     /\ UNCHANGED <<memory, ident, run, log, odd, tasks, auditRow, link, scenarioRow, count>>

(* replay_to_postgres(:contract, _): a refusal, or an entry without a JSON *)
(* form, ends the type's replay.                                           *)
ReplayContract(n) ==
  LET c == log["contract"][n]
      raises == n \in odd \/ (c \notin contractRow /\ Refused(c))
  IN /\ Replaying("contract") /\ IsNext(n)
     /\ contractRow' = IF raises THEN contractRow ELSE contractRow \cup {c}
     /\ recovery' = IF raises THEN Raised ELSE Rest(n)
     /\ UNCHANGED <<memory, ident, run, log, odd, tasks, auditRow, link, scenarioRow, count>>

(* replay_to_postgres(:audit, _): on_conflict: :nothing for row and links; *)
(* a result without a JSON form, or a contract without a row, raises, past *)
(* the case and the count.                                                 *)
ReplayAudit(n) ==
  LET r == log["audit"][n]
  IN /\ Replaying("audit") /\ IsNext(n)
     /\ IF run[r].encodes /\ run[r].used \subseteq contractRow
        THEN /\ recovery' = Rest(n)
             /\ auditRow' = auditRow \cup {r}
             /\ link' = link \cup ({r} \X run[r].used)
        ELSE /\ recovery' = [Raised EXCEPT !.refused = n]
             /\ UNCHANGED <<auditRow, link>>
     /\ UNCHANGED <<memory, ident, run, log, odd, tasks, contractRow, scenarioRow, count>>

(* replay_to_postgres(:scenario, _): nothing tells two rows of one apart.  *)
ReplayScenario(n) ==
  /\ Replaying("scenario") /\ IsNext(n)
  /\ InsertScenario(log["scenario"][n])
  /\ recovery' = Rest(n)
  /\ UNCHANGED <<memory, ident, run, log, odd, tasks, count>>

(* Postgres is not reached: this ends the replay of a type; in fill_gaps   *)
(* the query for missing audits ends everything, and the one for scenarios *)
(* is rescued and finds all of them missing.                               *)
ReplayFails ==
  /\ \/ /\ \E type \in Type : Replaying(type)
        /\ recovery.todo # {} /\ recovery' = Raised
     \/ /\ recovery.op = "fill_gaps" /\ recovery.todo = {}
        /\ \/ recovery.type = "contract" /\ recovery' = Idle
           \/ /\ recovery.type = "audit"
              /\ Turn("fill_gaps", "scenario", DOMAIN log["scenario"])
  /\ Faulty /\ count' = [count EXCEPT !.outages = @ + 1]
  /\ UNCHANGED <<memory, ident, run, log, odd, tasks, tables>>

(* restore_ets: the audit is recorded again.                               *)
Rerecord(n) ==
  LET r == log["audit"][n]
  IN /\ recovery.op = "restore_ets" /\ IsNext(n)
     /\ recovery' = Rest(n)
     /\ UNCHANGED <<store, ident, run, log, odd, tasks, tables, count>>
     /\ Record(r, run[r])

Next ==
  \/ \E c \in Contract, fits \in BOOLEAN :
       \/ \E party \in Counterparty :
            IngestContract(c, party, fits) \/ IngestExits(c, party, fits)
       \/ ChangeStatus(c, fits) \/ StatusExits(c, fits)
  \/ \E r \in Audit :
       \/ \E by \in Starter : RecordAudit(r, by) \/ RecordExits(r, by)
       \/ PersistAudit(r) \/ PersistAuditExits(r)
  \/ \E s \in Saved : SaveScenario(s) \/ SaveExits(s)
  \/ \E t \in tasks : RunTask(t) \/ FailTask(t)
  \/ NodeCrash
  \/ \E op \in Operation : Begin(op)
  \/ \E n \in Position :
       ReplayContract(n) \/ ReplayAudit(n) \/ ReplayScenario(n) \/ Rerecord(n)
  \/ NextType \/ ReplayFails

Spec == Init /\ [][Next]_vars

-----------------------------------------------------------------------------
(* SAFETY                                                                  *)

(* Whatever the order of tasks and replays, and whichever of them fails,   *)
(* an audit in Postgres has all its contract links and no other, and each  *)
(* leads to a row: "which contract versions were active" is never answered *)
(* by half.                                                                *)
LinksWhole ==
  /\ \A r \in auditRow : {p[2] : p \in {l \in link : l[1] = r}} = run[r].used
  /\ \A l \in link : l[1] \in auditRow /\ l[2] \in contractRow

(* A query for a contract, a trader or the timeline finds, for each time,  *)
(* one of the audits of that key and time: audits may hide one another     *)
(* when they complete at the same time, but none is listed twice, with     *)
(* another time or under a key it does not have, even after re-recording.  *)
IndexFaithful ==
  /\ \A r \in recorded : \A k \in KeysOf(run[r]) : index[k][run[r].at] # None
  /\ \A k \in IndexKey, t \in Time : index[k][t] # None =>
       /\ index[k][t] \in recorded
       /\ k \in KeysOf(run[index[k][t]]) /\ run[index[k][t]].at = t

Replay == recovery.op \in {"fill_gaps", "restore_postgres"} /\ count.outages = 0

(* While Postgres is reachable, a replay stores every audit it read up to  *)
(* the first it is refused.                                                *)
AuditsFilled ==
  Replay =>
    \A n \in 1..recovery.read["audit"] :
      \/ log["audit"][n] \in auditRow
      \/ recovery.type = "audit" /\ n \in recovery.todo
      \/ recovery.refused # 0 /\ n >= recovery.refused

(* An entry of the log at which a replay of contracts ends: it has no JSON *)
(* form, or the unique index refuses it.                                   *)
Raises(n) ==
  \/ n \in odd
  \/ log["contract"][n] \notin contractRow /\ Refused(log["contract"][n])

(* And it is refused one only if that has no JSON form, or used a contract *)
(* that no entry the replay had read and could reach is about, because     *)
(* writing it to the log failed or came later, or because each such entry  *)
(* comes after one at which the replay of contracts ends: contracts come   *)
(* before the audits that use them.                                        *)
RefusalHasReason ==
  recovery.refused # 0 /\ count.outages = 0 =>
    LET audit == run[log["audit"][recovery.refused]]
    IN \/ ~audit.encodes
       \/ \E c \in audit.used : \A n \in 1..recovery.read["contract"] :
            log["contract"][n] = c => \E m \in 1..n : Raises(m)

(* A replay that ends its scenarios leaves none it read without a row,     *)
(* except for one with a blank name, which never gets one, and unless rows *)
(* that are copies made by an earlier one, or whose scenarios the log      *)
(* failed to take, hide the gap from the count.                            *)
ScenariosFilled ==
  Replay /\ recovery.op = "fill_gaps" /\ recovery.type = "scenario" =>
    \A n \in 1..recovery.read["scenario"] :
      \/ log["scenario"][n] = Nameless
      \/ Copies(log["scenario"][n]) # {}
      \/ n \in recovery.todo
      \/ \E row, other \in scenarioRow : row # other /\ row[1] = other[1]
      \/ \E row \in scenarioRow : \A m \in DOMAIN log["scenario"] :
           log["scenario"][m] # row[1]
=============================================================================
