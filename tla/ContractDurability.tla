-------------------------- MODULE ContractDurability --------------------------
(***************************************************************************)
(* How contracts reach disk and Postgres, and come back: Contracts.Store   *)
(* hands every ingest and status change to DB.Writer.persist_contract,     *)
(* which appends to the snapshot log and starts a task for Postgres, the   *)
(* latter also when the log answers an error; DB.SnapshotRestore replays   *)
(* the log.  When the log does not answer (GenServer.call, ten seconds, or *)
(* a dead process), or the task cannot be started, the Store dies in its   *)
(* handler and its supervisor starts it again, empty, beside the tasks,    *)
(* recovery and database that live on.                                     *)
(*                                                                         *)
(* SAP validation may leave discrepancies that name a price or a volume    *)
(* term by a tuple, which has no JSON form: a snapshot that carries one    *)
(* does not fit a row, whatever else it says, and every insert of it       *)
(* raises before Postgres is asked.                                        *)
(*                                                                         *)
(* The log is a sequence here (SnapshotLog is its detailed model); the     *)
(* tasks are unordered; the contracts table is keyed by id and has a       *)
(* unique index on counterparty, product group and version.  Recovery runs *)
(* in an operator's process, one database or Store call at a time; the     *)
(* entries it has still to replay are kept as their positions in the log,  *)
(* which only grows.                                                       *)
(***************************************************************************)
EXTENDS ContractStore

CONSTANTS
  Outages,     (* bound: how often Postgres cannot be reached              *)
  NodeCrashes, (* bound: how often the node dies                           *)
  Losses,      (* bound: how often the database is lost and created anew   *)
  StoreExits,  (* bound: how often the Store alone dies and is restarted;  *)
               (* more than three in five seconds end the node             *)
  LogFailures, (* bound: how often SnapshotLog.append answers {:error, _}  *)
  MaxWrites,   (* bound: calls of persist_contract                         *)
  Recoveries,  (* the recoveries an operator runs                          *)
  MaxRuns      (* bound: how many                                          *)

ASSUME DurabilityAssumption ==
  /\ Outages \in Nat /\ NodeCrashes \in Nat /\ Losses \in Nat
  /\ StoreExits \in Nat /\ LogFailures \in Nat /\ MaxWrites \in Nat
  /\ Recoveries \subseteq {"restore_postgres", "fill_gaps", "restore_ets"}
  /\ MaxRuns \in Nat

VARIABLES
  unfit,    (* the contracts whose discrepancies name a term by a tuple    *)
  handed,   (* history: those a snapshot that fits a row was handed of     *)
  wal,      (* the snapshot log, in order                                  *)
  tasks,    (* the tasks not yet run, each with its snapshot               *)
  pg,       (* the contracts table: id -> row                              *)
  recovery, (* the recovery under way, or how the last one ended           *)
  runs,     (* recoveries started                                          *)
  outages,  (* tasks and replays that did not reach Postgres so far        *)
  crashes,  (* node crashes so far                                         *)
  losses,   (* databases lost so far                                       *)
  exits,    (* Store exits so far                                          *)
  writes,   (* calls of persist_contract so far                            *)
  failures  (* ... that were not logged                                    *)

dbVars == <<wal, tasks, pg>>
fitVars == <<unfit, handed>>
bounds == <<runs, outages, crashes, losses, exits>>
writeCounts == <<writes, failures>>
vars == <<storeVars, fitVars, dbVars, recovery, bounds, writeCounts>>

Entry == [id : Id, row : Snapshot, fits : BOOLEAN]
Task == [n : 1..MaxWrites, id : Id, row : Snapshot, fits : BOOLEAN]
Idle == [op |-> "none", todo |-> {}, seen |-> 0, cut |-> 0, since |-> 0]

(* The entries still to replay, how much of the log was read, the entry    *)
(* that raised and ended the replay (0: none), and the databases lost when *)
(* it began.                                                               *)
Recovery == [op : {"none", "restore_postgres", "fill_gaps", "restore_ets"},
             todo : SUBSET (1..MaxWrites), seen : 0..MaxWrites,
             cut : 0..MaxWrites, since : 0..Losses]

TypeOK ==
  /\ StoreTypeOK
  /\ unfit \subseteq Id /\ handed \subseteq Id
  /\ wal \in Seq(Entry)
  /\ tasks \subseteq Task
  /\ pg \in [Id -> Snapshot \cup {Absent}]
  /\ recovery \in Recovery
  /\ runs \in 0..MaxRuns
  /\ outages \in 0..Outages /\ crashes \in 0..NodeCrashes /\ losses \in 0..Losses
  /\ exits \in 0..StoreExits
  /\ writes \in 0..MaxWrites /\ failures \in 0..LogFailures

Init ==
  /\ StoreInit
  /\ unfit = {} /\ handed = {}
  /\ wal = <<>> /\ tasks = {} /\ pg = [i \in Id |-> Absent]
  /\ recovery = Idle /\ runs = 0 /\ outages = 0 /\ crashes = 0 /\ losses = 0
  /\ exits = 0 /\ writes = 0 /\ failures = 0

-----------------------------------------------------------------------------
(* DB.Writer.persist_contract, called by the Store at the end of ingest    *)
(* and update_status.                                                      *)
Persist(i, fits) ==
  /\ writes < MaxWrites
  /\ writes' = writes + 1
  /\ \/ /\ wal' = Append(wal, [id |-> i, row |-> logged'[i], fits |-> fits])
        /\ failures' = failures
     \/ failures < LogFailures /\ wal' = wal /\ failures' = failures + 1
  /\ tasks' = tasks \cup {[n |-> writes', id |-> i, row |-> logged'[i], fits |-> fits]}
  /\ handed' = IF fits THEN handed \cup {i} ELSE handed
  /\ UNCHANGED pg

IngestContract(k) ==
  /\ \E i \in Id : Ingest(i, k, TRUE, None, FALSE, None) /\ Persist(i, TRUE)
  /\ UNCHANGED <<unfit, recovery, bounds>>

ChangeStatus(i, new, who) ==
  /\ UpdateStatus(i, new, who)
  /\ Persist(i, i \notin unfit)
  /\ UNCHANGED <<unfit, recovery, bounds>>

(* {:update_sap_validation, id, result}: discrepancies that name a term,   *)
(* or none that does; nothing is persisted.                                *)
ValidateSap(i, named) ==
  /\ UpdateSapValidation(i, "ok")
  /\ unfit' = IF named THEN unfit \cup {i} ELSE unfit \ {i}
  /\ UNCHANGED <<handed, dbVars, recovery, bounds, writeCounts>>

(* The Store dies in persist_contract: the tables it had written are gone; *)
(* the entry is in the log, or the log never got to it; there is no task.  *)
StoreExit(i, row, fits) ==
  /\ exits < StoreExits /\ writes < MaxWrites
  /\ exits' = exits + 1 /\ writes' = writes + 1 /\ failures' = failures
  /\ wal' \in {wal, Append(wal, [id |-> i, row |-> row, fits |-> fits])}
  /\ logged' = [logged EXCEPT ![i] = row]
  /\ contracts' = EmptyTables.contracts
  /\ index' = EmptyTables.index
  /\ active' = EmptyTables.active
  /\ unfit' = {}
  /\ UNCHANGED <<handed, tasks, pg, runs, outages, crashes, losses>>

(* The row an ingest of key k would hand over.                             *)
IngestedRow(k, who) ==
  [key |-> k, version |-> Len(index[k]) + 1, status |-> "draft", reviewer |-> who]

IngestExits(k) ==
  /\ \E i \in Id : /\ ~Stored(i) /\ logged[i] = Absent
                   /\ StoreExit(i, IngestedRow(k, None), TRUE)
  /\ UNCHANGED recovery

StatusExits(i, new, who) ==
  /\ Accepts(i, new)
  /\ StoreExit(i, [SnapshotOf(contracts[i]) EXCEPT !.status = new, !.reviewer = who],
               i \notin unfit)
  /\ UNCHANGED recovery

(* MUTANT of Refused: the index is on counterparty and product group.      *)
RefusedByKey(i, row) == \E j \in Id \ {i} : pg[j] # Absent /\ pg[j].key = row.key

(* The unique index refuses row when another id has its key and version.   *)
Refused(i, row) ==
  \E j \in Id \ {i} : /\ pg[j] # Absent
                      /\ pg[j].key = row.key /\ pg[j].version = row.version

(* MUTANT of RunTask: the upsert's conflict target is the other index.     *)
RunTaskByVersion(n) ==
  \E t \in tasks :
    LET same == {j \in Id \ {t.id} : /\ pg[j] # Absent /\ pg[j].key = t.row.key
                                    /\ pg[j].version = t.row.version}
    IN /\ t.n = n
       /\ tasks' = tasks \ {t}
       /\ pg' = [i \in Id |-> IF t.fits /\ (i \in same \/ (same = {} /\ i = t.id))
                               THEN t.row ELSE pg[i]]
       /\ UNCHANGED <<storeVars, fitVars, wal, recovery, bounds, writeCounts>>

(* do_persist_contract: an upsert by id; a refusal, or a snapshot that has *)
(* no JSON form, is a warning.                                             *)
RunTask(n) ==
  \E t \in tasks :
    /\ t.n = n
    /\ tasks' = tasks \ {t}
    /\ pg' = IF t.fits /\ ~Refused(t.id, t.row) THEN [pg EXCEPT ![t.id] = t.row] ELSE pg
    /\ UNCHANGED <<storeVars, fitVars, wal, recovery, bounds, writeCounts>>

(* ... and so is an unreachable database.                                  *)
FailTask(t) ==
  /\ outages < Outages
  /\ outages' = outages + 1
  /\ tasks' = tasks \ {t}
  /\ UNCHANGED <<storeVars, fitVars, wal, pg, recovery, runs, crashes, losses, exits,
                 writeCounts>>

(* The node dies: tables and tasks are gone, and the recovery with them.   *)
NodeCrash ==
  /\ crashes < NodeCrashes
  /\ crashes' = crashes + 1
  /\ Restart
  /\ unfit' = {} /\ tasks' = {}
  /\ recovery' = Idle
  /\ UNCHANGED <<handed, wal, pg, runs, outages, losses, exits, writeCounts>>

(* Postgres is lost, and created anew by the migrations.                   *)
LosePostgres ==
  /\ losses < Losses
  /\ losses' = losses + 1
  /\ pg' = [i \in Id |-> Absent]
  /\ UNCHANGED <<storeVars, fitVars, wal, tasks, recovery, runs, outages, crashes, exits,
                 writeCounts>>

-----------------------------------------------------------------------------
(* RECOVERY                                                                *)

(* MUTANT of Missing: as many entries as there are rows are skipped.       *)
MissingByCount == {n \in DOMAIN wal : n > Cardinality({i \in Id : pg[i] # Absent})}

(* find_missing_contracts/1: the entries of ids without a row.             *)
Missing == {n \in DOMAIN wal : pg[wal[n].id] = Absent}

(* build_latest_map/1: the last entry of each id.                          *)
LatestPositions == {n \in DOMAIN wal : \A m \in DOMAIN wal : m > n => wal[m].id # wal[n].id}

Begin(op, todo) ==
  /\ recovery.todo = {}
  /\ op \in Recoveries /\ runs < MaxRuns
  /\ recovery' = [op |-> op, todo |-> todo, seen |-> Len(wal), cut |-> 0, since |-> losses]
  /\ runs' = runs + 1
  /\ UNCHANGED <<storeVars, fitVars, dbVars, outages, crashes, losses, exits, writeCounts>>

(* restore_postgres replays every entry, fill_gaps the missing ones, both  *)
(* read when the call starts; restore_ets takes the last of each id.       *)
BeginRestorePostgres == Begin("restore_postgres", DOMAIN wal)
BeginFillGaps == Begin("fill_gaps", Missing)
BeginRestoreEts == Begin("restore_ets", LatestPositions)

Without(n) == [recovery EXCEPT !.todo = @ \ {n}]
CutAt(n) == [recovery EXCEPT !.todo = {}, !.cut = n]
Abandoned == [recovery EXCEPT !.todo = {}]

(* Entries are replayed to Postgres in the order of the log.               *)
IsNext(n) ==
  /\ recovery.op \in {"restore_postgres", "fill_gaps"}
  /\ n \in recovery.todo /\ \A m \in recovery.todo : n <= m

(* replay_to_postgres(:contract, _): insert unless the id has a row.  A    *)
(* refusal by the other index, or an entry without a JSON form, whether    *)
(* its id has a row or not, raises and ends the whole replay.              *)
Replay(n) ==
  LET e == wal[n]
      raises == ~e.fits \/ (pg[e.id] = Absent /\ Refused(e.id, e.row))
  IN /\ IsNext(n)
     /\ recovery' = IF raises THEN CutAt(n) ELSE Without(n)
     /\ pg' = IF ~raises /\ pg[e.id] = Absent THEN [pg EXCEPT ![e.id] = e.row] ELSE pg
     /\ UNCHANGED <<storeVars, fitVars, wal, tasks, bounds, writeCounts>>

(* ... and so does an unreachable database.                                *)
ReplayFails(n) ==
  /\ outages < Outages
  /\ outages' = outages + 1
  /\ IsNext(n)
  /\ recovery' = CutAt(n)
  /\ UNCHANGED <<storeVars, fitVars, dbVars, runs, crashes, losses, exits, writeCounts>>

(* restore_ets: Store.ingest of the snapshot, a new id and a new version,  *)
(* in the order of a map; its discrepancies stay.  The caller waits five   *)
(* seconds for the Store and dies after them, which ends the recovery.     *)
Reingest(n) ==
  /\ recovery.op = "restore_ets" /\ n \in recovery.todo
  /\ \E i \in Id : /\ Ingest(i, wal[n].row.key, TRUE, None, FALSE, wal[n].row.reviewer)
                   /\ Persist(i, wal[n].fits)
                   /\ unfit' = IF wal[n].fits THEN unfit ELSE unfit \cup {i}
  /\ recovery' \in {Without(n), Abandoned}
  /\ UNCHANGED bounds

ReingestExits(n) ==
  /\ recovery.op = "restore_ets" /\ n \in recovery.todo
  /\ \E i \in Id :
       /\ ~Stored(i) /\ logged[i] = Absent
       /\ StoreExit(i, IngestedRow(wal[n].row.key, wal[n].row.reviewer), wal[n].fits)
  /\ recovery' = Abandoned

Reviews(i, new, who) == ChangeStatus(i, new, who) \/ StatusExits(i, new, who)

Next ==
  \/ \E k \in Key : IngestContract(k) \/ IngestExits(k)
  \/ \E i \in Id : \/ Reviews(i, "pending_review", None)
                   \/ \E who \in Reviewer : \/ Reviews(i, "approved", who)
                                           \/ Reviews(i, "rejected", who)
                   \/ \E named \in BOOLEAN : ValidateSap(i, named)
  \/ (\E n \in 1..MaxWrites : RunTask(n)) \/ (\E t \in tasks : FailTask(t))
  \/ NodeCrash \/ LosePostgres
  \/ BeginRestorePostgres \/ BeginFillGaps \/ BeginRestoreEts
  \/ \E n \in DOMAIN wal : Replay(n) \/ ReplayFails(n) \/ Reingest(n) \/ ReingestExits(n)

Spec == Init /\ [][Next]_vars

-----------------------------------------------------------------------------
(* SAFETY                                                                  *)

(* While the log takes every entry, every row of Postgres is a snapshot    *)
(* that is in the log, whichever task or replay wrote it, in whatever      *)
(* order.                                                                  *)
RowFromLog ==
  failures = 0 => \A i \in Id : pg[i] # Absent =>
    \E n \in DOMAIN wal : wal[n] = [id |-> i, row |-> pg[i], fits |-> TRUE]

(* A replay forgets no contract: while it runs, and when it is over, every *)
(* entry of the log it read has a row for its contract, is still to be     *)
(* replayed, or does not precede the entry at which the replay was ended,  *)
(* whatever tasks, reviewers and Store restarts do meanwhile, as long as   *)
(* the table is not lost.                                                  *)
NoGapForgotten ==
  recovery.op \in {"restore_postgres", "fill_gaps"} /\ recovery.since = losses =>
    \A n \in 1..recovery.seen :
      \/ pg[wal[n].id] # Absent
      \/ n \in recovery.todo
      \/ recovery.cut # 0 /\ n >= recovery.cut

(* With Postgres reachable a replay is ended only by an entry that has no  *)
(* JSON form, as long as the Store's tables were never emptied: the unique *)
(* index on key and version does not refuse what one Store numbered, also  *)
(* after restore_ets gave known contracts new ids.                         *)
ReplayEndsForAReason ==
  recovery.cut # 0 /\ outages = 0 => ~wal[recovery.cut].fits \/ crashes + exits > 0

(* Every contract of which a snapshot that fits was handed over has a row  *)
(* or a task that will write it, logged or not, until the node or the      *)
(* Store dies or Postgres is lost or unreachable: no task of another       *)
(* contract takes its place, and the unique index refuses none.            *)
StoredOrUnderWay ==
  outages + crashes + losses + exits = 0 =>
    \A i \in handed : pg[i] # Absent \/ \E t \in tasks : t.id = i /\ t.fits
=============================================================================
