--------------------------- MODULE DurabilityProofs ---------------------------
(***************************************************************************)
(* Theorems about what is kept of contracts: of ContractDurability, for    *)
(* any sets of contracts, keys and reviewers and any number of writes,     *)
(* recoveries, outages, crashes, losses and failures of the log, and of    *)
(* SnapshotLog, for any types, days, entries and faults.                   *)
(***************************************************************************)
EXTENDS ContractDurability, SnapshotLog, TLAPS

-----------------------------------------------------------------------------
(* CONTRACT DURABILITY                                                     *)
(*                                                                         *)
(* Rows come from tasks and from the log, so the invariant is about        *)
(* those: what a task carries was logged with it, if it fits a row; what a *)
(* task, the log or a row says of a contract's key and version is what the *)
(* Store says, as long as the Store has never been emptied; and there no   *)
(* two contracts share both, so that the unique index has nothing to       *)
(* refuse.                                                                 *)

LogFits ==
  /\ Len(wal) <= writes
  /\ recovery.todo \subseteq DOMAIN wal /\ recovery.seen <= Len(wal)
  /\ recovery.cut \in DOMAIN wal \cup {0} /\ recovery.since <= losses
  /\ recovery.cut # 0 => recovery.todo = {}

InLog(i, row) == \E n \in DOMAIN wal : wal[n] = [id |-> i, row |-> row, fits |-> TRUE]

TasksLogged == failures = 0 => \A t \in tasks : t.fits => InLog(t.id, t.row)

(* The version of a contract is its place in the index of its key.         *)
StoreExact ==
  \A i \in Id : Stored(i) =>
    /\ contracts[i].version \in DOMAIN index[contracts[i].key]
    /\ index[contracts[i].key][contracts[i].version] = i

Genuine(c, row) == c # Absent /\ c.key = row.key /\ c.version = row.version

Fresh == crashes + exits = 0

AllGenuine ==
  /\ \A t \in tasks : Genuine(contracts[t.id], t.row)
  /\ \A n \in DOMAIN wal : Genuine(contracts[wal[n].id], wal[n].row)
  /\ \A i \in Id : pg[i] # Absent => Genuine(contracts[i], pg[i])

FreshInv == Fresh => StoreExact /\ AllGenuine

IInv ==
  /\ TypeOK /\ LogFits /\ RowFromLog /\ TasksLogged
  /\ NoGapForgotten /\ ReplayEndsForAReason /\ FreshInv /\ StoredOrUnderWay

(* Counts that add up to nothing.                                          *)
LEMMA NoneAtAll == \A k, l, m, n \in Nat : k + l + m + n = 0 <=> k = 0 /\ l = 0 /\ m = 0 /\ n = 0
OBVIOUS

LEMMA BothNone == \A m, n \in Nat : m + n = 0 <=> m = 0 /\ n = 0
OBVIOUS

LEMMA CountTypes ==
  ASSUME TypeOK
  PROVE  /\ outages \in Nat /\ crashes \in Nat /\ losses \in Nat /\ exits \in Nat
         /\ Fresh <=> crashes = 0 /\ exits = 0
BY DurabilityAssumption, BothNone DEF TypeOK, Fresh

-----------------------------------------------------------------------------
(* What ingest and update_status do to the Store's tables.                 *)

Wrote(i) ==
  /\ contracts' \in [Id -> Contract \cup {Absent}] /\ index' \in [Key -> Seq(Id)]
  /\ active' \in [Key -> Id \cup {None}]
  /\ \E s \in Snapshot : /\ logged' = [logged EXCEPT ![i] = s]
                         /\ contracts'[i] # Absent
                         /\ s.key = contracts'[i].key /\ s.version = contracts'[i].version
  /\ \A j \in Id : contracts[j] # Absent =>
       /\ contracts'[j] # Absent
       /\ contracts'[j].key = contracts[j].key
       /\ contracts'[j].version = contracts[j].version
  /\ StoreExact => StoreExact'

LEMMA SnapshotType ==
  ASSUME NEW c \in Contract
  PROVE  /\ SnapshotOf(c) \in Snapshot
         /\ SnapshotOf(c).key = c.key /\ SnapshotOf(c).version = c.version
BY DEF SnapshotOf, Snapshot, Contract

LEMMA IngestWrites ==
  ASSUME StoreTypeOK, NEW i \in Id, NEW k \in Key, NEW who \in Reviewer \cup {None},
         Ingest(i, k, TRUE, None, FALSE, who)
  PROVE  Wrote(i)
<1>1. /\ contracts \in [Id -> Contract \cup {Absent}] /\ index \in [Key -> Seq(Id)]
      /\ active \in [Key -> Id \cup {None}] /\ index[k] \in Seq(Id)
  BY DEF StoreTypeOK
<1>2. PICK c : c = [ key |-> k, version |-> Len(index[k]) + 1, status |-> "draft",
                     clauses |-> TRUE, prev |-> None, sap |-> "none",
                     reviewer |-> who, position |-> FALSE, check |-> None ]
  OBVIOUS
<1>3. c \in Contract /\ c.key = k /\ c.version = Len(index[k]) + 1 /\ c # Absent
  <2>1. Len(index[k]) + 1 \in Nat \ {0}
    BY <1>1
  <2>2. c \in Contract
    BY <1>2, <2>1 DEF Contract, Status, SapState
  <2>. QED  BY <1>2, <2>2, StoreAssumption
<1>4. /\ contracts[i] = Absent /\ contracts' = [contracts EXCEPT ![i] = c]
      /\ index' = [index EXCEPT ![k] = Append(index[k], i)]
      /\ logged' = [logged EXCEPT ![i] = SnapshotOf(c)] /\ active' = active
  BY <1>2 DEF Ingest, Stored
<1>5. PICK q \in Seq(Id) : q = index[k]
  BY <1>1
<1>6. /\ Append(q, i) \in Seq(Id) /\ Len(q) \in Nat /\ Len(q) + 1 \in DOMAIN Append(q, i)
      /\ Append(q, i)[Len(q) + 1] = i
      /\ \A n \in DOMAIN q : n \in DOMAIN Append(q, i) /\ Append(q, i)[n] = q[n]
  OBVIOUS
<1>7. index' \in [Key -> Seq(Id)] /\ index'[k] = Append(q, i)
      /\ \A l \in Key \ {k} : index'[l] = index[l]
  BY <1>1, <1>4, <1>5, <1>6
<1>8. /\ contracts' \in [Id -> Contract \cup {Absent}] /\ contracts'[i] = c
      /\ \A j \in Id \ {i} : contracts'[j] = contracts[j]
  BY <1>1, <1>3, <1>4
<1>9. \E s \in Snapshot : /\ logged' = [logged EXCEPT ![i] = s]
                          /\ contracts'[i] # Absent
                          /\ s.key = contracts'[i].key /\ s.version = contracts'[i].version
  BY <1>3, <1>4, <1>8, SnapshotType
<1>10. StoreExact => StoreExact'
  <2>. SUFFICES ASSUME StoreExact, NEW j \in Id, contracts'[j] # Absent
                PROVE  /\ contracts'[j].version \in DOMAIN index'[contracts'[j].key]
                       /\ index'[contracts'[j].key][contracts'[j].version] = j
    BY DEF StoreExact, Stored
  <2>1. CASE j = i
    <3>1. contracts'[j] = c
      BY <1>8, <2>1
    <3>2. c.version = Len(q) + 1 /\ index'[c.key] = Append(q, i)
      BY <1>3, <1>5, <1>7
    <3>3. Len(q) + 1 \in DOMAIN Append(q, i) /\ Append(q, i)[Len(q) + 1] = j
      BY <1>6, <2>1
    <3>4. c.version \in DOMAIN index'[c.key] /\ index'[c.key][c.version] = j
      BY <3>2, <3>3
    <3>5. contracts'[j].version = c.version /\ index'[contracts'[j].key] = index'[c.key]
      BY <3>1
    <3>. QED  BY <3>4, <3>5
  <2>2. CASE j # i
    <3>1. /\ contracts'[j] = contracts[j] /\ contracts[j].key \in Key
          /\ contracts[j].version \in DOMAIN index[contracts[j].key]
          /\ index[contracts[j].key][contracts[j].version] = j
      BY <1>1, <1>8, <2>2 DEF StoreExact, Stored, Contract
    <3>2. PICK l, v : l = contracts[j].key /\ v = contracts[j].version
      BY <3>1
    <3>3. v \in DOMAIN index'[l] /\ index'[l][v] = j
      <4>1. CASE l = k
        <5>1. v \in DOMAIN q /\ q[v] = j
          BY <1>5, <3>1, <3>2, <4>1
        <5>. QED  BY <1>6, <1>7, <4>1, <5>1
      <4>2. CASE l # k
        BY <1>7, <3>1, <3>2, <4>2
      <4>. QED  BY <4>1, <4>2
    <3>4. contracts'[j].key = l /\ contracts'[j].version = v
      BY <3>1, <3>2
    <3>. QED  BY <3>3, <3>4
  <2>. QED  BY <2>1, <2>2
<1>. QED  BY <1>1, <1>4, <1>7, <1>8, <1>9, <1>10 DEF Wrote

LEMMA UpdateWrites ==
  ASSUME StoreTypeOK, NEW i \in Id, NEW new \in Status, NEW who \in Reviewer \cup {None},
         UpdateStatus(i, new, who)
  PROVE  Wrote(i)
<1>1. /\ contracts \in [Id -> Contract \cup {Absent}] /\ index \in [Key -> Seq(Id)]
      /\ active \in [Key -> Id \cup {None}]
  BY DEF StoreTypeOK
<1>2. contracts[i] \in Contract /\ contracts[i] # Absent
  BY <1>1 DEF UpdateStatus, Accepts, Stored
<1>3. PICK c : c = [contracts[i] EXCEPT !.status = new, !.reviewer = who]
  OBVIOUS
<1>4. c \in Contract /\ c.key = contracts[i].key /\ c.version = contracts[i].version
  BY <1>2, <1>3 DEF Contract
<1>5. ASSUME NEW j \in Id
      PROVE  /\ contracts[j] # Absent =>
                  /\ contracts'[j] \in Contract
                  /\ contracts'[j].key = contracts[j].key
                  /\ contracts'[j].version = contracts[j].version
             /\ contracts[j] = Absent => contracts'[j] = Absent
  <2>1. contracts'[j] = IF j = i THEN c
                        ELSE IF j \in Displaced(i, new)
                             THEN [contracts[j] EXCEPT !.status = "superseded"]
                             ELSE contracts[j]
    BY <1>3 DEF UpdateStatus
  <2>2. CASE j = i
    BY <1>2, <1>4, <2>1, <2>2
  <2>3. CASE j # i /\ j \in Displaced(i, new)
    <3>1. contracts[j] \in Contract /\ contracts[j] # Absent
      BY <1>1, <2>3 DEF Displaced, Stored
    <3>2. contracts'[j] = [contracts[j] EXCEPT !.status = "superseded"]
      BY <2>1, <2>3
    <3>. QED  BY <3>1, <3>2 DEF Contract, Status
  <2>4. CASE j # i /\ j \notin Displaced(i, new)
    BY <1>1, <2>1, <2>4
  <2>. QED  BY <2>2, <2>3, <2>4
<1>6. /\ logged' = [logged EXCEPT ![i] = SnapshotOf(c)] /\ index' = index /\ contracts'[i] = c
      /\ active' = IF new = "approved" THEN [active EXCEPT ![c.key] = i] ELSE active
  BY <1>3 DEF UpdateStatus
<1>7. active' \in [Key -> Id \cup {None}]
  BY <1>1, <1>6
<1>8. contracts' \in [Id -> Contract \cup {Absent}]
  BY <1>1, <1>5 DEF UpdateStatus
<1>9. c # Absent
  BY <1>4, StoreAssumption
<1>10. \A j \in Id : contracts[j] # Absent => contracts'[j] # Absent
  BY <1>5, StoreAssumption
<1>11. StoreExact => StoreExact'
  BY <1>5, <1>6 DEF StoreExact, Stored
<1>. QED  BY <1>1, <1>4, <1>5, <1>6, <1>7, <1>8, <1>9, <1>10, <1>11, SnapshotType DEF Wrote

-----------------------------------------------------------------------------
LEMMA InitIInv == Init => IInv
<1>. SUFFICES ASSUME Init PROVE IInv
  OBVIOUS
<1>1. /\ contracts = [i \in Id |-> Absent] /\ index = [k \in Key |-> <<>>]
      /\ active = [k \in Key |-> None] /\ logged = [i \in Id |-> Absent]
      /\ unfit = {} /\ handed = {}
      /\ wal = <<>> /\ tasks = {} /\ pg = [i \in Id |-> Absent]
      /\ recovery = Idle /\ runs = 0 /\ outages = 0 /\ crashes = 0 /\ losses = 0
      /\ exits = 0 /\ writes = 0 /\ failures = 0
  BY DEF Init, StoreInit, EmptyTables
<1>2. <<>> \in Seq(Id) /\ <<>> \in Seq(Entry) /\ Len(<<>>) = 0 /\ DOMAIN <<>> = {}
  OBVIOUS
<1>3. StoreTypeOK
  BY <1>1, <1>2 DEF StoreTypeOK
<1>4. Idle \in Recovery /\ Idle.op = "none" /\ Idle.todo = {} /\ Idle.seen = 0 /\ Idle.cut = 0
      /\ Idle.since = 0
  BY DurabilityAssumption DEF Idle, Recovery
<1>5. TypeOK
  BY <1>1, <1>2, <1>3, <1>4, DurabilityAssumption DEF TypeOK
<1>6. LogFits /\ RowFromLog /\ TasksLogged /\ NoGapForgotten
  BY <1>1, <1>2, <1>4 DEF LogFits, RowFromLog, TasksLogged, NoGapForgotten
<1>7. FreshInv /\ ReplayEndsForAReason /\ StoredOrUnderWay
  BY <1>1, <1>2, <1>4 DEF FreshInv, StoreExact, Stored, AllGenuine, ReplayEndsForAReason,
                          StoredOrUnderWay
<1>. QED  BY <1>5, <1>6, <1>7 DEF IInv

-----------------------------------------------------------------------------
(* What a longer log does not change.                                      *)

LEMMA Growing ==
  ASSUME TypeOK, wal' = wal \/ \E e \in Entry : wal' = Append(wal, e)
  PROVE  /\ wal' \in Seq(Entry) /\ Len(wal) \in Nat /\ Len(wal') \in {Len(wal), Len(wal) + 1}
         /\ DOMAIN wal = 1..Len(wal) /\ DOMAIN wal' = 1..Len(wal')
         /\ \A n \in DOMAIN wal : n \in DOMAIN wal' /\ wal'[n] = wal[n]
         /\ \A i, row : InLog(i, row) => InLog(i, row)'
<1>1. wal \in Seq(Entry)
  BY DEF TypeOK
<1>2. /\ wal' \in Seq(Entry) /\ Len(wal) \in Nat /\ Len(wal') \in {Len(wal), Len(wal) + 1}
      /\ DOMAIN wal = 1..Len(wal) /\ DOMAIN wal' = 1..Len(wal')
      /\ \A n \in DOMAIN wal : n \in DOMAIN wal' /\ wal'[n] = wal[n]
  <2>1. CASE wal' = wal
    BY <1>1, <2>1
  <2>2. ASSUME NEW e \in Entry, wal' = Append(wal, e)
        PROVE  /\ wal' \in Seq(Entry) /\ Len(wal) \in Nat /\ Len(wal') = Len(wal) + 1
               /\ DOMAIN wal = 1..Len(wal) /\ DOMAIN wal' = 1..Len(wal')
               /\ \A n \in DOMAIN wal : n \in DOMAIN wal' /\ wal'[n] = wal[n]
    BY <1>1, <2>2
  <2>. QED  BY <2>1, <2>2
<1>. QED  BY <1>2 DEF InLog

(* What a recovery read is an entry of the log.                            *)
LEMMA SeenIsLogged ==
  ASSUME TypeOK, LogFits, NEW n \in 1..recovery.seen
  PROVE  n \in DOMAIN wal /\ n \in Nat /\ wal[n] \in Entry /\ wal[n].id \in Id
<1>1. wal \in Seq(Entry) /\ recovery.seen \in Nat /\ recovery.seen <= Len(wal) /\ Len(wal) \in Nat
  BY DurabilityAssumption DEF TypeOK, LogFits, Recovery
<1>2. n \in 1..Len(wal) /\ n \in Nat
  BY <1>1
<1>3. n \in DOMAIN wal /\ wal[n] \in Entry
  BY <1>1, <1>2
<1>. QED  BY <1>2, <1>3 DEF Entry

(* The recovery is where it was, or restore_ets got on or was given up.    *)
SlowRecovery ==
  \/ recovery' = recovery
  \/ /\ recovery' \in Recovery /\ recovery.op = "restore_ets"
     /\ recovery'.op = recovery.op /\ recovery'.todo \subseteq recovery.todo
     /\ recovery'.seen = recovery.seen /\ recovery'.cut = recovery.cut
     /\ recovery'.since = recovery.since

LEMMA LogGrowthKeeps ==
  ASSUME IInv, wal' = wal \/ \E e \in Entry : wal' = Append(wal, e),
         SlowRecovery, UNCHANGED <<pg, outages, crashes, losses>>, exits' \in Nat, exits' >= exits,
         writes' = writes + 1
  PROVE  /\ recovery' \in Recovery /\ LogFits' /\ NoGapForgotten' /\ ReplayEndsForAReason'
<1>1. /\ TypeOK /\ LogFits /\ NoGapForgotten /\ ReplayEndsForAReason
      /\ recovery \in Recovery /\ writes \in Nat /\ recovery.seen \in Nat
  BY DurabilityAssumption DEF IInv, TypeOK, Recovery
<1>2. /\ wal' \in Seq(Entry) /\ Len(wal) \in Nat /\ Len(wal') \in {Len(wal), Len(wal) + 1}
      /\ \A n \in DOMAIN wal : n \in DOMAIN wal' /\ wal'[n] = wal[n]
  BY <1>1, Growing
<1>3. /\ recovery' \in Recovery /\ recovery'.todo \subseteq recovery.todo
      /\ recovery'.seen = recovery.seen /\ recovery'.cut = recovery.cut
      /\ recovery'.since = recovery.since
      /\ recovery'.op \in {"restore_postgres", "fill_gaps"} => recovery' = recovery
  BY <1>1 DEF SlowRecovery
<1>4. LogFits'
  <2>1. PICK l \in Nat : l = Len(wal) /\ (Len(wal') = l \/ Len(wal') = l + 1)
    BY <1>2
  <2>2. l <= writes /\ recovery.seen <= l
    BY <1>1, <2>1 DEF LogFits
  <2>3. Len(wal') <= writes' /\ recovery'.seen <= Len(wal')
    BY <1>1, <1>3, <2>1, <2>2
  <2>4. /\ recovery'.todo \subseteq DOMAIN wal' /\ recovery'.cut \in DOMAIN wal' \cup {0}
        /\ recovery'.since <= losses' /\ (recovery'.cut # 0 => recovery'.todo = {})
    BY <1>1, <1>2, <1>3 DEF LogFits
  <2>. QED  BY <2>3, <2>4 DEF LogFits
<1>5. NoGapForgotten'
  <2>. SUFFICES ASSUME recovery' = recovery, recovery.since = losses,
                       recovery.op \in {"restore_postgres", "fill_gaps"},
                       NEW n \in 1..recovery.seen
                PROVE  \/ pg[wal'[n].id] # Absent
                       \/ n \in recovery.todo
                       \/ recovery.cut # 0 /\ n >= recovery.cut
    BY <1>3 DEF NoGapForgotten
  <2>1. wal'[n] = wal[n]
    BY <1>1, <1>2, SeenIsLogged
  <2>. QED  BY <1>1, <2>1 DEF NoGapForgotten
<1>6. ReplayEndsForAReason'
  <2>. SUFFICES ASSUME recovery.cut # 0, outages = 0
                PROVE  ~wal'[recovery.cut].fits \/ crashes + exits' > 0
    BY <1>3 DEF ReplayEndsForAReason
  <2>1. ~wal[recovery.cut].fits \/ crashes + exits > 0
    BY <1>1 DEF ReplayEndsForAReason
  <2>2. wal'[recovery.cut] = wal[recovery.cut]
    BY <1>1, <1>2 DEF LogFits
  <2>3. \A l, m, n \in Nat : m + n > 0 /\ l >= n => m + l > 0
    OBVIOUS
  <2>4. crashes + exits > 0 => crashes + exits' > 0
    BY <1>1, <2>3, CountTypes
  <2>. QED  BY <2>1, <2>2, <2>4
<1>. QED  BY <1>3, <1>4, <1>5, <1>6

-----------------------------------------------------------------------------
(* A contract that is written is logged, or the failure counted, and has a *)
(* task.                                                                   *)

LEMMA WriteKeeps ==
  ASSUME IInv, NEW i \in Id, NEW fits \in BOOLEAN, Wrote(i), Persist(i, fits), SlowRecovery,
         unfit' \subseteq Id, UNCHANGED bounds
  PROVE  IInv'
<1>1. /\ TypeOK /\ LogFits /\ RowFromLog /\ TasksLogged /\ FreshInv /\ StoredOrUnderWay
      /\ wal \in Seq(Entry) /\ tasks \in SUBSET Task /\ handed \in SUBSET Id
      /\ writes \in 0..MaxWrites /\ failures \in 0..LogFailures
      /\ MaxWrites \in Nat /\ LogFailures \in Nat
  BY DurabilityAssumption DEF IInv, TypeOK
<1>2. PICK s \in Snapshot : /\ logged' = [logged EXCEPT ![i] = s]
                            /\ contracts'[i] # Absent
                            /\ s.key = contracts'[i].key /\ s.version = contracts'[i].version
  BY DEF Wrote
<1>3. logged' \in [Id -> Snapshot \cup {Absent}] /\ logged'[i] = s
  BY <1>1, <1>2 DEF TypeOK, StoreTypeOK
<1>4. StoreTypeOK'
  BY <1>3 DEF Wrote, StoreTypeOK
<1>5. PICK e \in Entry : e = [id |-> i, row |-> s, fits |-> fits]
  BY DEF Entry
<1>6. PICK t \in Task : t = [n |-> writes', id |-> i, row |-> s, fits |-> fits]
  <2>1. writes' \in 1..MaxWrites
    BY <1>1 DEF Persist
  <2>2. [n |-> writes', id |-> i, row |-> s, fits |-> fits] \in Task
    BY <2>1 DEF Task
  <2>. QED  BY <2>2
<1>7. /\ writes' = writes + 1 /\ writes' \in 0..MaxWrites /\ pg' = pg
      /\ tasks' = tasks \cup {t} /\ t.id = i /\ t.row = s /\ t.fits = fits
      /\ e.id = i /\ e.row = s /\ e.fits = fits
      /\ \/ wal' = Append(wal, e) /\ failures' = failures
         \/ wal' = wal /\ failures' = failures + 1 /\ failures < LogFailures
      /\ handed' = IF fits THEN handed \cup {i} ELSE handed
  BY <1>1, <1>3, <1>5, <1>6 DEF Persist
<1>8. /\ wal' \in Seq(Entry)
      /\ \A n \in DOMAIN wal : n \in DOMAIN wal' /\ wal'[n] = wal[n]
      /\ \A j, row : InLog(j, row) => InLog(j, row)'
  BY <1>1, <1>7, Growing
<1>9. \A n \in DOMAIN wal' : n \in DOMAIN wal \/ wal'[n] = e
  <2>1. CASE wal' = wal
    BY <2>1
  <2>2. CASE wal' = Append(wal, e)
    BY <1>1, <2>2
  <2>. QED  BY <1>7, <2>1, <2>2
<1>10. failures' \in 0..LogFailures /\ handed' \subseteq Id
  BY <1>1, <1>7
<1>11. /\ runs' = runs /\ outages' = outages /\ crashes' = crashes /\ losses' = losses
       /\ exits' = exits
  BY DEF bounds
<1>12. recovery' \in Recovery /\ LogFits' /\ NoGapForgotten' /\ ReplayEndsForAReason'
  <2>1. exits \in Nat /\ exits' \in Nat /\ exits' >= exits
    BY <1>1, <1>11, CountTypes
  <2>. QED  BY <1>7, <1>11, <2>1, LogGrowthKeeps
<1>13. TypeOK'
  <2>1. tasks' \in SUBSET Task
    BY <1>1, <1>7
  <2>. QED  BY <1>1, <1>4, <1>7, <1>8, <1>10, <1>11, <1>12, <2>1 DEF TypeOK
<1>14. failures' = 0 /\ fits => failures = 0 /\ InLog(i, s)'
  <2>. SUFFICES ASSUME failures' = 0, fits PROVE failures = 0 /\ InLog(i, s)'
    OBVIOUS
  <2>1. failures = 0 /\ wal' = Append(wal, e)
    BY <1>1, <1>7
  <2>2. Len(wal) + 1 \in DOMAIN wal' /\ wal'[Len(wal) + 1] = e
    BY <1>1, <2>1
  <2>3. fits = TRUE
    OBVIOUS
  <2>. QED  BY <1>5, <2>1, <2>2, <2>3 DEF InLog
<1>15. failures' = 0 => failures = 0
  BY <1>1, <1>7
<1>16. RowFromLog'
  BY <1>1, <1>7, <1>8, <1>15 DEF RowFromLog, InLog
<1>17. TasksLogged'
  BY <1>1, <1>7, <1>8, <1>14, <1>15 DEF TasksLogged
<1>18. FreshInv'
  <2>. SUFFICES ASSUME Fresh PROVE StoreExact' /\ AllGenuine'
    BY <1>11 DEF FreshInv, Fresh
  <2>1. StoreExact /\ AllGenuine
    BY <1>1 DEF FreshInv
  <2>2. \A j \in Id : \A row : Genuine(contracts[j], row) => Genuine(contracts'[j], row)
    BY DEF Genuine, Wrote
  <2>3. Genuine(contracts'[i], s)
    BY <1>2 DEF Genuine
  <2>4. (\A n \in DOMAIN wal : wal[n].id \in Id) /\ (\A u \in tasks : u.id \in Id)
    <3>1. \A n \in DOMAIN wal : wal[n] \in Entry
      BY <1>1
    <3>. QED  BY <1>1, <3>1 DEF Entry, Task
  <2>5. AllGenuine'
    <3>1. \A u \in tasks' : Genuine(contracts'[u.id], u.row)
      BY <1>7, <2>1, <2>2, <2>3, <2>4 DEF AllGenuine
    <3>2. \A n \in DOMAIN wal' : Genuine(contracts'[wal'[n].id], wal'[n].row)
      BY <1>7, <1>8, <1>9, <2>1, <2>2, <2>3, <2>4 DEF AllGenuine
    <3>3. \A j \in Id : pg'[j] # Absent => Genuine(contracts'[j], pg'[j])
      BY <1>7, <2>1, <2>2 DEF AllGenuine
    <3>. QED  BY <3>1, <3>2, <3>3 DEF AllGenuine
  <2>. QED  BY <2>1, <2>5 DEF Wrote
<1>19. StoredOrUnderWay'
  BY <1>1, <1>7, <1>11 DEF StoredOrUnderWay
<1>. QED  BY <1>12, <1>13, <1>16, <1>17, <1>18, <1>19 DEF IInv

(* A Store that dies in persist_contract may leave an entry of the log,    *)
(* and no task.                                                            *)
LEMMA ExitKeeps ==
  ASSUME IInv, NEW i \in Id, NEW row \in Snapshot, NEW fits \in BOOLEAN,
         StoreExit(i, row, fits), SlowRecovery
  PROVE  IInv'
<1>1. /\ TypeOK /\ LogFits /\ RowFromLog /\ TasksLogged /\ wal \in Seq(Entry)
      /\ exits < StoreExits /\ writes < MaxWrites /\ logged \in [Id -> Snapshot \cup {Absent}]
      /\ exits' = exits + 1 /\ writes' = writes + 1
      /\ UNCHANGED <<failures, handed, tasks, pg, runs, outages, crashes, losses>>
      /\ unfit' = {} /\ logged' = [logged EXCEPT ![i] = row]
      /\ contracts' = [j \in Id |-> Absent] /\ index' = [k \in Key |-> <<>>]
      /\ active' = [k \in Key |-> None]
  BY DEF IInv, TypeOK, StoreTypeOK, StoreExit, EmptyTables
<1>2. /\ exits \in Nat /\ exits' \in 0..StoreExits /\ exits' \in Nat /\ exits' >= exits
      /\ writes' \in 0..MaxWrites /\ crashes \in Nat /\ outages \in Nat /\ losses \in Nat
  <2>1. exits \in Nat /\ writes \in Nat /\ StoreExits \in Nat /\ MaxWrites \in Nat
    BY DurabilityAssumption DEF IInv, TypeOK
  <2>. QED  BY <1>1, <2>1, CountTypes
<1>3. PICK e \in Entry : e = [id |-> i, row |-> row, fits |-> fits]
  BY DEF Entry
<1>4. wal' = wal \/ wal' = Append(wal, e)
  BY <1>3 DEF StoreExit
<1>5. wal' \in Seq(Entry) /\ \A j, r : InLog(j, r) => InLog(j, r)'
  BY <1>1, <1>4, Growing
<1>6. recovery' \in Recovery /\ LogFits' /\ NoGapForgotten' /\ ReplayEndsForAReason'
  BY <1>1, <1>2, <1>4, LogGrowthKeeps
<1>7. StoreTypeOK'
  <2>1. <<>> \in Seq(Id)
    OBVIOUS
  <2>2. logged' \in [Id -> Snapshot \cup {Absent}]
    BY <1>1
  <2>. QED  BY <1>1, <2>1, <2>2 DEF StoreTypeOK
<1>8. TypeOK'
  BY <1>1, <1>2, <1>5, <1>6, <1>7 DEF TypeOK
<1>9. RowFromLog' /\ TasksLogged'
  BY <1>1, <1>5 DEF RowFromLog, TasksLogged, InLog
<1>10. FreshInv' /\ StoredOrUnderWay'
  <2>1. crashes' + exits' # 0 /\ outages' + crashes' + losses' + exits' # 0
    BY <1>1, <1>2
  <2>. QED  BY <2>1 DEF FreshInv, Fresh, StoredOrUnderWay
<1>. QED  BY <1>6, <1>8, <1>9, <1>10 DEF IInv

-----------------------------------------------------------------------------
(* While the Store was never emptied, the unique index refuses nothing     *)
(* that is genuine.                                                        *)

LEMMA NotRefused ==
  ASSUME FreshInv, Fresh, NEW i \in Id, NEW row, Genuine(contracts[i], row)
  PROVE  ~Refused(i, row)
<1>. SUFFICES ASSUME NEW j \in Id \ {i}, pg[j] # Absent,
                     pg[j].key = row.key, pg[j].version = row.version
              PROVE  FALSE
  BY DEF Refused
<1>1. StoreExact /\ Genuine(contracts[j], pg[j])
  BY DEF FreshInv, AllGenuine
<1>2. /\ contracts[i] # Absent /\ contracts[j] # Absent
      /\ contracts[i].key = contracts[j].key /\ contracts[i].version = contracts[j].version
  BY <1>1 DEF Genuine
<1>. QED  BY <1>1, <1>2 DEF StoreExact, Stored

(* A step that may add one genuine, logged row and drop tasks and entries  *)
(* to replay that are not needed any more.                                 *)
Store(i, row) ==
  /\ UNCHANGED <<contracts, index, active, logged, handed, wal, runs, crashes, losses, exits,
                 writes, failures>>
  /\ unfit' \subseteq Id
  /\ \/ pg' = pg
     \/ /\ i \in Id /\ row \in Snapshot /\ pg' = [pg EXCEPT ![i] = row]
        /\ failures = 0 => InLog(i, row)
        /\ Fresh => Genuine(contracts[i], row)

LEMMA StoreKeeps ==
  ASSUME IInv, NEW i, NEW row, Store(i, row),
         tasks' \subseteq tasks, outages' \in 0..Outages, outages' = 0 => outages = 0,
         recovery' \in Recovery, recovery'.todo \subseteq recovery.todo,
         recovery'.seen = recovery.seen, recovery'.since = recovery.since,
         recovery'.cut \in DOMAIN wal \cup {0}, recovery'.cut # 0 => recovery'.todo = {},
         NoGapForgotten', ReplayEndsForAReason',
         outages' = 0 => \A t \in tasks : t \in tasks' \/ ~Fresh \/ (t.fits => pg'[t.id] # Absent)
  PROVE  IInv'
<1>1. /\ TypeOK /\ LogFits /\ RowFromLog /\ TasksLogged /\ FreshInv /\ StoredOrUnderWay
      /\ pg \in [Id -> Snapshot \cup {Absent}] /\ wal \in Seq(Entry) /\ recovery \in Recovery
      /\ tasks \in SUBSET Task /\ handed \in SUBSET Id
      /\ outages \in Nat /\ crashes \in Nat /\ losses \in Nat /\ exits \in Nat
  BY CountTypes DEF IInv, TypeOK
<1>2. /\ UNCHANGED <<contracts, index, active, logged, handed, wal, runs, crashes, losses, exits,
                     writes, failures>>
      /\ unfit' \subseteq Id
  BY DEF Store
<1>3. /\ pg' \in [Id -> Snapshot \cup {Absent}]
      /\ \A j \in Id : \/ pg'[j] = pg[j]
                       \/ /\ pg'[j] = row
                          /\ failures = 0 => InLog(j, row)
                          /\ Fresh => Genuine(contracts[j], row)
      /\ \A j \in Id : pg[j] # Absent => pg'[j] # Absent
  BY <1>1, StoreAssumption DEF Store
<1>4. TypeOK'
  BY <1>1, <1>2, <1>3 DEF TypeOK, StoreTypeOK
<1>5. LogFits'
  BY <1>1, <1>2 DEF LogFits
<1>6. RowFromLog'
  BY <1>1, <1>2, <1>3 DEF RowFromLog, InLog
<1>7. TasksLogged'
  BY <1>1, <1>2 DEF TasksLogged, InLog
<1>8. FreshInv'
  <2>. SUFFICES ASSUME Fresh PROVE StoreExact' /\ AllGenuine'
    BY <1>2 DEF FreshInv, Fresh
  <2>1. StoreExact /\ AllGenuine
    BY <1>1 DEF FreshInv
  <2>2. StoreExact'
    BY <1>2, <2>1 DEF StoreExact, Stored
  <2>3. \A j \in Id : pg'[j] # Absent => Genuine(contracts[j], pg'[j])
    BY <1>3, <2>1 DEF AllGenuine
  <2>. QED  BY <1>2, <2>1, <2>2, <2>3 DEF AllGenuine
<1>9. StoredOrUnderWay'
  <2>. SUFFICES ASSUME outages' + crashes + losses + exits = 0, NEW j \in handed
                PROVE  pg'[j] # Absent \/ \E t \in tasks' : t.id = j /\ t.fits
    BY <1>2 DEF StoredOrUnderWay
  <2>1. outages' = 0 /\ crashes = 0 /\ losses = 0 /\ exits = 0
    <3>1. outages' \in Nat
      BY DurabilityAssumption
    <3>. QED  BY <1>1, <3>1, NoneAtAll
  <2>2. Fresh /\ outages + crashes + losses + exits = 0
    BY <1>1, <2>1 DEF Fresh
  <2>3. pg[j] # Absent \/ \E t \in tasks : t.id = j /\ t.fits
    BY <1>1, <2>2 DEF StoredOrUnderWay
  <2>. QED  BY <1>1, <1>3, <2>1, <2>2, <2>3
<1>. QED  BY <1>4, <1>5, <1>6, <1>7, <1>8, <1>9 DEF IInv

(* Rows that stay and a log that stays keep what a replay has still to do. *)
LEMMA GapKept ==
  ASSUME IInv, recovery' = recovery, wal' = wal, losses' = losses,
         \A j \in Id : pg[j] # Absent => pg'[j] # Absent
  PROVE  NoGapForgotten'
<1>1. NoGapForgotten /\ \A n \in 1..recovery.seen : wal[n].id \in Id
  BY SeenIsLogged DEF IInv
<1>. QED  BY <1>1 DEF NoGapForgotten

(* A reason stays a reason.                                                *)
LEMMA ReasonKept ==
  ASSUME IInv, recovery'.cut = recovery.cut, UNCHANGED <<wal, crashes, exits>>,
         outages' = 0 => outages = 0
  PROVE  ReplayEndsForAReason'
BY DEF IInv, ReplayEndsForAReason

LEMMA RunTaskKeeps ==
  ASSUME IInv, NEW n \in 1..MaxWrites, RunTask(n)
  PROVE  IInv'
<1>1. PICK t \in tasks :
        /\ tasks' = tasks \ {t}
        /\ pg' = IF t.fits /\ ~Refused(t.id, t.row) THEN [pg EXCEPT ![t.id] = t.row] ELSE pg
        /\ UNCHANGED <<storeVars, fitVars, wal, recovery, bounds, writeCounts>>
  BY DEF RunTask
<1>2. /\ UNCHANGED <<contracts, index, active, logged, unfit, handed, wal, recovery, runs,
                     outages, crashes, losses, exits, writes, failures>>
  BY <1>1 DEF storeVars, fitVars, bounds, writeCounts
<1>3. /\ TypeOK /\ FreshInv /\ TasksLogged /\ recovery \in Recovery /\ LogFits
      /\ t.id \in Id /\ t.row \in Snapshot /\ t.row # Absent /\ unfit \subseteq Id
      /\ pg \in [Id -> Snapshot \cup {Absent}] /\ outages \in 0..Outages
  BY StoreAssumption DEF IInv, TypeOK, Task
<1>4. Fresh => Genuine(contracts[t.id], t.row) /\ ~Refused(t.id, t.row)
  <2>1. Fresh => Genuine(contracts[t.id], t.row)
    BY <1>3 DEF FreshInv, AllGenuine
  <2>. QED  BY <1>3, <2>1, NotRefused
<1>5. Store(t.id, t.row)
  BY <1>1, <1>2, <1>3, <1>4 DEF Store, TasksLogged
<1>6. \A j \in Id : pg[j] # Absent => pg'[j] # Absent
  BY <1>1, <1>3
<1>7. NoGapForgotten' /\ ReplayEndsForAReason'
  BY <1>2, <1>6, GapKept, ReasonKept
<1>8. \A u \in tasks : u \in tasks' \/ ~Fresh \/ (u.fits => pg'[u.id] # Absent)
  BY <1>1, <1>3, <1>4
<1>9. recovery.cut \in DOMAIN wal \cup {0} /\ (recovery.cut # 0 => recovery.todo = {})
  BY <1>3 DEF LogFits
<1>. QED  BY <1>1, <1>2, <1>3, <1>5, <1>7, <1>8, <1>9, StoreKeeps

LEMMA FailTaskKeeps ==
  ASSUME IInv, NEW t \in tasks, FailTask(t)
  PROVE  IInv'
<1>1. /\ outages \in Nat /\ Outages \in Nat /\ outages < Outages /\ outages' = outages + 1
      /\ tasks' = tasks \ {t} /\ recovery \in Recovery /\ unfit \subseteq Id
      /\ recovery.cut \in DOMAIN wal \cup {0} /\ (recovery.cut # 0 => recovery.todo = {})
      /\ UNCHANGED <<contracts, index, active, logged, unfit, handed, wal, pg, recovery, runs,
                     crashes, losses, exits, writes, failures>>
  BY DurabilityAssumption DEF IInv, TypeOK, LogFits, FailTask, storeVars, fitVars, writeCounts
<1>2. Store(t.id, t.row)
  BY <1>1 DEF Store
<1>3. NoGapForgotten' /\ ReplayEndsForAReason'
  BY <1>1, GapKept, ReasonKept
<1>. QED  BY <1>1, <1>2, <1>3, StoreKeeps

(* SAP validation changes the SAP fields of one contract.                  *)
LEMMA ValidateKeeps ==
  ASSUME IInv, NEW i \in Id, NEW named \in BOOLEAN, ValidateSap(i, named)
  PROVE  IInv'
<1>1. /\ TypeOK /\ contracts[i] \in Contract /\ contracts[i] # Absent
      /\ contracts \in [Id -> Contract \cup {Absent}] /\ unfit \subseteq Id
      /\ contracts' = [contracts EXCEPT ![i].sap = "ok"]
      /\ UNCHANGED <<index, active, logged, handed, wal, tasks, pg, recovery, runs, outages,
                     crashes, losses, exits, writes, failures>>
  BY DEF IInv, TypeOK, StoreTypeOK, ValidateSap, UpdateSapValidation, Stored, dbVars, bounds,
         writeCounts
<1>2. ASSUME NEW j \in Id
      PROVE  /\ contracts'[j] \in Contract \cup {Absent}
             /\ contracts'[j] = Absent <=> contracts[j] = Absent
             /\ contracts[j] # Absent => /\ contracts'[j].key = contracts[j].key
                                         /\ contracts'[j].version = contracts[j].version
  <2>1. CASE j # i
    BY <1>1, <2>1
  <2>2. CASE j = i
    <3>1. PICK c \in Contract : c = contracts[i]
      BY <1>1
    <3>2. contracts'[j] = [c EXCEPT !.sap = "ok"]
      BY <1>1, <2>2, <3>1
    <3>3. [c EXCEPT !.sap = "ok"] \in Contract /\ [c EXCEPT !.sap = "ok"].key = c.key
          /\ [c EXCEPT !.sap = "ok"].version = c.version
      BY <3>1 DEF Contract, SapState
    <3>. QED  BY <1>1, <2>2, <3>1, <3>2, <3>3, StoreAssumption
  <2>. QED  BY <2>1, <2>2
<1>3. contracts' \in [Id -> Contract \cup {Absent}] /\ unfit' \subseteq Id
  BY <1>1, <1>2 DEF ValidateSap
<1>4. TypeOK'
  BY <1>1, <1>3 DEF TypeOK, StoreTypeOK
<1>5. /\ LogFits' /\ RowFromLog' /\ TasksLogged' /\ NoGapForgotten' /\ ReplayEndsForAReason'
      /\ StoredOrUnderWay'
  BY <1>1 DEF IInv, LogFits, RowFromLog, TasksLogged, InLog, NoGapForgotten,
              ReplayEndsForAReason, StoredOrUnderWay
<1>6. FreshInv'
  <2>. SUFFICES ASSUME Fresh PROVE StoreExact' /\ AllGenuine'
    BY <1>1 DEF FreshInv, Fresh
  <2>1. StoreExact /\ AllGenuine
    BY DEF IInv, FreshInv
  <2>2. StoreExact'
    BY <1>1, <1>2, <2>1 DEF StoreExact, Stored
  <2>3. \A j \in Id : \A row : Genuine(contracts[j], row) => Genuine(contracts'[j], row)
    BY <1>2 DEF Genuine
  <2>4. /\ \A t \in tasks : t.id \in Id
        /\ \A n \in DOMAIN wal : wal[n].id \in Id
    <3>1. wal \in Seq(Entry) /\ tasks \in SUBSET Task
      BY <1>1 DEF TypeOK
    <3>2. \A n \in DOMAIN wal : wal[n] \in Entry
      BY <3>1
    <3>. QED  BY <3>1, <3>2 DEF Entry, Task
  <2>. QED  BY <1>1, <2>1, <2>2, <2>3, <2>4 DEF AllGenuine
<1>. QED  BY <1>4, <1>5, <1>6 DEF IInv

-----------------------------------------------------------------------------
(* Faults.                                                                 *)

LEMMA IdleType ==
  Idle \in Recovery /\ Idle.op = "none" /\ Idle.todo = {} /\ Idle.seen = 0 /\ Idle.cut = 0
  /\ Idle.since = 0
BY DurabilityAssumption DEF Idle, Recovery

LEMMA NodeCrashKeeps ==
  ASSUME IInv, NodeCrash
  PROVE  IInv'
<1>1. /\ TypeOK /\ LogFits /\ RowFromLog /\ wal \in Seq(Entry)
      /\ crashes \in Nat /\ outages \in Nat /\ losses \in Nat /\ exits \in Nat
      /\ crashes' = crashes + 1 /\ crashes' \in 0..NodeCrashes
      /\ tasks' = {} /\ recovery' = Idle /\ unfit' = {}
      /\ UNCHANGED <<wal, pg, logged, handed, runs, outages, losses, exits, writes, failures>>
  BY DurabilityAssumption DEF IInv, TypeOK, NodeCrash, Restart, writeCounts
<1>2. StoreTypeOK'
  <2>1. <<>> \in Seq(Id)
    OBVIOUS
  <2>2. /\ contracts' = [i \in Id |-> Absent] /\ index' = [k \in Key |-> <<>>]
        /\ active' = [k \in Key |-> None]
    BY DEF NodeCrash, Restart, EmptyTables
  <2>. QED  BY <1>1, <2>1, <2>2 DEF TypeOK, StoreTypeOK
<1>3. TypeOK'
  BY <1>1, <1>2, IdleType DEF TypeOK
<1>4. LogFits'
  <2>1. Len(wal) \in Nat
    BY <1>1
  <2>. QED  BY <1>1, <2>1, IdleType DEF LogFits
<1>5. RowFromLog' /\ TasksLogged' /\ NoGapForgotten' /\ ReplayEndsForAReason'
  BY <1>1, IdleType DEF RowFromLog, TasksLogged, NoGapForgotten, ReplayEndsForAReason
<1>6. FreshInv' /\ StoredOrUnderWay'
  <2>1. crashes' + exits' # 0 /\ outages' + crashes' + losses' + exits' # 0
    BY <1>1
  <2>. QED  BY <2>1 DEF FreshInv, Fresh, StoredOrUnderWay
<1>. QED  BY <1>3, <1>4, <1>5, <1>6 DEF IInv

LEMMA LosePostgresKeeps ==
  ASSUME IInv, LosePostgres
  PROVE  IInv'
<1>1. /\ TypeOK /\ LogFits /\ TasksLogged /\ FreshInv /\ recovery \in Recovery
      /\ crashes \in Nat /\ outages \in Nat /\ losses \in Nat /\ exits \in Nat
      /\ losses' = losses + 1 /\ losses' \in 0..Losses
      /\ pg' = [i \in Id |-> Absent]
      /\ UNCHANGED <<contracts, index, active, logged, unfit, handed, wal, tasks, recovery,
                     runs, outages, crashes, exits, writes, failures>>
  BY DurabilityAssumption DEF IInv, TypeOK, LosePostgres, writeCounts, storeVars, fitVars
<1>2. TypeOK'
  BY <1>1 DEF TypeOK, StoreTypeOK
<1>3. LogFits' /\ TasksLogged' /\ RowFromLog'
  <2>1. recovery.since \in Nat /\ recovery.since <= losses
    BY <1>1, DurabilityAssumption DEF LogFits, Recovery
  <2>2. recovery.since <= losses'
    BY <1>1, <2>1
  <2>. QED  BY <1>1, <2>2 DEF LogFits, TasksLogged, InLog, RowFromLog
<1>4. ReplayEndsForAReason'
  BY <1>1, ReasonKept
<1>5. NoGapForgotten' /\ StoredOrUnderWay'
  <2>1. recovery.since # losses'
    <3>1. recovery.since \in Nat /\ recovery.since <= losses
      BY <1>1, DurabilityAssumption DEF LogFits, Recovery
    <3>. QED  BY <1>1, <3>1
  <2>2. outages' + crashes' + losses' + exits' # 0
    BY <1>1
  <2>. QED  BY <1>1, <2>1, <2>2 DEF NoGapForgotten, StoredOrUnderWay
<1>6. FreshInv'
  BY <1>1 DEF FreshInv, Fresh, StoreExact, Stored, AllGenuine
<1>. QED  BY <1>2, <1>3, <1>4, <1>5, <1>6 DEF IInv

-----------------------------------------------------------------------------
(* Recovery.                                                               *)

LEMMA BeginKeeps ==
  ASSUME IInv, NEW op \in {"restore_postgres", "fill_gaps", "restore_ets"},
         NEW todo \in SUBSET DOMAIN wal, Begin(op, todo),
         op # "restore_ets" =>
           \A n \in DOMAIN wal : pg[wal[n].id] # Absent \/ n \in todo
  PROVE  IInv'
<1>1. /\ TypeOK /\ LogFits /\ RowFromLog /\ TasksLogged /\ FreshInv /\ StoredOrUnderWay
      /\ wal \in Seq(Entry) /\ runs \in 0..MaxRuns /\ MaxRuns \in Nat /\ losses \in 0..Losses
      /\ writes \in 0..MaxWrites /\ MaxWrites \in Nat /\ Len(wal) <= writes
  BY DurabilityAssumption DEF IInv, TypeOK, LogFits
<1>2. /\ recovery' = [op |-> op, todo |-> todo, seen |-> Len(wal), cut |-> 0, since |-> losses]
      /\ runs' \in 0..MaxRuns
      /\ UNCHANGED <<contracts, index, active, logged, unfit, handed, wal, tasks, pg,
                     outages, crashes, losses, exits, writes, failures>>
  BY <1>1 DEF Begin, storeVars, fitVars, dbVars, writeCounts
<1>3. DOMAIN wal = 1..Len(wal) /\ Len(wal) \in Nat /\ Len(wal) \in 0..MaxWrites
  <2>1. DOMAIN wal = 1..Len(wal) /\ Len(wal) \in Nat
    BY <1>1
  <2>. QED  BY <1>1, <2>1
<1>4. /\ recovery'.op = op /\ recovery'.todo = todo /\ recovery'.seen = Len(wal)
      /\ recovery'.cut = 0 /\ recovery'.since = losses
  BY <1>2
<1>5. recovery' \in Recovery
  <2>1. todo \in SUBSET (1..MaxWrites)
    BY <1>1, <1>3
  <2>. QED  BY <1>1, <1>2, <1>3, <2>1 DEF Recovery
<1>6. TypeOK'
  BY <1>1, <1>2, <1>5 DEF TypeOK, StoreTypeOK
<1>7. LogFits'
  BY <1>1, <1>2, <1>3, <1>4 DEF LogFits
<1>8. RowFromLog' /\ TasksLogged' /\ StoredOrUnderWay'
  BY <1>1, <1>2 DEF RowFromLog, TasksLogged, InLog, StoredOrUnderWay
<1>9. NoGapForgotten' /\ ReplayEndsForAReason'
  BY <1>2, <1>3, <1>4 DEF NoGapForgotten, ReplayEndsForAReason
<1>10. FreshInv'
  BY <1>1, <1>2 DEF FreshInv, Fresh, StoreExact, Stored, AllGenuine
<1>. QED  BY <1>6, <1>7, <1>8, <1>9, <1>10 DEF IInv

(* One entry less, or the end of the replay.                               *)
LEMMA RecoveryTypes ==
  ASSUME TypeOK, LogFits, NEW n \in DOMAIN wal,
         recovery' \in {Without(n), CutAt(n), Abandoned}
  PROVE  /\ recovery' \in Recovery /\ recovery'.op = recovery.op
         /\ recovery'.todo \subseteq recovery.todo /\ recovery'.seen = recovery.seen
         /\ recovery'.since = recovery.since /\ recovery'.cut \in DOMAIN wal \cup {0}
         /\ (recovery'.cut # 0 => recovery'.todo = {})
         /\ recovery' = Without(n) =>
              recovery'.todo = recovery.todo \ {n} /\ recovery'.cut = recovery.cut
         /\ recovery' = Abandoned => recovery'.cut = recovery.cut
         /\ recovery' = CutAt(n) => recovery'.cut = n
<1>1. /\ recovery \in Recovery /\ recovery.cut \in DOMAIN wal \cup {0}
      /\ wal \in Seq(Entry) /\ Len(wal) \in 0..MaxWrites
  <2>1. /\ wal \in Seq(Entry) /\ Len(wal) \in Nat /\ Len(wal) <= writes /\ writes \in 0..MaxWrites
        /\ MaxWrites \in Nat
    BY DurabilityAssumption DEF TypeOK, LogFits
  <2>2. Len(wal) \in 0..MaxWrites
    BY <2>1
  <2>. QED  BY <2>1, <2>2 DEF TypeOK, LogFits
<1>2. n \in 0..MaxWrites
  <2>1. DOMAIN wal = 1..Len(wal) /\ Len(wal) \in Nat /\ MaxWrites \in Nat /\ Len(wal) <= MaxWrites
    BY <1>1, DurabilityAssumption
  <2>2. n \in 1..Len(wal)
    BY <2>1
  <2>. QED  BY <2>1, <2>2
<1>3. recovery.cut # 0 => recovery.todo = {}
  BY DEF LogFits
<1>. QED  BY <1>1, <1>2, <1>3 DEF Recovery, Without, CutAt, Abandoned

LEMMA ReplayKeeps ==
  ASSUME IInv, NEW n \in DOMAIN wal, Replay(n)
  PROVE  IInv'
<1>1. /\ TypeOK /\ LogFits /\ NoGapForgotten /\ FreshInv /\ recovery \in Recovery
      /\ wal \in Seq(Entry) /\ pg \in [Id -> Snapshot \cup {Absent}] /\ outages \in 0..Outages
      /\ unfit \subseteq Id
  BY DEF IInv, TypeOK
<1>2. wal[n] \in Entry
  BY <1>1
<1>3. PICK e \in Entry : e = wal[n]
  BY <1>2
<1>4. /\ e.id \in Id /\ e.row \in Snapshot /\ e.row # Absent /\ e.fits \in BOOLEAN
      /\ e = [id |-> e.id, row |-> e.row, fits |-> e.fits]
  BY StoreAssumption DEF Entry
<1>5. PICK raises \in BOOLEAN :
        /\ raises <=> ~e.fits \/ (pg[e.id] = Absent /\ Refused(e.id, e.row))
        /\ IsNext(n)
        /\ recovery' = IF raises THEN CutAt(n) ELSE Without(n)
        /\ pg' = IF ~raises /\ pg[e.id] = Absent THEN [pg EXCEPT ![e.id] = e.row] ELSE pg
        /\ UNCHANGED <<storeVars, fitVars, wal, tasks, bounds, writeCounts>>
  BY <1>3 DEF Replay
<1>6. /\ UNCHANGED <<contracts, index, active, logged, unfit, handed, wal, tasks, runs,
                     outages, crashes, losses, exits, writes, failures>>
  BY <1>5 DEF storeVars, fitVars, bounds, writeCounts
<1>7. Fresh => Genuine(contracts[e.id], e.row) /\ ~Refused(e.id, e.row)
  <2>1. Fresh => Genuine(contracts[e.id], e.row)
    BY <1>1, <1>3 DEF FreshInv, AllGenuine
  <2>. QED  BY <1>1, <1>4, <2>1, NotRefused
<1>8. ~raises => InLog(e.id, e.row)
  <2>1. e.fits => e = [id |-> e.id, row |-> e.row, fits |-> TRUE]
    BY <1>4
  <2>. QED  BY <1>3, <1>5, <2>1 DEF InLog
<1>9. Store(e.id, e.row)
  BY <1>1, <1>4, <1>5, <1>6, <1>7, <1>8 DEF Store
<1>10. /\ \A j \in Id : pg[j] # Absent => pg'[j] # Absent
       /\ ~raises => pg'[e.id] # Absent
  BY <1>1, <1>4, <1>5
<1>11. /\ recovery' \in Recovery /\ recovery'.op = recovery.op
       /\ recovery'.todo \subseteq recovery.todo /\ recovery'.seen = recovery.seen
       /\ recovery'.since = recovery.since /\ recovery'.cut \in DOMAIN wal \cup {0}
       /\ (recovery'.cut # 0 => recovery'.todo = {})
       /\ ~raises => recovery'.todo = recovery.todo \ {n} /\ recovery'.cut = recovery.cut
       /\ raises => recovery'.cut = n
  BY <1>1, <1>5, RecoveryTypes
<1>12. NoGapForgotten'
  <2>. SUFFICES ASSUME recovery.op \in {"restore_postgres", "fill_gaps"},
                       recovery.since = losses, NEW m \in 1..recovery.seen
                PROVE  \/ pg'[wal[m].id] # Absent
                       \/ m \in recovery'.todo
                       \/ recovery'.cut # 0 /\ m >= recovery'.cut
    BY <1>6, <1>11 DEF NoGapForgotten
  <2>1. wal[m].id \in Id /\ m \in Nat /\ n \in Nat /\ n # 0
    <3>1. DOMAIN wal = 1..Len(wal) /\ Len(wal) \in Nat
      BY <1>1
    <3>. QED  BY <1>1, <3>1, SeenIsLogged
  <2>2. \/ pg[wal[m].id] # Absent
        \/ m \in recovery.todo
        \/ recovery.cut # 0 /\ m >= recovery.cut
    BY <1>1 DEF NoGapForgotten
  <2>3. CASE pg[wal[m].id] # Absent
    BY <1>10, <2>1, <2>3
  <2>4. CASE m \in recovery.todo
    <3>1. n <= m
      BY <1>5, <2>4 DEF IsNext
    <3>2. CASE raises
      BY <1>11, <2>1, <3>1, <3>2
    <3>3. CASE ~raises /\ m # n
      BY <1>11, <2>4, <3>3
    <3>4. CASE ~raises /\ m = n
      BY <1>3, <1>10, <3>4
    <3>. QED  BY <3>2, <3>3, <3>4
  <2>5. CASE recovery.cut # 0 /\ m >= recovery.cut
    <3>1. n \in recovery.todo
      BY <1>5 DEF IsNext
    <3>2. recovery.todo = {}
      BY <1>1, <2>5 DEF LogFits
    <3>. QED  BY <3>1, <3>2
  <2>. QED  BY <2>2, <2>3, <2>4, <2>5
<1>13. ReplayEndsForAReason'
  <2>1. CASE ~raises
    BY <1>6, <1>11, <2>1, ReasonKept
  <2>2. CASE raises
    <3>1. ~e.fits \/ ~Fresh
      BY <1>5, <1>7, <2>2
    <3>2. ~Fresh => crashes + exits > 0
      <4>1. crashes \in Nat /\ exits \in Nat
        BY <1>1, CountTypes
      <4>. QED  BY <4>1 DEF Fresh
    <3>. QED  BY <1>3, <1>6, <1>11, <2>2, <3>1, <3>2 DEF ReplayEndsForAReason
  <2>. QED  BY <2>1, <2>2
<1>. QED  BY <1>1, <1>6, <1>9, <1>11, <1>12, <1>13, StoreKeeps

LEMMA ReplayFailsKeeps ==
  ASSUME IInv, NEW n \in DOMAIN wal, ReplayFails(n)
  PROVE  IInv'
<1>1. /\ TypeOK /\ LogFits /\ NoGapForgotten /\ wal \in Seq(Entry) /\ unfit \subseteq Id
      /\ outages \in Nat /\ Outages \in Nat /\ outages < Outages /\ outages' = outages + 1
      /\ IsNext(n) /\ recovery' = CutAt(n)
      /\ UNCHANGED <<contracts, index, active, logged, unfit, handed, wal, tasks, pg, runs,
                     crashes, losses, exits, writes, failures>>
  BY DurabilityAssumption DEF IInv, TypeOK, ReplayFails, storeVars, fitVars, dbVars, writeCounts
<1>2. /\ recovery' \in Recovery /\ recovery'.op = recovery.op
      /\ recovery'.todo \subseteq recovery.todo /\ recovery'.seen = recovery.seen
      /\ recovery'.since = recovery.since /\ recovery'.cut \in DOMAIN wal \cup {0}
      /\ recovery'.cut = n /\ (recovery'.cut # 0 => recovery'.todo = {})
  BY <1>1, RecoveryTypes
<1>3. /\ Store(wal[n].id, wal[n].row)
      /\ outages' \in 0..Outages /\ outages' # 0 /\ tasks' \subseteq tasks
  BY <1>1 DEF Store
<1>4. NoGapForgotten'
  <2>. SUFFICES ASSUME recovery.op \in {"restore_postgres", "fill_gaps"},
                       recovery.since = losses, NEW m \in 1..recovery.seen
                PROVE  pg[wal[m].id] # Absent \/ (n # 0 /\ m >= n)
    BY <1>1, <1>2 DEF NoGapForgotten
  <2>1. m \in Nat /\ n \in Nat /\ n # 0
    <3>1. DOMAIN wal = 1..Len(wal) /\ Len(wal) \in Nat
      BY <1>1
    <3>. QED  BY <1>1, <3>1, SeenIsLogged
  <2>2. \/ pg[wal[m].id] # Absent
        \/ m \in recovery.todo
        \/ recovery.cut # 0 /\ m >= recovery.cut
    BY <1>1 DEF NoGapForgotten
  <2>3. recovery.cut = 0
    BY <1>1 DEF LogFits, IsNext
  <2>4. m \in recovery.todo => m >= n
    BY <1>1, <2>1 DEF IsNext
  <2>. QED  BY <2>1, <2>2, <2>3, <2>4
<1>5. ReplayEndsForAReason'
  BY <1>1 DEF ReplayEndsForAReason
<1>. QED  BY <1>1, <1>2, <1>3, <1>4, <1>5, StoreKeeps

LEMMA StutterKeeps ==
  ASSUME IInv, UNCHANGED vars
  PROVE  IInv'
<1>1. UNCHANGED <<contracts, index, active, logged, unfit, handed, wal, tasks, pg, recovery,
                  runs, outages, crashes, losses, exits, writes, failures>>
  BY DEF vars, storeVars, fitVars, dbVars, bounds, writeCounts
<1>2. /\ recovery \in Recovery /\ outages \in 0..Outages /\ unfit \subseteq Id
      /\ recovery.cut \in DOMAIN wal \cup {0} /\ (recovery.cut # 0 => recovery.todo = {})
  BY DEF IInv, TypeOK, LogFits
<1>3. \A i, row : Store(i, row)
  BY <1>1, <1>2 DEF Store
<1>4. NoGapForgotten' /\ ReplayEndsForAReason'
  BY <1>1, GapKept, ReasonKept
<1>. QED  BY <1>1, <1>2, <1>3, <1>4, StoreKeeps

-----------------------------------------------------------------------------
LEMMA IngestedRowType ==
  ASSUME StoreTypeOK, NEW k \in Key, NEW who \in Reviewer \cup {None}
  PROVE  IngestedRow(k, who) \in Snapshot
<1>1. index[k] \in Seq(Id)
  BY DEF StoreTypeOK
<1>2. Len(index[k]) + 1 \in Nat \ {0}
  BY <1>1
<1>. QED  BY <1>2 DEF IngestedRow, Snapshot, Status

LEMMA IngestKeeps ==
  ASSUME IInv, NEW k \in Key, IngestContract(k) \/ IngestExits(k)
  PROVE  IInv'
<1>1. StoreTypeOK /\ unfit \subseteq Id
  BY DEF IInv, TypeOK
<1>2. CASE IngestContract(k)
  <2>1. PICK i \in Id : Ingest(i, k, TRUE, None, FALSE, None) /\ Persist(i, TRUE)
    BY <1>2 DEF IngestContract
  <2>2. Wrote(i)
    BY <1>1, <2>1, IngestWrites
  <2>3. SlowRecovery /\ UNCHANGED bounds /\ unfit' \subseteq Id
    BY <1>1, <1>2 DEF IngestContract, SlowRecovery
  <2>. QED  BY <2>1, <2>2, <2>3, WriteKeeps
<1>3. CASE IngestExits(k)
  <2>1. PICK i \in Id : StoreExit(i, IngestedRow(k, None), TRUE)
    BY <1>3 DEF IngestExits
  <2>2. SlowRecovery
    BY <1>3 DEF IngestExits, SlowRecovery
  <2>. QED  BY <1>1, <2>1, <2>2, IngestedRowType, ExitKeeps
<1>. QED  BY <1>2, <1>3

LEMMA ReviewKeeps ==
  ASSUME IInv, NEW i \in Id, NEW new \in Status, NEW who \in Reviewer \cup {None},
         Reviews(i, new, who)
  PROVE  IInv'
<1>1. /\ StoreTypeOK /\ unfit \subseteq Id /\ (i \notin unfit) \in BOOLEAN
      /\ contracts \in [Id -> Contract \cup {Absent}]
  BY DEF IInv, TypeOK, StoreTypeOK
<1>2. CASE ChangeStatus(i, new, who)
  <2>1. Wrote(i)
    BY <1>1, <1>2, UpdateWrites DEF ChangeStatus
  <2>2. SlowRecovery /\ UNCHANGED bounds /\ Persist(i, i \notin unfit) /\ unfit' \subseteq Id
    BY <1>1, <1>2 DEF ChangeStatus, SlowRecovery
  <2>. QED  BY <1>1, <2>1, <2>2, WriteKeeps
<1>3. CASE StatusExits(i, new, who)
  <2>1. PICK row : row = [SnapshotOf(contracts[i]) EXCEPT !.status = new, !.reviewer = who]
    OBVIOUS
  <2>2. contracts[i] \in Contract
    BY <1>1, <1>3 DEF StatusExits, Accepts, Stored
  <2>3. row \in Snapshot
    BY <2>1, <2>2, SnapshotType DEF Snapshot
  <2>4. StoreExit(i, row, i \notin unfit) /\ SlowRecovery
    BY <1>3, <2>1 DEF StatusExits, SlowRecovery
  <2>. QED  BY <1>1, <2>3, <2>4, ExitKeeps
<1>. QED  BY <1>2, <1>3 DEF Reviews

LEMMA ReingestKeeps ==
  ASSUME IInv, NEW n \in DOMAIN wal, Reingest(n) \/ ReingestExits(n)
  PROVE  IInv'
<1>1. /\ TypeOK /\ LogFits /\ StoreTypeOK /\ wal \in Seq(Entry) /\ unfit \subseteq Id
      /\ recovery.op = "restore_ets"
  BY DEF IInv, TypeOK, Reingest, ReingestExits
<1>2. wal[n] \in Entry
  BY <1>1
<1>3. PICK k \in Key, who \in Reviewer \cup {None}, fits \in BOOLEAN :
        k = wal[n].row.key /\ who = wal[n].row.reviewer /\ fits = wal[n].fits
  BY <1>2 DEF Entry, Snapshot
<1>4. SlowRecovery
  <2>1. recovery' \in {Without(n), Abandoned}
    BY DEF Reingest, ReingestExits
  <2>. QED  BY <1>1, <2>1, RecoveryTypes DEF SlowRecovery
<1>5. CASE Reingest(n)
  <2>1. PICK i \in Id : /\ Ingest(i, k, TRUE, None, FALSE, who) /\ Persist(i, fits)
                        /\ unfit' = IF wal[n].fits THEN unfit ELSE unfit \cup {i}
    BY <1>3, <1>5 DEF Reingest
  <2>2. Wrote(i)
    BY <1>1, <2>1, IngestWrites
  <2>3. UNCHANGED bounds /\ unfit' \subseteq Id
    BY <1>1, <1>5, <2>1 DEF Reingest
  <2>. QED  BY <1>4, <2>1, <2>2, <2>3, WriteKeeps
<1>6. CASE ReingestExits(n)
  <2>1. PICK i \in Id : StoreExit(i, IngestedRow(k, who), fits)
    BY <1>3, <1>6 DEF ReingestExits
  <2>. QED  BY <1>1, <1>4, <2>1, IngestedRowType, ExitKeeps
<1>. QED  BY <1>5, <1>6

LEMMA NextKeeps ==
  ASSUME IInv, [Next]_vars
  PROVE  IInv'
<1>1. ASSUME NEW k \in Key, IngestContract(k) \/ IngestExits(k) PROVE IInv'
  BY <1>1, IngestKeeps
<1>2. ASSUME NEW i \in Id,
             \/ Reviews(i, "pending_review", None)
             \/ \E who \in Reviewer : \/ Reviews(i, "approved", who)
                                     \/ Reviews(i, "rejected", who)
      PROVE  IInv'
  BY <1>2, ReviewKeeps DEF Status
<1>3. ASSUME NEW i \in Id, NEW named \in BOOLEAN, ValidateSap(i, named) PROVE IInv'
  BY <1>3, ValidateKeeps
<1>4. CASE BeginRestorePostgres
  BY <1>4, BeginKeeps DEF BeginRestorePostgres
<1>5. CASE BeginFillGaps
  <2>1. /\ Missing \in SUBSET DOMAIN wal
        /\ \A n \in DOMAIN wal : pg[wal[n].id] # Absent \/ n \in Missing
    BY DEF Missing
  <2>. QED  BY <1>5, <2>1, BeginKeeps DEF BeginFillGaps
<1>6. CASE BeginRestoreEts
  <2>1. LatestPositions \in SUBSET DOMAIN wal
    BY DEF LatestPositions
  <2>. QED  BY <1>6, <2>1, BeginKeeps DEF BeginRestoreEts
<1>7. ASSUME NEW n \in DOMAIN wal, Replay(n) \/ ReplayFails(n) \/ Reingest(n) \/ ReingestExits(n)
      PROVE  IInv'
  BY <1>7, ReplayKeeps, ReplayFailsKeeps, ReingestKeeps
<1>8. ASSUME NEW n \in 1..MaxWrites, RunTask(n) PROVE IInv'
  BY <1>8, RunTaskKeeps
<1>9. ASSUME NEW t \in tasks, FailTask(t) PROVE IInv'
  BY <1>9, FailTaskKeeps
<1>10. CASE NodeCrash \/ LosePostgres \/ UNCHANGED vars
  BY <1>10, NodeCrashKeeps, LosePostgresKeeps, StutterKeeps
<1>. QED  BY <1>1, <1>2, <1>3, <1>4, <1>5, <1>6, <1>7, <1>8, <1>9, <1>10 DEF Next

LEMMA AlwaysIInv == Spec => []IInv
<1>1. Init => IInv
  BY InitIInv
<1>2. IInv /\ [Next]_vars => IInv'
  BY NextKeeps
<1>. QED  BY <1>1, <1>2, PTL DEF Spec

-----------------------------------------------------------------------------
(* Every variable holds the data ContractDurability says it does.          *)
THEOREM TypeCorrect == Spec => []TypeOK
<1>1. IInv => TypeOK
  BY DEF IInv
<1>. QED  BY <1>1, AlwaysIInv, PTL

(* While the log takes every entry, every row of Postgres is in the log.   *)
THEOREM RowFromLogCorrect == Spec => []RowFromLog
<1>1. IInv => RowFromLog
  BY DEF IInv
<1>. QED  BY <1>1, AlwaysIInv, PTL

(* A replay, whether it runs, came to its end or was ended by an entry,    *)
(* forgets no contract of the log it read before that entry.               *)
THEOREM NoGapForgottenCorrect == Spec => []NoGapForgotten
<1>1. IInv => NoGapForgotten
  BY DEF IInv
<1>. QED  BY <1>1, AlwaysIInv, PTL

(* With Postgres reachable, a replay is ended by an entry only if it has   *)
(* no JSON form or the Store, alone or with the node, died before.         *)
THEOREM ReplayEndsForAReasonCorrect == Spec => []ReplayEndsForAReason
<1>1. IInv => ReplayEndsForAReason
  BY DEF IInv
<1>. QED  BY <1>1, AlwaysIInv, PTL

(* While nothing was lost and the Store did not die, every contract of     *)
(* which a snapshot that fits was written has a row or a task that will    *)
(* write it.                                                               *)
THEOREM StoredOrUnderWayCorrect == Spec => []StoredOrUnderWay
<1>1. IInv => StoredOrUnderWay
  BY DEF IInv
<1>. QED  BY <1>1, AlwaysIInv, PTL

-----------------------------------------------------------------------------
(* THE LOG                                                                 *)
(*                                                                         *)
(* What is readable is what no partial frame precedes.  While no frame was *)
(* written in part, no file holds one, so every frame is readable, and     *)
(* files only grow: an answered append stays.  The hash chain and the      *)
(* numbers need an invariant about what the process, or while it is down   *)
(* the manifest, knows of the newest entries.                              *)

Day == 1..MaxDay

Whole == \A t \in Type, d \in Day : \A n \in DOMAIN file[t][d] : file[t][d][n] # Torn

OnDisk(u) == \E t \in Type, d \in Day : \E n \in DOMAIN file[t][d] : file[t][d][n].uid = u

NothingTorn == OnlyFaults({"crash", "manifest"})

Kept == NothingTorn => Whole /\ \A u \in acked : OnDisk(u)

-----------------------------------------------------------------------------
(* What the steps are made of.                                             *)

LEMMA PutType ==
  ASSUME LogTypeOK, NEW t \in Type, NEW e \in Frame, Put(t, e)
  PROVE  file' \in [Type -> [Day -> Seq(Frame)]]
<1>1. file[t][day] \in Seq(Frame)
  BY DEF LogTypeOK
<1>2. Append(file[t][day], e) \in Seq(Frame)
  BY <1>1
<1>3. [file[t] EXCEPT ![day] = Append(@, e)] \in [Day -> Seq(Frame)]
  BY <1>2 DEF LogTypeOK, Day
<1> QED
  BY <1>3 DEF LogTypeOK, Put, Day

(* Appending loses no frame and adds the one given.                        *)
LEMMA PutGrows ==
  ASSUME LogTypeOK, NEW t \in Type, NEW e \in Frame, Put(t, e)
  PROVE  /\ \A u : OnDisk(u) => OnDisk(u)'
         /\ OnDisk(e.uid)'
         /\ Whole /\ e # Torn => Whole'
<1> DEFINE f == file[t][day]
<1>1. f \in Seq(Frame) /\ day \in Day
  BY DEF LogTypeOK, Day
<1>2. /\ DOMAIN Append(f, e) = DOMAIN f \cup {Len(f) + 1}
      /\ \A n \in DOMAIN f : Append(f, e)[n] = f[n]
      /\ Append(f, e)[Len(f) + 1] = e
  <2> HIDE DEF f
  <2>1. DOMAIN f = 1..Len(f) /\ Len(f) \in Nat /\ DOMAIN Append(f, e) = 1..(Len(f) + 1)
    BY <1>1
  <2> QED
    BY <1>1, <2>1
<1>3. file'[t][day] = Append(f, e)
  BY <1>1 DEF LogTypeOK, Put, Day
<1>4. \A s \in Type, d \in Day : (s = t /\ d = day) \/ file'[s][d] = file[s][d]
  BY <1>1 DEF LogTypeOK, Put, Day
<1>5. OnDisk(e.uid)'
  <2>1. Len(f) + 1 \in DOMAIN file'[t][day] /\ file'[t][day][Len(f) + 1] = e
    BY <1>2, <1>3
  <2> QED
    BY <1>1, <2>1 DEF OnDisk, Day
<1>6. ASSUME NEW u, OnDisk(u)
      PROVE  OnDisk(u)'
  <2>1. PICK s \in Type, d \in Day : \E n \in DOMAIN file[s][d] : file[s][d][n].uid = u
    BY <1>6 DEF OnDisk
  <2>2. PICK n \in DOMAIN file[s][d] : file[s][d][n].uid = u
    BY <2>1
  <2>3. n \in DOMAIN file'[s][d] /\ file'[s][d][n] = file[s][d][n]
    BY <2>2, <1>2, <1>3, <1>4
  <2> QED
    BY <2>2, <2>3 DEF OnDisk, Day
<1>7. ASSUME Whole, e # Torn
      PROVE  Whole'
  <2> SUFFICES ASSUME NEW s \in Type, NEW d \in Day, NEW n \in DOMAIN file'[s][d]
               PROVE  file'[s][d][n] # Torn
    BY DEF Whole, Day, Torn
  <2>1. CASE s = t /\ d = day
    BY <1>1, <1>2, <1>3, <1>7, <2>1 DEF Whole
  <2>2. CASE file'[s][d] = file[s][d]
    BY <1>7, <2>2 DEF Whole
  <2> QED
    BY <1>4, <2>1, <2>2
<1> QED
  BY <1>5, <1>6, <1>7

LEMMA NextEntryType ==
  ASSUME LogTypeOK, NEW t \in Type
  PROVE  NextEntry(t) \in Frame /\ NextEntry(t) # Torn /\ NextEntry(t).uid = appended + 1
BY DEF LogTypeOK, NextEntry, Frame, Torn

LEMMA TornType == Torn \in Frame
BY DEF Torn, Frame

LEMMA SavedType ==
  ASSUME NEW s \in Nat, NEW p \in [Type -> Nat]
  PROVE  Saved(s, p) \in Manifest
BY DEF Saved, Manifest

(* A fault of one kind keeps the promise about kinds only if allowed.      *)
LEMMA FailsOnly ==
  ASSUME LogTypeOK, NEW kind \in Fault, Fails(kind), NEW kinds
  PROVE  /\ faults' \in Seq(Fault) /\ Len(faults') <= MaxFault
         /\ OnlyFaults(kinds)' => OnlyFaults(kinds) /\ kind \in kinds
<1>1. faults \in Seq(Fault) /\ MaxFault \in Nat
  BY LogAssumption DEF LogTypeOK
<1>2. faults' = Append(faults, kind) /\ Len(faults) < MaxFault
  BY DEF Fails
<1>3. /\ faults' \in Seq(Fault) /\ Len(faults') = Len(faults) + 1 /\ Len(faults) \in Nat
      /\ DOMAIN faults = 1..Len(faults) /\ DOMAIN faults' = 1..(Len(faults) + 1)
      /\ faults'[Len(faults) + 1] = kind
      /\ \A n \in DOMAIN faults : faults'[n] = faults[n]
  BY <1>1, <1>2
<1>4. ASSUME OnlyFaults(kinds)'
      PROVE  OnlyFaults(kinds) /\ kind \in kinds
  <2>1. \A n \in DOMAIN faults' : faults'[n] \in kinds
    BY <1>4 DEF OnlyFaults, ToSet
  <2>2. Len(faults) + 1 \in DOMAIN faults' /\ DOMAIN faults \subseteq DOMAIN faults'
    BY <1>3
  <2> QED
    BY <1>3, <2>1, <2>2 DEF OnlyFaults, ToSet
<1> QED
  BY <1>1, <1>2, <1>3, <1>4

-----------------------------------------------------------------------------
(* Types.                                                                  *)

LEMMA TypeInit ==
  ASSUME LogInit
  PROVE  LogTypeOK
<1>1. Zero \in [Type -> Nat]
  BY DEF Zero
<1>2. NoManifest \in Manifest
  BY <1>1 DEF NoManifest, Manifest
<1>3. file \in [Type -> [1..MaxDay -> Seq(Frame)]]
  <2>1. <<>> \in Seq(Frame)
    OBVIOUS
  <2>2. [d \in 1..MaxDay |-> <<>>] \in [1..MaxDay -> Seq(Frame)]
    BY <2>1
  <2> QED
    BY <2>2 DEF LogInit
<1>4. faults = <<>> /\ faults \in Seq(Fault) /\ Len(faults) = 0
  BY DEF LogInit
<1>5. written \in 0..(ManifestEvery - 1) /\ day \in 1..MaxDay /\ appended \in 0..MaxEntry
  BY LogAssumption DEF LogInit
<1>6. Len(faults) <= MaxFault
  BY <1>4, LogAssumption
<1>7. /\ seq \in Nat /\ prevHash \in [Type -> Nat]
      /\ started \in 0..appended /\ acked \subseteq 1..appended
  BY <1>1 DEF LogInit
<1>9. up \in BOOLEAN
  BY Zenon DEF LogInit
<1>8. manifest \in Manifest
  BY <1>2 DEF LogInit
<1> QED
  BY <1>3, <1>4, <1>5, <1>6, <1>7, <1>8, <1>9 DEF LogTypeOK

LEMMA DiesType ==
  ASSUME LogTypeOK, Dies, appended' \in Nat
  PROVE  /\ up' \in BOOLEAN /\ seq' \in Nat /\ prevHash' \in [Type -> Nat]
         /\ written' \in 0..(ManifestEvery - 1) /\ started' \in 0..appended'
         /\ day' \in 1..MaxDay
<1>1. Zero \in [Type -> Nat]
  BY DEF Zero
<1>2. 0 \in 0..(ManifestEvery - 1)
  BY LogAssumption
<1>3. up' \in BOOLEAN
  BY Zenon DEF Dies
<1>4. seq' = 0 /\ prevHash' = Zero /\ written' = 0 /\ started' = 0 /\ day' = day
  BY DEF Dies
<1>5. 0 \in 0..appended' /\ day \in 1..MaxDay
  BY DEF LogTypeOK
<1> QED
  BY <1>1, <1>2, <1>3, <1>4, <1>5

LEMMA TypeStep ==
  ASSUME LogTypeOK, [LogNext]_logVars
  PROVE  LogTypeOK'
<1> USE LogAssumption
<1>z. Zero \in [Type -> Nat]
  BY DEF Zero
<1>1. CASE Start
  <2>1. \A e \in DecodedAll : e.seq \in Nat
    <3> SUFFICES ASSUME NEW t \in Type, NEW d \in 1..MaxDay, NEW n \in DOMAIN file[t][d]
                 PROVE  file[t][d][n].seq \in Nat
      BY DEF DecodedAll, AllFiles, Decoded, Readable
    <3>1. file[t][d] \in Seq(Frame)
      BY DEF LogTypeOK
    <3>2. file[t][d][n] \in Frame
      BY <3>1
    <3> QED
      BY <3>2 DEF Frame
  <2>2. ReadNumbers \subseteq Nat
    BY <2>1 DEF ReadNumbers
  <2>3. manifest.seq \in Nat /\ manifest.prev \in [Type -> Nat]
    BY DEF LogTypeOK, Manifest
  <2>4. seq' \in Nat /\ prevHash' \in [Type -> Nat]
    <3>1. CASE manifest.kind = "saved" /\ seq' = manifest.seq /\ prevHash' = manifest.prev
      BY <3>1, <2>3
    <3>2. CASE seq' = 0 /\ prevHash' = Zero
      BY <3>2, <1>z
    <3>3. CASE seq' \in ReadNumbers /\ prevHash' = Zero
      BY <3>3, <1>z, <2>2
    <3> QED
      BY <1>1, <3>1, <3>2, <3>3 DEF Start
  <2> QED
    BY <1>1, <2>4 DEF Start, LogTypeOK, disk
<1>2. CASE Crash
  <2>1. faults' \in Seq(Fault) /\ Len(faults') <= MaxFault
    BY <1>2, FailsOnly DEF Crash, Fault
  <2>2. file' \in [Type -> [Day -> Seq(Frame)]]
    <3>1. CASE UNCHANGED file
      BY <3>1 DEF LogTypeOK, Day
    <3>2. ASSUME NEW t \in Type, Put(t, Torn)
          PROVE  file' \in [Type -> [Day -> Seq(Frame)]]
      BY <3>2, PutType, TornType
    <3>3. ASSUME NEW t \in Type, Put(t, NextEntry(t))
          PROVE  file' \in [Type -> [Day -> Seq(Frame)]]
      BY <3>3, PutType, NextEntryType
    <3> QED
      BY <1>2, <3>1, <3>2, <3>3 DEF Crash, disk
  <2>3. manifest' \in Manifest
    <3>1. [NoManifest EXCEPT !.kind = "damaged"] \in Manifest
      BY <1>z DEF NoManifest, Manifest
    <3> QED
      BY <1>2, <3>1 DEF Crash, disk, LogTypeOK
  <2>4. appended' \in 0..MaxEntry /\ appended <= appended' /\ appended' \in Nat
    BY <1>2 DEF Crash, LogTypeOK
  <2>5. Dies
    BY <1>2 DEF Crash
  <2>6. acked' \subseteq 1..appended'
    BY <2>4, <2>5 DEF Dies, LogTypeOK
  <2> QED
    BY <2>1, <2>2, <2>3, <2>4, <2>5, <2>6, DiesType DEF LogTypeOK, Day
<1>3. CASE ReadRaises
  <2>1. manifest' \in Manifest
    BY <1>3, SavedType DEF ReadRaises, LogTypeOK
  <2>2. Dies /\ UNCHANGED <<file, appended, faults>>
    BY <1>3 DEF ReadRaises
  <2>3. appended' \in Nat /\ acked' = acked
    BY <2>2 DEF Dies, LogTypeOK
  <2> QED
    BY <2>1, <2>2, <2>3, DiesType DEF LogTypeOK
<1>4. CASE NewDay
  BY <1>4 DEF NewDay, LogTypeOK, disk, memory
<1>5. ASSUME NEW t \in Type, AppendEntry(t)
      PROVE  LogTypeOK'
  <2>1. file' \in [Type -> [Day -> Seq(Frame)]]
    BY <1>5, PutType, NextEntryType DEF AppendEntry
  <2>2. seq' \in Nat /\ prevHash' \in [Type -> Nat] /\ appended' = appended + 1
    BY <1>5 DEF AppendEntry, NextEntry, LogTypeOK
  <2>3. written' \in 0..(ManifestEvery - 1)
    BY <1>5 DEF AppendEntry, LogTypeOK
  <2>4. manifest' \in Manifest
    <3>1. manifest' \in {Saved(seq', prevHash'), manifest}
      BY <1>5 DEF AppendEntry
    <3> QED
      BY <2>2, <3>1, SavedType DEF LogTypeOK
  <2>5. appended' \in 0..MaxEntry /\ acked' \subseteq 1..appended' /\ started' \in 0..appended'
    BY <1>5, <2>2, NextEntryType DEF AppendEntry, LogTypeOK
  <2>6. UNCHANGED <<up, day, faults>>
    BY <1>5 DEF AppendEntry
  <2> QED
    BY <2>1, <2>2, <2>3, <2>4, <2>5, <2>6 DEF LogTypeOK, Day
<1>6. ASSUME NEW t \in Type, ShortWrite(t)
      PROVE  LogTypeOK'
  <2>1. file' \in [Type -> [Day -> Seq(Frame)]]
    BY <1>6, PutType, TornType DEF ShortWrite
  <2>2. faults' \in Seq(Fault) /\ Len(faults') <= MaxFault
    BY <1>6, FailsOnly DEF ShortWrite, Fault
  <2>3. UNCHANGED <<manifest, up, memory, day, appended, acked>>
    BY <1>6 DEF ShortWrite
  <2> QED
    BY <2>1, <2>2, <2>3 DEF LogTypeOK, Day, memory
<1>7. CASE UNCHANGED logVars
  BY <1>7 DEF logVars, disk, memory, LogTypeOK
<1> QED
  BY <1>1, <1>2, <1>3, <1>4, <1>5, <1>6, <1>7 DEF LogNext

(* The variables keep to the state space (init/1 and the handle_call       *)
(* clauses of SnapshotLog).                                                *)
THEOREM LogTypeCorrect == LogSpec => []LogTypeOK
<1>1. LogInit => LogTypeOK
  BY TypeInit
<1>2. LogTypeOK /\ [LogNext]_logVars => LogTypeOK'
  BY TypeStep
<1> QED
  BY <1>1, <1>2, PTL DEF LogSpec

-----------------------------------------------------------------------------
(* Answered appends stay.                                                  *)

LEMMA KeptStep ==
  ASSUME LogTypeOK, Kept, [LogNext]_logVars
  PROVE  Kept'
<1>1. ASSUME UNCHANGED <<file, acked, faults>>
      PROVE  Kept'
  BY <1>1 DEF Kept, Whole, OnDisk, NothingTorn, OnlyFaults
<1>2. CASE Start
  BY <1>1, <1>2 DEF Start, disk
<1>3. CASE Crash
  <2>1. acked' = acked
    BY <1>3 DEF Crash, Dies
  <2>2. ASSUME Fails("crash"), UNCHANGED file
        PROVE  Kept'
    <3>1. NothingTorn' => NothingTorn
      BY <2>2, FailsOnly DEF Fault, NothingTorn
    <3> QED
      BY <2>1, <2>2, <3>1 DEF Kept, Whole, OnDisk
  <2>3. ASSUME Fails("torn")
        PROVE  Kept'
    <3>1. ~NothingTorn'
      BY <2>3, FailsOnly DEF Fault, NothingTorn
    <3> QED
      BY <3>1 DEF Kept
  <2>4. ASSUME NEW k \in {"crash", "manifest"}, Fails(k),
               NEW t \in Type, Put(t, NextEntry(t))
        PROVE  Kept'
    <3>1. NothingTorn' => NothingTorn
      BY <2>4, FailsOnly DEF Fault, NothingTorn
    <3>2. /\ \A u : OnDisk(u) => OnDisk(u)'
          /\ Whole => Whole'
      BY <2>4, PutGrows, NextEntryType
    <3> QED
      BY <2>1, <3>1, <3>2 DEF Kept
  <2> QED
    BY <1>3, <2>2, <2>3, <2>4 DEF Crash, disk
<1>4. CASE ReadRaises
  BY <1>1, <1>4 DEF ReadRaises, Dies
<1>5. CASE NewDay
  BY <1>1, <1>5 DEF NewDay, disk
<1>6. ASSUME NEW t \in Type, AppendEntry(t)
      PROVE  Kept'
  <2>1. NothingTorn' => NothingTorn
    BY <1>6 DEF AppendEntry, NothingTorn, OnlyFaults
  <2>2. PICK e : e = NextEntry(t)
    OBVIOUS
  <2>3. e \in Frame /\ e # Torn /\ Put(t, e) /\ acked' = acked \cup {e.uid}
    BY <1>6, <2>2, NextEntryType DEF AppendEntry
  <2>4. /\ \A u : OnDisk(u) => OnDisk(u)'
        /\ OnDisk(e.uid)'
        /\ Whole => Whole'
    BY <2>3, PutGrows
  <2> QED
    BY <2>1, <2>3, <2>4 DEF Kept
<1>7. ASSUME NEW t \in Type, ShortWrite(t)
      PROVE  Kept'
  <2>1. ~NothingTorn'
    BY <1>7, FailsOnly DEF ShortWrite, Fault, NothingTorn
  <2> QED
    BY <2>1 DEF Kept
<1>8. CASE UNCHANGED logVars
  BY <1>1, <1>8 DEF logVars, disk
<1> QED
  BY <1>2, <1>3, <1>4, <1>5, <1>6, <1>7, <1>8 DEF LogNext

LEMMA KeptReadable ==
  ASSUME LogTypeOK, Kept
  PROVE  AckedReadable
<1> SUFFICES ASSUME NothingTorn, NEW u \in acked
             PROVE  \E e \in DecodedAll : e.uid = u
  BY DEF AckedReadable, NothingTorn
<1>1. Whole /\ OnDisk(u)
  BY DEF Kept
<1>2. PICK t \in Type, d \in Day : \E n \in DOMAIN file[t][d] : file[t][d][n].uid = u
  BY <1>1 DEF OnDisk
<1>3. PICK n \in DOMAIN file[t][d] : file[t][d][n].uid = u
  BY <1>2
<1>4. file[t][d] \in Seq(Frame)
  BY DEF LogTypeOK, Day
<1>5. DOMAIN file[t][d] = 1..Len(file[t][d]) /\ Len(file[t][d]) \in Nat /\ n \in Nat
  BY <1>3, <1>4
<1>6. 1..n \subseteq DOMAIN file[t][d]
  BY <1>3, <1>5
<1>7. n \in Readable(file[t][d])
  BY <1>1, <1>3, <1>6 DEF Readable, Whole
<1>8. file[t][d][n] \in Decoded(file[t][d]) /\ file[t][d] \in AllFiles
  BY <1>7 DEF Decoded, AllFiles, Day
<1> QED
  BY <1>3, <1>8 DEF DecodedAll

(* An append that was answered is in the readable part of the files of     *)
(* its type, through rotation, deaths between system calls, damaged        *)
(* manifests and restarts, as long as no frame was written in part         *)
(* (write_entry and decode_entries).                                       *)
THEOREM AckedReadableCorrect == LogSpec => []AckedReadable
<1>1. LogInit => Kept
  BY DEF LogInit, Kept, Whole, OnDisk, Day
<1>2. LogTypeOK /\ Kept /\ [LogNext]_logVars => Kept'
  BY KeptStep
<1>3. LogTypeOK /\ Kept => AckedReadable
  BY KeptReadable
<1> QED
  BY <1>1, <1>2, <1>3, LogTypeCorrect, PTL DEF LogSpec

-----------------------------------------------------------------------------
(* The hash chain.  What a new entry links to is in the process state, so  *)
(* the invariant says what that state knows: after an append since the     *)
(* start, the newest entry of the type, whatever went wrong before; and as *)
(* long as the process was not killed, at all times, through the manifest. *)

LaterDaysEmpty == \A t \in Type, d \in Day : d > day => file[t][d] = <<>>

UidsGiven == \A t \in Type : \A e \in Entries(t) : e.uid \in 1..appended

InOrderAll == \A t \in Type : InOrder(t)

HashSinceStart ==
  \A t \in Type :
    up /\ (\E f \in Entries(t) : f.uid > started) => IsNewest(prevHash[t], Entries(t))

ChainInv == LaterDaysEmpty /\ UidsGiven /\ InOrderAll /\ HashSinceStart

Unkilled == OnlyFaults({"short_write"})

Linked == \A t \in Type : \A e \in Entries(t) :
            IsNewest(e.prev, {f \in Entries(t) : f.uid < e.uid})

Numbered == \A t, u \in Type : \A e \in Entries(t), f \in Entries(u) :
              e.uid < f.uid => e.seq < f.seq

(* What a number and hashes to go on from must be.                         *)
Tip(s, hashes) ==
  \A t \in Type : IsNewest(hashes[t], Entries(t)) /\ \A e \in Entries(t) : e.seq <= s

KnowsTip ==
  /\ up => Tip(seq, prevHash)
  /\ ~up => \/ manifest.kind = "saved" /\ Tip(manifest.seq, manifest.prev)
            \/ manifest.kind = "absent" /\ \A t \in Type : Entries(t) = {}

UnkilledInv == Unkilled => Linked /\ Numbered /\ KnowsTip

LEMMA EntriesAre ==
  ASSUME LogTypeOK, NEW t \in Type
  PROVE  /\ \A e : e \in Entries(t) <=>
              e # Torn /\ \E d \in Day : \E n \in DOMAIN file[t][d] : file[t][d][n] = e
         /\ Entries(t) \subseteq Frame
<1>1. \A e : e \in Entries(t) <=>
        e # Torn /\ \E d \in Day : \E n \in DOMAIN file[t][d] : file[t][d][n] = e
  BY DEF Entries, ToSet, Day
<1>2. ASSUME NEW d \in Day, NEW n \in DOMAIN file[t][d]
      PROVE  file[t][d][n] \in Frame
  <2>1. file[t][d] \in Seq(Frame)
    BY DEF LogTypeOK, Day
  <2> QED
    BY <2>1
<1> QED
  BY <1>1, <1>2

(* A frame put into the file of a type is an entry of it, unless it is     *)
(* partial, and nothing else changes.                                      *)
LEMMA PutEntries ==
  ASSUME LogTypeOK, LogTypeOK', NEW t \in Type, NEW e \in Frame, Put(t, e)
  PROVE  /\ Entries(t)' = Entries(t) \cup ({e} \ {Torn})
         /\ \A u \in Type \ {t} : Entries(u)' = Entries(u)
<1> DEFINE f == file[t][day]
<1>1. f \in Seq(Frame) /\ day \in Day
  BY DEF LogTypeOK, Day
<1>2. ToSet(Append(f, e)) = ToSet(f) \cup {e}
  <2> HIDE DEF f
  <2>1. /\ DOMAIN f = 1..Len(f) /\ Len(f) \in Nat /\ DOMAIN Append(f, e) = 1..(Len(f) + 1)
        /\ \A n \in 1..Len(f) : Append(f, e)[n] = f[n]
        /\ Append(f, e)[Len(f) + 1] = e
    BY <1>1
  <2>2. DOMAIN Append(f, e) = DOMAIN f \cup {Len(f) + 1}
    BY <2>1
  <2>3. ASSUME NEW x \in ToSet(Append(f, e)) PROVE x \in ToSet(f) \cup {e}
    <3>1. PICK n \in DOMAIN Append(f, e) : Append(f, e)[n] = x
      BY <2>3 DEF ToSet
    <3> QED
      BY <2>1, <2>2, <3>1 DEF ToSet
  <2>4. ASSUME NEW x \in ToSet(f) \cup {e} PROVE x \in ToSet(Append(f, e))
    <3>1. CASE x = e
      BY <2>1, <2>2, <3>1 DEF ToSet
    <3>2. CASE x \in ToSet(f)
      <4>1. PICK n \in DOMAIN f : f[n] = x
        BY <3>2 DEF ToSet
      <4>2. n \in DOMAIN Append(f, e) /\ Append(f, e)[n] = x
        BY <2>1, <2>2, <4>1
      <4> QED
        BY <4>2 DEF ToSet
    <3> QED
      BY <2>4, <3>1, <3>2
  <2> QED
    BY <2>3, <2>4
<1>3. file'[t][day] = Append(f, e)
  BY <1>1 DEF LogTypeOK, Put, Day
<1>4. \A s \in Type, d \in Day : (s = t /\ d = day) \/ file'[s][d] = file[s][d]
  BY <1>1 DEF LogTypeOK, Put, Day
<1>5. \A s \in Type : Entries(s) = (UNION {ToSet(file[s][d]) : d \in Day}) \ {Torn}
  BY DEF Entries, Day
<1>6. \A s \in Type : Entries(s)' = (UNION {ToSet(file'[s][d]) : d \in Day}) \ {Torn}
  BY DEF Entries, Day, Torn
<1>7. ASSUME NEW u \in Type \ {t}
      PROVE  Entries(u)' = Entries(u)
  <2>1. \A d \in Day : file'[u][d] = file[u][d]
    BY <1>4, <1>7
  <2>2. {ToSet(file'[u][d]) : d \in Day} = {ToSet(file[u][d]) : d \in Day}
    BY <2>1
  <2> QED
    BY <1>5, <1>6, <1>7, <2>2
<1>8. UNION {ToSet(file'[t][d]) : d \in Day} = (UNION {ToSet(file[t][d]) : d \in Day}) \cup {e}
  <2>1. \A x : x \in UNION {ToSet(file'[t][d]) : d \in Day} <=>
              \E d \in Day : x \in ToSet(file'[t][d])
    OBVIOUS
  <2>2. \A x : x \in UNION {ToSet(file[t][d]) : d \in Day} <=>
              \E d \in Day : x \in ToSet(file[t][d])
    OBVIOUS
  <2>3. ToSet(file'[t][day]) = ToSet(file[t][day]) \cup {e}
    BY <1>2, <1>3
  <2>4. \A d \in Day : d # day => ToSet(file'[t][d]) = ToSet(file[t][d])
    BY <1>4
  <2> QED
    BY <1>1, <2>1, <2>2, <2>3, <2>4
<1> QED
  BY <1>5, <1>6, <1>7, <1>8

LEMMA NewestOfMore ==
  ASSUME NEW F, NEW e, NEW k \in Nat, \A f \in F : f.uid \in 1..k, e.uid = k + 1
  PROVE  IsNewest(e.uid, F \cup {e})
<1>1. \A f \in F \cup {e} : f.uid \in Nat /\ f.uid <= e.uid
  OBVIOUS
<1> QED
  BY <1>1 DEF IsNewest

LEMMA UpToNext ==
  ASSUME NEW n \in Nat, NEW k \in 1..(n + 1)
  PROVE  k \in 1..n \/ k = n + 1
OBVIOUS

(* What a frame put into a file does to the order: it comes last.          *)
LEMMA PutOrder ==
  ASSUME LogTypeOK, LogTypeOK', LaterDaysEmpty, UidsGiven, InOrderAll, day' = day,
         NEW t \in Type, NEW e \in Frame, Put(t, e),
         \/ e = Torn /\ appended' = appended
         \/ e.uid = appended + 1 /\ appended' = appended + 1
  PROVE  LaterDaysEmpty' /\ UidsGiven' /\ InOrderAll'
<1> DEFINE f == file[t][day]
<1>a. file \in [Type -> [Day -> Seq(Frame)]] /\ day \in Day
  BY DEF LogTypeOK, Day
<1>b. f \in Seq(Frame)
  BY <1>a
<1>c. day \in Nat
  BY <1>a DEF Day
<1>1. f \in Seq(Frame) /\ day \in Day /\ day \in Nat
  BY <1>a, <1>b, <1>c
<1>2. /\ DOMAIN f = 1..Len(f) /\ Len(f) \in Nat /\ DOMAIN Append(f, e) = 1..(Len(f) + 1)
      /\ \A n \in 1..Len(f) : Append(f, e)[n] = f[n]
      /\ Append(f, e)[Len(f) + 1] = e
  <2> HIDE DEF f
  <2> QED
    BY <1>1
<1>3. file'[t][day] = Append(f, e)
  BY <1>1 DEF LogTypeOK, Put, Day
<1>4. \A s \in Type, d \in Day : (s = t /\ d = day) \/ file'[s][d] = file[s][d]
  BY <1>1 DEF LogTypeOK, Put, Day
<1>5. LaterDaysEmpty'
  <2> SUFFICES ASSUME NEW s \in Type, NEW d \in Day, d > day
               PROVE  file'[s][d] = <<>>
    BY DEF LaterDaysEmpty, Day
  <2>1. d # day
    BY <1>1 DEF Day
  <2> QED
    BY <1>4, <2>1 DEF LaterDaysEmpty
<1>6. UidsGiven'
  <2> SUFFICES ASSUME NEW s \in Type, NEW x \in Entries(s)'
               PROVE  x.uid \in 1..appended'
    BY DEF UidsGiven
  <2>1. appended \in Nat /\ appended' \in Nat /\ appended <= appended'
    BY DEF LogTypeOK
  <2>2. x \in Entries(s) \/ (x = e /\ e # Torn)
    BY PutEntries
  <2>3. CASE x \in Entries(s)
    <3>1. x.uid \in 1..appended
      BY <2>3 DEF UidsGiven
    <3> QED
      BY <2>1, <3>1
  <2>4. CASE x = e /\ e # Torn
    BY <2>1, <2>4
  <2> QED
    BY <2>2, <2>3, <2>4
<1>7. InOrderAll'
  <2> SUFFICES ASSUME NEW s \in Type, NEW c \in Day, NEW d \in Day,
                      NEW m \in DOMAIN file'[s][c], NEW n \in DOMAIN file'[s][d],
                      c < d \/ (c = d /\ m < n),
                      file'[s][c][m] # Torn, file'[s][d][n] # Torn
               PROVE  file'[s][c][m].uid < file'[s][d][n].uid
    BY DEF InOrderAll, InOrder, Day, Torn
  <2> DEFINE New(b, k) == s = t /\ b = day /\ k = Len(f) + 1
             Old(b, k) == k \in DOMAIN file[s][b] /\ file'[s][b][k] = file[s][b][k]
  <2>0. c \in Nat /\ d \in Nat
    BY DEF Day
  <2>1. ASSUME NEW b \in Day, NEW k \in DOMAIN file'[s][b]
        PROVE  New(b, k) \/ Old(b, k)
    <3>1. CASE s = t /\ b = day
      <4>1. k \in 1..(Len(f) + 1) /\ k \in Nat
        BY <1>2, <1>3, <3>1
      <4>2. k \in 1..Len(f) \/ k = Len(f) + 1
        BY <4>1, <1>2, UpToNext
      <4> QED
        BY <1>2, <1>3, <3>1, <4>2
    <3>2. CASE file'[s][b] = file[s][b]
      BY <3>2
    <3> QED
      BY <1>4, <3>1, <3>2
  <2>2. CASE Old(c, m) /\ Old(d, n)
    <3>1. InOrder(s)
      BY DEF InOrderAll
    <3> QED
      BY <2>2, <3>1 DEF InOrder, Day
  <2>3. CASE Old(c, m) /\ New(d, n)
    <3>1. file[s][c][m] \in Entries(s)
      BY <2>3, EntriesAre
    <3>2. file[s][c][m].uid \in 1..appended
      BY <3>1 DEF UidsGiven
    <3>3. file'[s][d][n] = e /\ e.uid = appended + 1
      BY <1>2, <1>3, <2>3
    <3>4. appended \in Nat
      BY DEF LogTypeOK
    <3> QED
      BY <2>3, <3>2, <3>3, <3>4
  <2>4. CASE New(c, m)
    <3>1. CASE c < d
      <4>1. d # day /\ file[s][d] = <<>>
        BY <2>0, <2>4, <3>1, <1>1 DEF LaterDaysEmpty
      <4>2. file'[s][d] = <<>>
        BY <1>4, <4>1
      <4> QED
        BY <4>2
    <3>2. CASE c = d /\ m < n
      <4>1. n \in 1..(Len(f) + 1)
        BY <1>2, <1>3, <2>4, <3>2
      <4> QED
        BY <4>1, <1>2, <2>4, <3>2
    <3> QED
      BY <3>1, <3>2
  <2> HIDE DEF New, Old
  <2> QED
    BY <2>1, <2>2, <2>3, <2>4
<1> QED
  BY <1>5, <1>6, <1>7

(* Every step puts the next entry or a partial frame of one type on disk,  *)
(* or nothing.                                                             *)
PutsNext(t) == Put(t, NextEntry(t)) /\ appended' = appended + 1 /\ day' = day
PutsTorn(t) == Put(t, Torn) /\ UNCHANGED <<appended, day>>

LEMMA StepPuts ==
  ASSUME [LogNext]_logVars
  PROVE  \/ \E t \in Type : PutsNext(t) \/ PutsTorn(t)
         \/ UNCHANGED <<file, appended>>
<1>1. CASE Start
  BY <1>1 DEF Start, disk
<1>2. CASE Crash
  BY <1>2 DEF Crash, Dies, disk, PutsNext, PutsTorn
<1>3. CASE ReadRaises
  BY <1>3 DEF ReadRaises
<1>4. CASE NewDay
  BY <1>4 DEF NewDay, disk
<1>5. ASSUME NEW t \in Type, AppendEntry(t)
      PROVE  PutsNext(t)
  BY <1>5 DEF AppendEntry, PutsNext, NextEntry
<1>6. ASSUME NEW t \in Type, ShortWrite(t)
      PROVE  PutsTorn(t)
  BY <1>6 DEF ShortWrite, PutsTorn
<1>7. CASE UNCHANGED logVars
  BY <1>7 DEF logVars, disk
<1> QED
  BY <1>1, <1>2, <1>3, <1>4, <1>5, <1>6, <1>7 DEF LogNext

LEMMA EntriesUnchanged ==
  ASSUME file' = file, NEW t \in Type
  PROVE  Entries(t)' = Entries(t)
BY DEF Entries, Torn

LEMMA PutsNextEntries ==
  ASSUME LogTypeOK, LogTypeOK', NEW t \in Type, PutsNext(t), NEW e, e = NextEntry(t)
  PROVE  /\ Entries(t)' = Entries(t) \cup {e}
         /\ \A u \in Type \ {t} : Entries(u)' = Entries(u)
         /\ e \in Frame /\ e.uid = appended + 1 /\ e.seq = seq + 1 /\ e.prev = prevHash[t]
<1>1. e \in Frame /\ e # Torn /\ e.uid = appended + 1
  BY NextEntryType
<1>2. Put(t, e)
  BY DEF PutsNext
<1>3. e.seq = seq + 1 /\ e.prev = prevHash[t]
  BY DEF NextEntry
<1> QED
  BY <1>1, <1>2, <1>3, PutEntries

LEMMA PutsTornEntries ==
  ASSUME LogTypeOK, LogTypeOK', NEW t \in Type, PutsTorn(t), NEW u \in Type
  PROVE  Entries(u)' = Entries(u)
<1>1. PICK e : e = Torn
  OBVIOUS
<1>2. e \in Frame /\ Put(t, e)
  BY <1>1, TornType DEF PutsTorn
<1> QED
  BY <1>1, <1>2, PutEntries

LEMMA OrderStep ==
  ASSUME LogTypeOK, LogTypeOK', LaterDaysEmpty, UidsGiven, InOrderAll, [LogNext]_logVars
  PROVE  LaterDaysEmpty' /\ UidsGiven' /\ InOrderAll'
<1>1. ASSUME NEW t \in Type, PutsNext(t)
      PROVE  LaterDaysEmpty' /\ UidsGiven' /\ InOrderAll'
  <2>1. PICK e : e = NextEntry(t)
    OBVIOUS
  <2>2. e \in Frame /\ e.uid = appended + 1 /\ Put(t, e)
    BY <1>1, <2>1, NextEntryType DEF PutsNext
  <2> QED
    BY <1>1, <2>2, PutOrder DEF PutsNext
<1>2. ASSUME NEW t \in Type, PutsTorn(t)
      PROVE  LaterDaysEmpty' /\ UidsGiven' /\ InOrderAll'
  <2>1. PICK e : e = Torn
    OBVIOUS
  <2>2. e \in Frame /\ Put(t, e)
    BY <1>2, <2>1, TornType DEF PutsTorn
  <2> QED
    BY <1>2, <2>1, <2>2, PutOrder DEF PutsTorn
<1>3. CASE UNCHANGED <<file, appended>>
  <2>1. day' \in Nat /\ day <= day'
    <3>1. day' = day \/ day' = day + 1
      BY DEF LogNext, Start, Crash, Dies, ReadRaises, NewDay, AppendEntry, ShortWrite, logVars
    <3>2. day \in Nat
      BY DEF LogTypeOK
    <3> QED
      BY <3>1, <3>2
  <2>2. LaterDaysEmpty'
    <3>1. day \in Nat
      BY DEF LogTypeOK
    <3> QED
      BY <1>3, <2>1, <3>1 DEF LaterDaysEmpty, Day
  <2>3. UidsGiven' /\ InOrderAll'
    BY <1>3, EntriesUnchanged DEF UidsGiven, InOrderAll, InOrder, Torn
  <2> QED
    BY <2>2, <2>3
<1> QED
  BY <1>1, <1>2, <1>3, StepPuts

LEMMA HashStep ==
  ASSUME LogTypeOK, LogTypeOK', UidsGiven, HashSinceStart, [LogNext]_logVars
  PROVE  HashSinceStart'
<1>1. ASSUME \A t \in Type : Entries(t)' = Entries(t), UNCHANGED <<up, memory>>
      PROVE  HashSinceStart'
  BY <1>1 DEF HashSinceStart, memory
<1>2. CASE Start
  <2>1. \A t \in Type : Entries(t)' = Entries(t)
    BY <1>2, EntriesUnchanged DEF Start, disk
  <2>2. started' = appended /\ appended \in Nat
    BY <1>2 DEF Start, LogTypeOK
  <2>3. \A t \in Type : \A f \in Entries(t) : ~(f.uid > started')
    BY <2>2 DEF UidsGiven
  <2> QED
    BY <2>1, <2>3 DEF HashSinceStart
<1>3. CASE Crash \/ ReadRaises
  BY <1>3 DEF Crash, ReadRaises, Dies, HashSinceStart
<1>4. CASE NewDay
  BY <1>1, <1>4, EntriesUnchanged DEF NewDay, disk
<1>5. ASSUME NEW t \in Type, AppendEntry(t)
      PROVE  HashSinceStart'
  <2>1. PICK e : e = NextEntry(t)
    OBVIOUS
  <2>2. PutsNext(t)
    BY <1>5 DEF AppendEntry, PutsNext, NextEntry
  <2>3. /\ Entries(t)' = Entries(t) \cup {e}
        /\ \A u \in Type \ {t} : Entries(u)' = Entries(u)
        /\ e.uid = appended + 1
    BY <2>1, <2>2, PutsNextEntries
  <2>4. prevHash' = [prevHash EXCEPT ![t] = e.uid] /\ UNCHANGED <<up, started>>
    BY <1>5, <2>1 DEF AppendEntry
  <2>5. prevHash'[t] = e.uid /\ \A u \in Type \ {t} : prevHash'[u] = prevHash[u]
    BY <2>4 DEF LogTypeOK
  <2>6. appended \in Nat
    BY DEF LogTypeOK
  <2>7. IsNewest(e.uid, Entries(t) \cup {e})
    BY <2>3, <2>6, NewestOfMore DEF UidsGiven
  <2> QED
    BY <2>3, <2>4, <2>5, <2>7 DEF HashSinceStart
<1>6. ASSUME NEW t \in Type, ShortWrite(t)
      PROVE  HashSinceStart'
  <2>1. PutsTorn(t) /\ UNCHANGED <<up, memory>>
    BY <1>6 DEF ShortWrite, PutsTorn
  <2> QED
    BY <1>1, <2>1, PutsTornEntries
<1>7. CASE UNCHANGED logVars
  BY <1>1, <1>7, EntriesUnchanged DEF logVars, disk
<1> QED
  BY <1>2, <1>3, <1>4, <1>5, <1>6, <1>7 DEF LogNext

LEMMA ChainInit ==
  ASSUME LogInit
  PROVE  /\ ChainInv /\ UnkilledInv
         /\ \A t \in Type : Entries(t) = {}
<1>1. LogTypeOK
  BY TypeInit
<1>2. \A t \in Type, d \in Day : file[t][d] = <<>>
  BY DEF LogInit, Day
<1>3. ASSUME NEW t \in Type
      PROVE  Entries(t) = {}
  BY <1>1, <1>2, EntriesAre
<1>4. LaterDaysEmpty /\ UidsGiven /\ HashSinceStart
  BY <1>2, <1>3 DEF LaterDaysEmpty, UidsGiven, HashSinceStart
<1>5. InOrderAll
  BY <1>2 DEF InOrderAll, InOrder, Day
<1>6. ~up /\ manifest.kind = "absent"
  BY DEF LogInit, NoManifest
<1>7. Linked /\ Numbered /\ KnowsTip
  BY <1>3, <1>6 DEF Linked, Numbered, KnowsTip
<1> QED
  BY <1>3, <1>4, <1>5, <1>7 DEF ChainInv, UnkilledInv

LEMMA ChainStep ==
  ASSUME LogTypeOK, LogTypeOK', ChainInv, [LogNext]_logVars
  PROVE  ChainInv'
BY OrderStep, HashStep DEF ChainInv

LEMMA LinksStep ==
  ASSUME LogTypeOK, LogTypeOK', ChainInv, [LogNext]_logVars
  PROVE  LinksToNewest
<1> SUFFICES ASSUME NEW t \in Type, up, \E f \in Entries(t) : f.uid > started,
                    NEW x \in Entries(t)' \ Entries(t)
             PROVE  IsNewest(x.prev, Entries(t))
  BY DEF LinksToNewest
<1>1. IsNewest(prevHash[t], Entries(t))
  BY DEF ChainInv, HashSinceStart
<1>2. ASSUME NEW s \in Type, PutsNext(s)
      PROVE  IsNewest(x.prev, Entries(t))
  <2>1. PICK e : e = NextEntry(s)
    OBVIOUS
  <2>2. /\ Entries(s)' = Entries(s) \cup {e}
        /\ \A u \in Type \ {s} : Entries(u)' = Entries(u)
        /\ e.prev = prevHash[s]
    BY <1>2, <2>1, PutsNextEntries
  <2>3. s = t /\ x = e
    BY <2>2
  <2> QED
    BY <1>1, <2>2, <2>3
<1>3. ASSUME NEW s \in Type, PutsTorn(s)
      PROVE  FALSE
  BY <1>3, PutsTornEntries
<1>4. CASE UNCHANGED <<file, appended>>
  BY <1>4, EntriesUnchanged
<1> QED
  BY <1>2, <1>3, <1>4, StepPuts

(* After a start, the entries of a type written since then are linked to   *)
(* the newest one before each of them, whatever fault came in between      *)
(* (handle_call({:append, ...}), prev_hashes): the chain can break only at *)
(* the first one.                                                          *)
THEOREM BreaksOnlyAtStartCorrect == LogSpec => BreaksOnlyAtStart
<1>1. LogInit => ChainInv
  BY ChainInit
<1>2. LogTypeOK /\ LogTypeOK' /\ ChainInv /\ [LogNext]_logVars => ChainInv'
  BY ChainStep
<1>3. LogTypeOK /\ LogTypeOK' /\ ChainInv /\ [LogNext]_logVars => [LinksToNewest]_logVars
  BY LinksStep
<1> QED
  BY <1>1, <1>2, <1>3, LogTypeCorrect, PTL DEF LogSpec, BreaksOnlyAtStart

-----------------------------------------------------------------------------
(* While the process is not killed.                                        *)

LEMMA UnkilledBefore ==
  ASSUME LogTypeOK, [LogNext]_logVars, Unkilled'
  PROVE  Unkilled /\ ~Crash
<1>1. ASSUME NEW k \in Fault, Fails(k)
      PROVE  Unkilled /\ k = "short_write"
  BY <1>1, FailsOnly DEF Unkilled
<1>2. ~Crash
  BY <1>1 DEF Crash, Fault
<1>3. faults' = faults \/ Fails("short_write")
  BY <1>2 DEF LogNext, Start, ReadRaises, NewDay, AppendEntry, ShortWrite, logVars
<1>4. CASE faults' = faults
  BY <1>2, <1>4 DEF Unkilled, OnlyFaults
<1>5. CASE Fails("short_write")
  BY <1>1, <1>2, <1>5 DEF Fault
<1> QED
  BY <1>2, <1>3, <1>4, <1>5

LEMMA UnkilledStep ==
  ASSUME LogTypeOK, LogTypeOK', UidsGiven, UnkilledInv, [LogNext]_logVars
  PROVE  UnkilledInv'
<1> SUFFICES ASSUME Unkilled'
             PROVE  Linked' /\ Numbered' /\ KnowsTip'
  BY DEF UnkilledInv
<1>0. Linked /\ Numbered /\ KnowsTip /\ ~Crash
  BY UnkilledBefore DEF UnkilledInv
<1>1. ASSUME \A t \in Type : Entries(t)' = Entries(t)
      PROVE  Linked' /\ Numbered'
  BY <1>0, <1>1 DEF Linked, Numbered
<1>2. ASSUME \A t \in Type : Entries(t)' = Entries(t), UNCHANGED <<up, memory, manifest>>
      PROVE  KnowsTip'
  BY <1>0, <1>2 DEF KnowsTip, Tip, memory
<1>3. CASE Start
  <2>1. \A t \in Type : Entries(t)' = Entries(t)
    BY <1>3, EntriesUnchanged DEF Start, disk
  <2>2. ~up /\ up'
    BY <1>3 DEF Start
  <2>3. Tip(seq', prevHash')
    <3>1. CASE manifest.kind = "saved" /\ Tip(manifest.seq, manifest.prev)
      BY <1>3, <3>1 DEF Start
    <3>2. CASE manifest.kind = "absent" /\ \A t \in Type : Entries(t) = {}
      <4>1. prevHash' = Zero
        BY <1>3, <3>2 DEF Start
      <4> QED
        BY <3>2, <4>1 DEF Tip, IsNewest, Zero
    <3> QED
      BY <1>0, <2>2, <3>1, <3>2 DEF KnowsTip
  <2>4. KnowsTip'
    BY <2>1, <2>2, <2>3 DEF KnowsTip, Tip
  <2> QED
    BY <1>1, <2>1, <2>4
<1>4. CASE ReadRaises
  <2>1. \A t \in Type : Entries(t)' = Entries(t)
    BY <1>4, EntriesUnchanged DEF ReadRaises
  <2>2. up /\ ~up' /\ manifest' = Saved(seq, prevHash)
    BY <1>4 DEF ReadRaises, Dies
  <2>3. manifest'.kind = "saved" /\ manifest'.seq = seq /\ manifest'.prev = prevHash
    BY <2>2 DEF Saved
  <2>4. KnowsTip'
    BY <1>0, <2>1, <2>2, <2>3 DEF KnowsTip, Tip
  <2> QED
    BY <1>1, <2>1, <2>4
<1>5. CASE NewDay
  BY <1>1, <1>2, <1>5, EntriesUnchanged DEF NewDay, disk
<1>6. ASSUME NEW t \in Type, ShortWrite(t)
      PROVE  Linked' /\ Numbered' /\ KnowsTip'
  <2>1. PutsTorn(t) /\ UNCHANGED <<up, memory, manifest>>
    BY <1>6 DEF ShortWrite, PutsTorn
  <2> QED
    BY <1>1, <1>2, <2>1, PutsTornEntries
<1>7. CASE UNCHANGED logVars
  BY <1>1, <1>2, <1>7, EntriesUnchanged DEF logVars, disk
<1>8. ASSUME NEW t \in Type, AppendEntry(t)
      PROVE  Linked' /\ Numbered' /\ KnowsTip'
  <2>1. PICK e : e = NextEntry(t)
    OBVIOUS
  <2>2. PutsNext(t)
    BY <1>8 DEF AppendEntry, PutsNext, NextEntry
  <2>3. /\ Entries(t)' = Entries(t) \cup {e}
        /\ \A u \in Type \ {t} : Entries(u)' = Entries(u)
        /\ e \in Frame /\ e.uid = appended + 1 /\ e.seq = seq + 1 /\ e.prev = prevHash[t]
    BY <2>1, <2>2, PutsNextEntries
  <2>4. prevHash' = [prevHash EXCEPT ![t] = e.uid] /\ seq' = e.seq /\ up /\ up'
    BY <1>8, <2>1 DEF AppendEntry
  <2>5. prevHash'[t] = e.uid /\ \A u \in Type \ {t} : prevHash'[u] = prevHash[u]
    BY <2>4 DEF LogTypeOK
  <2>6. appended \in Nat /\ seq \in Nat
    BY DEF LogTypeOK
  <2>7. Tip(seq, prevHash)
    BY <1>0, <2>4 DEF KnowsTip
  <2>8. \A u \in Type : \A f \in Entries(u) : f.uid \in 1..appended /\ f.seq \in Nat
    BY EntriesAre DEF UidsGiven, Frame
  <2>9. Linked'
    <3> SUFFICES ASSUME NEW u \in Type, NEW x \in Entries(u)'
                 PROVE  IsNewest(x.prev, {f \in Entries(u)' : f.uid < x.uid})
      BY DEF Linked, IsNewest
    <3>1. CASE u # t
      BY <1>0, <2>3, <3>1 DEF Linked
    <3>2. CASE u = t /\ x \in Entries(t)
      <4>1. ~(e.uid < x.uid)
        BY <2>3, <2>6, <2>8, <3>2
      <4>2. {f \in Entries(t)' : f.uid < x.uid} = {f \in Entries(t) : f.uid < x.uid}
        BY <2>3, <4>1
      <4> QED
        BY <1>0, <3>2, <4>2 DEF Linked
    <3>3. CASE u = t /\ x = e
      <4>1. ~(e.uid < e.uid) /\ \A f \in Entries(t) : f.uid < e.uid
        BY <2>3, <2>6, <2>8
      <4>2. {f \in Entries(t)' : f.uid < e.uid} = Entries(t)
        BY <2>3, <4>1
      <4>3. IsNewest(prevHash[t], Entries(t))
        BY <2>7 DEF Tip
      <4> QED
        BY <2>3, <3>3, <4>2, <4>3
    <3> QED
      BY <2>3, <3>1, <3>2, <3>3
  <2>10. Numbered'
    <3> SUFFICES ASSUME NEW u \in Type, NEW v \in Type, NEW x \in Entries(u)',
                        NEW y \in Entries(v)', x.uid < y.uid
                 PROVE  x.seq < y.seq
      BY DEF Numbered
    <3>1. (x = e \/ x \in Entries(u)) /\ (y = e \/ y \in Entries(v))
      BY <2>3
    <3>2. CASE x \in Entries(u) /\ y \in Entries(v)
      BY <1>0, <3>2 DEF Numbered
    <3>3. CASE x = e
      BY <2>3, <2>6, <2>8, <3>1, <3>3
    <3>4. CASE x \in Entries(u) /\ y = e
      <4>1. x.seq <= seq
        BY <2>7, <3>4 DEF Tip
      <4> QED
        BY <2>3, <2>6, <2>8, <3>4, <4>1
    <3> QED
      BY <3>1, <3>2, <3>3, <3>4
  <2>11. ASSUME NEW u \in Type
         PROVE  IsNewest(prevHash'[u], Entries(u)') /\ \A f \in Entries(u)' : f.seq <= seq'
    <3>1. IsNewest(e.uid, Entries(t) \cup {e})
      BY <2>3, <2>6, <2>8, NewestOfMore
    <3>2. IsNewest(prevHash[u], Entries(u)) /\ \A f \in Entries(u) : f.seq <= seq
      BY <2>7 DEF Tip
    <3>3. IsNewest(prevHash'[u], Entries(u)')
      BY <2>3, <2>5, <3>1, <3>2
    <3>4. seq' = seq + 1
      BY <2>3, <2>4
    <3>5. ASSUME NEW f \in Entries(u)'
          PROVE  f.seq <= seq'
      <4>1. CASE f \in Entries(u)
        BY <2>6, <2>8, <3>2, <3>4, <4>1
      <4>2. CASE f = e
        BY <2>3, <2>6, <3>4, <4>2
      <4> QED
        BY <2>3, <4>1, <4>2
    <3> QED
      BY <3>3, <3>5
  <2>12. KnowsTip'
    BY <2>4, <2>11 DEF KnowsTip, Tip, IsNewest
  <2> QED
    BY <2>9, <2>10, <2>12
<1> QED
  BY <1>0, <1>3, <1>4, <1>5, <1>6, <1>7, <1>8 DEF LogNext

LEMMA ChainInvariant == LogSpec => [](ChainInv /\ UnkilledInv)
<1>1. LogInit => ChainInv /\ UnkilledInv
  BY ChainInit
<1>2. LogTypeOK /\ LogTypeOK' /\ ChainInv /\ UnkilledInv /\ [LogNext]_logVars => ChainInv' /\ UnkilledInv'
  BY ChainStep, UnkilledStep DEF ChainInv
<1> QED
  BY <1>1, <1>2, LogTypeCorrect, PTL DEF LogSpec

(* Unless the process is killed, each entry on disk carries the hash of    *)
(* the one before it of its type, in the order of the files, through       *)
(* rotation, failed writes and restarts after a callback that raised       *)
(* (handle_call({:append, ...}), terminate and load_manifest).             *)
THEOREM ChainLinkedCorrect == LogSpec => []ChainLinked
<1>1. ChainInv /\ UnkilledInv => ChainLinked
  BY DEF ChainInv, InOrderAll, UnkilledInv, Unkilled, Linked, ChainLinked
<1> QED
  BY <1>1, ChainInvariant, PTL

(* ... and the sequence numbers over all types grow in the order of        *)
(* writing.                                                                *)
THEOREM SeqIsOrderCorrect == LogSpec => []SeqIsOrder
<1>1. UnkilledInv => SeqIsOrder
  BY DEF UnkilledInv, Unkilled, Numbered, SeqIsOrder
<1> QED
  BY <1>1, ChainInvariant, PTL
=============================================================================
