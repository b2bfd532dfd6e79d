------------------------- MODULE ContractReviewProofs -------------------------
(***************************************************************************)
(* Proofs about ContractReview, for any sets of contracts, keys, clients   *)
(* and reviewers.                                                          *)
(***************************************************************************)
EXTENDS ContractReview, TLAPS

(* A status and the reviewer it is written with by LegalReview and the     *)
(* seed loader.                                                            *)
Decision(new, who) ==
  \/ new = "pending_review" /\ who = None
  \/ new \in {"approved", "rejected"} /\ who \in Reviewer

(* Everything a step can do to the Store's tables.                         *)
StoreStep ==
  \/ \E i \in Id, k \in Key, b \in BOOLEAN, p \in Id \cup {None}, q \in BOOLEAN :
       Ingest(i, k, b, p, q, None)
  \/ \E i \in Id, new \in Status, who \in Reviewer \cup {None} :
       Decision(new, who) /\ UpdateStatus(i, new, who)
  \/ \E k \in Key : UpdateOpenPosition(k)
  \/ \E i \in Id, r \in SapState \ {"none"} : UpdateSapValidation(i, r)
  \/ \E i \in Id, v \in Verdict : UpdateCheck(i, v)
  \/ Restart
  \/ UNCHANGED storeVars

(* The newest id of an index entry is an id.                               *)
LEMMA LatestType ==
  ASSUME TypeOK, NEW k \in Key
  PROVE  Latest(k) \in Id \cup {None}
<1>1. index[k] \in Seq(Id)
  BY DEF TypeOK, StoreTypeOK
<1>2. CASE index[k] = <<>>
  BY <1>2 DEF Latest
<1>3. CASE index[k] # <<>>
  <2>1. Len(index[k]) \in 1..Len(index[k])
    BY <1>1, <1>3
  <2>. QED  BY <1>1, <1>3, <2>1 DEF Latest
<1>. QED  BY <1>2, <1>3

(* A session about a contract holds an id.                                 *)
LEMMA SessionId ==
  ASSUME TypeOK, NEW c \in Client, session[c].op \in ContractOp
  PROVE  session[c].id \in Id
BY DEF TypeOK, Session, ContractOp

LEMMA SessionKey ==
  ASSUME TypeOK, NEW c \in Client, session[c].op = "ingest"
  PROVE  session[c].key \in Key /\ session[c].prev \in Id \cup {None}
BY DEF TypeOK, Session, ContractOp

LEMMA AboutType ==
  ASSUME NEW op \in ContractOp, NEW i \in Id
  PROVE  About(op, i) \in Session
BY DEF About, IdleSession, Session

LEMMA IdleType == IdleSession \in Session
BY DEF IdleSession, Session

(* A step of the composition is a step of the Store and keeps the clients' *)
(* sessions well formed.                                                   *)
LEMMA SettleIsStoreStep ==
  ASSUME TypeOK, NEW c \in Client, NEW op \in ContractOp,
         NEW new \in Status, NEW who \in Reviewer \cup {None},
         Decision(new, who), SettleStatus(c, op, new, who)
  PROVE  StoreStep /\ session' \in [Client -> Session] /\ expired' \in SUBSET Id
<1>1. session[c].id \in Id
  BY SessionId DEF SettleStatus
<1>2. StoreStep
  BY <1>1 DEF SettleStatus, StoreStep
<1>3. session' \in [Client -> Session] /\ expired' \in SUBSET Id
  BY IdleType DEF SettleStatus, Finish, TypeOK
<1>. QED  BY <1>2, <1>3

LEMMA BeginIsStoreStep ==
  ASSUME TypeOK, NEW c \in Client, NEW s \in Session, Begin(c, s)
  PROVE  StoreStep /\ session' \in [Client -> Session] /\ expired' \in SUBSET Id
BY DEF Begin, StoreStep, TypeOK

LEMMA ClientIsStoreStep ==
  ASSUME TypeOK, ReviewAssumption, NEW c \in Client, ClientStep(c)
  PROVE  StoreStep /\ session' \in [Client -> Session] /\ expired' \in SUBSET Id
<1>. DEFINE Goal == StoreStep /\ session' \in [Client -> Session] /\ expired' \in SUBSET Id
<1>. c \in Reviewer /\ SeedLoader \in Reviewer
  BY DEF ReviewAssumption
<1>1. ASSUME NEW i \in Id, SubmitRead(c, i) PROVE Goal
  BY <1>1, BeginIsStoreStep, AboutType DEF SubmitRead, ContractOp
<1>2. ASSUME NEW i \in Id, ApproveRead(c, i) PROVE Goal
  BY <1>2, BeginIsStoreStep, AboutType DEF ApproveRead, ContractOp
<1>3. ASSUME NEW i \in Id, RejectRead(c, i) PROVE Goal
  BY <1>3, BeginIsStoreStep, AboutType DEF RejectRead, ContractOp
<1>4. ASSUME NEW i \in Id, ValidateRead(c, i) PROVE Goal
  BY <1>4, BeginIsStoreStep, AboutType DEF ValidateRead, ContractOp
<1>5. ASSUME NEW k \in Key, IngestRead(c, k) PROVE Goal
  <2>. DEFINE s == [op |-> "ingest", id |-> None, key |-> k, prev |-> Latest(k)]
  <2>1. s \in Session
    BY LatestType DEF Session
  <2>. QED  BY <1>5, <2>1, BeginIsStoreStep DEF IngestRead
<1>6. ASSUME NEW k \in Key, SeedIngest(c, k) PROVE Goal
  <2>1. PICK i \in Id, b \in BOOLEAN :
          /\ Ingest(i, k, b, None, TRUE, None)
          /\ session' = [session EXCEPT ![c] = About("seed_submit", i)]
    BY <1>6 DEF SeedIngest
  <2>2. StoreStep
    BY <2>1 DEF StoreStep
  <2>. QED  BY <1>6, <2>1, <2>2, AboutType DEF SeedIngest, ContractOp, TypeOK
<1>7. CASE SubmitWrite(c)
  BY <1>7, SettleIsStoreStep DEF SubmitWrite, ContractOp, Decision, Status
<1>8. CASE ApproveWrite(c)
  BY <1>8, SettleIsStoreStep DEF ApproveWrite, ContractOp, Decision, Status
<1>9. CASE RejectWrite(c)
  BY <1>9, SettleIsStoreStep DEF RejectWrite, ContractOp, Decision, Status
<1>10. CASE ValidateWrite(c)
  <2>1. session[c].id \in Id
    BY <1>10, SessionId DEF ValidateWrite, ContractOp
  <2>2. StoreStep
    BY <1>10, <2>1 DEF ValidateWrite, StoreStep, ReviewAssumption
  <2>. QED  BY <1>10, <2>2, IdleType DEF ValidateWrite, Finish, TypeOK
<1>11. CASE IngestWrite(c)
  <2>1. session[c].key \in Key /\ session[c].prev \in Id \cup {None}
    BY <1>11, SessionKey DEF IngestWrite
  <2>2. StoreStep
    BY <1>11, <2>1 DEF IngestWrite, StoreStep
  <2>. QED  BY <1>11, <2>2, IdleType DEF IngestWrite, Finish, TypeOK
<1>12. CASE SeedSubmit(c)
  <2>1. session[c].id \in Id
    BY <1>12, SessionId DEF SeedSubmit, ContractOp
  <2>2. StoreStep
    BY <1>12, <2>1 DEF SeedSubmit, StoreStep, Decision, Status
  <2>. QED  BY <1>12, <2>1, <2>2, AboutType DEF SeedSubmit, ContractOp, TypeOK
<1>13. CASE SeedApprove(c)
  BY <1>13, SettleIsStoreStep DEF SeedApprove, ContractOp, Decision, Status
<1>. QED
  BY <1>1, <1>2, <1>3, <1>4, <1>5, <1>6, <1>7, <1>8, <1>9, <1>10, <1>11,
     <1>12, <1>13 DEF ClientStep

LEMMA NextIsStoreStep ==
  ASSUME TypeOK, ReviewAssumption, [Next]_vars
  PROVE  StoreStep /\ session' \in [Client -> Session] /\ expired' \in SUBSET Id
<1>. USE DEF TypeOK
<1>1. ASSUME NEW c \in Client, ClientStep(c)
      PROVE  StoreStep /\ session' \in [Client -> Session] /\ expired' \in SUBSET Id
  BY <1>1, ClientIsStoreStep
<1>2. CASE \E k \in Key : PipelineIngest(k)
  BY <1>2 DEF PipelineIngest, StoreStep
<1>3. CASE Annotate
  BY <1>3 DEF Annotate, StoreStep
<1>4. CASE \E i \in Id : Expire(i)
  BY <1>4 DEF Expire, StoreStep
<1>5. CASE StoreRestart
  BY <1>5 DEF StoreRestart, StoreStep
<1>6. CASE UNCHANGED vars
  BY <1>6 DEF vars, storeVars, StoreStep
<1>. QED  BY <1>1, <1>2, <1>3, <1>4, <1>5, <1>6 DEF Next

-----------------------------------------------------------------------------
(* TYPE CORRECTNESS                                                        *)

LEMMA SnapshotType ==
  ASSUME NEW c \in Contract
  PROVE  SnapshotOf(c) \in Snapshot
BY DEF SnapshotOf, Snapshot, Contract

LEMMA IngestType ==
  ASSUME StoreTypeOK, NEW i \in Id, NEW k \in Key, NEW b \in BOOLEAN,
         NEW p \in Id \cup {None}, NEW q \in BOOLEAN, Ingest(i, k, b, p, q, None)
  PROVE  StoreTypeOK'
<1>. DEFINE c == [ key |-> k, version |-> Len(index[k]) + 1, status |-> "draft",
                   clauses |-> b, prev |-> p, sap |-> "none",
                   reviewer |-> None, position |-> q, check |-> None ]
<1>1. index[k] \in Seq(Id)
  BY DEF StoreTypeOK
<1>2. Len(index[k]) + 1 \in Nat \ {0} /\ Append(index[k], i) \in Seq(Id)
  BY <1>1
<1>3. c \in Contract
  BY <1>2 DEF Contract, Status, SapState
<1>4. SnapshotOf(c) \in Snapshot
  BY <1>3, SnapshotType
<1>. HIDE DEF c
<1>5. /\ contracts' = [contracts EXCEPT ![i] = c]
      /\ index' = [index EXCEPT ![k] = Append(@, i)]
      /\ logged' = [logged EXCEPT ![i] = SnapshotOf(c)]
      /\ active' = active
  BY DEF Ingest, c
<1>. QED  BY <1>2, <1>3, <1>4, <1>5 DEF StoreTypeOK

(* The record an update of the status writes is a contract.                *)
LEMMA UpdateStatusType ==
  ASSUME StoreTypeOK, NEW i \in Id, NEW new \in Status,
         NEW who \in Reviewer \cup {None}, UpdateStatus(i, new, who)
  PROVE  StoreTypeOK'
<1>. DEFINE c == [contracts[i] EXCEPT !.status = new, !.reviewer = who]
            d(j) == [contracts[j] EXCEPT !.status = "superseded"]
<1>1. contracts[i] \in Contract
  BY DEF UpdateStatus, Accepts, Stored, StoreTypeOK
<1>2. c \in Contract /\ c.key \in Key
  BY <1>1 DEF Contract
<1>3. SnapshotOf(c) \in Snapshot
  BY <1>2, SnapshotType
<1>4. ASSUME NEW j \in Displaced(i, new) PROVE d(j) \in Contract
  <2>1. j \in Id /\ contracts[j] \in Contract
    BY <1>4 DEF Displaced, Stored, StoreTypeOK
  <2>. QED  BY <2>1 DEF Contract, Status
<1>. HIDE DEF c, d
<1>5. /\ contracts' = [j \in Id |-> IF j = i THEN c ELSE
                           IF j \in Displaced(i, new) THEN d(j) ELSE contracts[j]]
      /\ active' = IF new = "approved" THEN [active EXCEPT ![c.key] = i] ELSE active
      /\ logged' = [logged EXCEPT ![i] = SnapshotOf(c)]
      /\ index' = index
  BY DEF UpdateStatus, c, d
<1>6. contracts' \in [Id -> Contract \cup {Absent}]
  BY <1>2, <1>4, <1>5 DEF StoreTypeOK
<1>. QED  BY <1>2, <1>3, <1>5, <1>6 DEF StoreTypeOK

(* Writers of one field of a stored contract.                              *)
LEMMA FieldType ==
  ASSUME StoreTypeOK, NEW i \in Id, Stored(i), UNCHANGED <<index, active, logged>>,
         \/ contracts' = [contracts EXCEPT ![i].position = TRUE]
         \/ \E r \in SapState : contracts' = [contracts EXCEPT ![i].sap = r]
         \/ \E v \in Verdict : contracts' = [contracts EXCEPT ![i].check = v]
  PROVE  StoreTypeOK'
<1>1. contracts[i] \in Contract
  BY DEF Stored, StoreTypeOK
<1>2. PICK c \in Contract : contracts' = [contracts EXCEPT ![i] = c]
  <2>1. CASE contracts' = [contracts EXCEPT ![i].position = TRUE]
    BY <1>1, <2>1 DEF Contract
  <2>2. ASSUME NEW r \in SapState, contracts' = [contracts EXCEPT ![i].sap = r]
        PROVE  \E c \in Contract : contracts' = [contracts EXCEPT ![i] = c]
    BY <1>1, <2>2 DEF Contract
  <2>3. ASSUME NEW v \in Verdict, contracts' = [contracts EXCEPT ![i].check = v]
        PROVE  \E c \in Contract : contracts' = [contracts EXCEPT ![i] = c]
    BY <1>1, <2>3 DEF Contract
  <2>. QED  BY <2>1, <2>2, <2>3
<1>. QED  BY <1>2 DEF StoreTypeOK

LEMMA EmptyTablesType ==
  /\ EmptyTables.contracts \in [Id -> Contract \cup {Absent}]
  /\ EmptyTables.index \in [Key -> Seq(Id)]
  /\ EmptyTables.active \in [Key -> Id \cup {None}]
BY DEF EmptyTables

LEMMA StoreStepType ==
  ASSUME StoreTypeOK, StoreAssumption, StoreStep
  PROVE  StoreTypeOK'
<1>1. CASE \E i \in Id, k \in Key, b \in BOOLEAN, p \in Id \cup {None}, q \in BOOLEAN :
             Ingest(i, k, b, p, q, None)
  BY <1>1, IngestType
<1>2. CASE \E i \in Id, new \in Status, who \in Reviewer \cup {None} :
             Decision(new, who) /\ UpdateStatus(i, new, who)
  BY <1>2, UpdateStatusType
<1>3. ASSUME NEW k \in Key, UpdateOpenPosition(k) PROVE StoreTypeOK'
  <2>1. active[k] \in Id
    BY <1>3 DEF UpdateOpenPosition, StoreTypeOK
  <2>. QED  BY <1>3, <2>1, FieldType DEF UpdateOpenPosition
<1>4. CASE \E i \in Id, r \in SapState \ {"none"} : UpdateSapValidation(i, r)
  BY <1>4, FieldType DEF UpdateSapValidation
<1>5. ASSUME NEW i \in Id, NEW v \in Verdict, UpdateCheck(i, v)
      PROVE  StoreTypeOK'
  BY <1>5, FieldType DEF UpdateCheck
<1>6. CASE Restart
  BY <1>6, EmptyTablesType DEF Restart, StoreTypeOK
<1>7. CASE UNCHANGED storeVars
  BY <1>7 DEF storeVars, StoreTypeOK
<1>. QED  BY <1>1, <1>2, <1>3, <1>4, <1>5, <1>6, <1>7 DEF StoreStep

(* Every reachable state is well typed, with any number of clients.        *)
THEOREM TypeCorrect == Spec => []TypeOK
<1>. USE StoreAssumption, ReviewAssumption
<1>1. Init => TypeOK
  BY EmptyTablesType, IdleType DEF Init, StoreInit, TypeOK, StoreTypeOK
<1>2. TypeOK /\ [Next]_vars => TypeOK'
  BY NextIsStoreStep, StoreStepType DEF TypeOK
<1>. QED  BY <1>1, <1>2, PTL DEF Spec

-----------------------------------------------------------------------------
(* THE ACTIVE SET                                                          *)
(*                                                                         *)
(* ActiveSetExact is inductive relative to the types: an approval finds,   *)
(* through the active set, the one contract it has to displace, because    *)
(* no contract outside the active set is approved.                         *)

(* What a write of a single field leaves alone.                            *)
FieldStep ==
  /\ UNCHANGED <<index, active, logged>>
  /\ \A j \in Id : /\ contracts'[j] # Absent <=> contracts[j] # Absent
                   /\ Stored(j) =>
                        /\ contracts'[j].key = contracts[j].key
                        /\ contracts'[j].version = contracts[j].version
                        /\ contracts'[j].status = contracts[j].status
                        /\ contracts'[j].prev = contracts[j].prev
                        /\ contracts'[j].reviewer = contracts[j].reviewer
                        /\ contracts[j].sap # "none" => contracts'[j].sap # "none"

LEMMA OneFieldIsFieldStep ==
  ASSUME StoreTypeOK, StoreAssumption, NEW i \in Id, Stored(i),
         UNCHANGED <<index, active, logged>>,
         \/ contracts' = [contracts EXCEPT ![i].position = TRUE]
         \/ \E r \in SapState \ {"none"} : contracts' = [contracts EXCEPT ![i].sap = r]
         \/ \E v \in Verdict : contracts' = [contracts EXCEPT ![i].check = v]
  PROVE  FieldStep
<1>1. contracts[i] \in Contract
  BY DEF Stored, StoreTypeOK
<1>2. /\ contracts'[i] \in Contract
      /\ contracts'[i].key = contracts[i].key
      /\ contracts'[i].version = contracts[i].version
      /\ contracts'[i].status = contracts[i].status
      /\ contracts'[i].prev = contracts[i].prev
      /\ contracts'[i].reviewer = contracts[i].reviewer
      /\ contracts[i].sap # "none" => contracts'[i].sap # "none"
  <2>1. CASE contracts' = [contracts EXCEPT ![i].position = TRUE]
    BY <1>1, <2>1 DEF Contract, StoreTypeOK
  <2>2. CASE \E r \in SapState \ {"none"} : contracts' = [contracts EXCEPT ![i].sap = r]
    <3>1. PICK r \in SapState \ {"none"} : contracts' = [contracts EXCEPT ![i].sap = r]
      BY <2>2
    <3>2. contracts'[i] = [contracts[i] EXCEPT !.sap = r]
      BY <3>1 DEF StoreTypeOK
    <3>. QED  BY <1>1, <3>1, <3>2 DEF Contract
  <2>3. CASE \E v \in Verdict : contracts' = [contracts EXCEPT ![i].check = v]
    <3>1. PICK v \in Verdict : contracts' = [contracts EXCEPT ![i].check = v]
      BY <2>3
    <3>2. contracts'[i] = [contracts[i] EXCEPT !.check = v]
      BY <3>1 DEF StoreTypeOK
    <3>. QED  BY <1>1, <3>1, <3>2 DEF Contract
  <2>. QED  BY <2>1, <2>2, <2>3
<1>3. \A j \in Id \ {i} : contracts'[j] = contracts[j]
  BY DEF StoreTypeOK
<1>4. contracts'[i] # Absent
  BY <1>2 DEF StoreAssumption
<1>. QED  BY <1>2, <1>3, <1>4 DEF FieldStep, Stored

(* Every step of the Store is an ingest, a status update, a restart, or    *)
(* leaves identity, status and reviewer of every contract alone.           *)
StoreCases ==
  \/ \E i \in Id, k \in Key, b \in BOOLEAN, p \in Id \cup {None}, q \in BOOLEAN :
       Ingest(i, k, b, p, q, None)
  \/ \E i \in Id, new \in Status, who \in Reviewer \cup {None} :
       Decision(new, who) /\ UpdateStatus(i, new, who)
  \/ FieldStep
  \/ Restart

LEMMA StoreStepCases ==
  ASSUME StoreTypeOK, StoreAssumption, StoreStep
  PROVE  StoreCases
<1>1. ASSUME NEW k \in Key, UpdateOpenPosition(k) PROVE FieldStep
  <2>1. active[k] \in Id
    BY <1>1 DEF UpdateOpenPosition, StoreTypeOK
  <2>. QED  BY <1>1, <2>1, OneFieldIsFieldStep DEF UpdateOpenPosition
<1>2. ASSUME NEW i \in Id, NEW r \in SapState \ {"none"}, UpdateSapValidation(i, r)
      PROVE FieldStep
  BY <1>2, OneFieldIsFieldStep DEF UpdateSapValidation
<1>3. ASSUME NEW i \in Id, NEW v \in Verdict, UpdateCheck(i, v)
      PROVE  FieldStep
  BY <1>3, OneFieldIsFieldStep DEF UpdateCheck
<1>4. ASSUME UNCHANGED storeVars PROVE FieldStep
  <2>1. UNCHANGED <<index, active, logged>> /\ contracts' = contracts
    BY <1>4 DEF storeVars
  <2>2. /\ UNCHANGED <<index, active, logged>>
        /\ \A j \in Id : contracts'[j] = contracts[j]
    BY <2>1
  <2>. QED  BY <2>2 DEF FieldStep
<1>5. CASE \E i \in Id, k \in Key, b \in BOOLEAN, p \in Id \cup {None}, q \in BOOLEAN :
             Ingest(i, k, b, p, q, None)
  BY <1>5 DEF StoreCases
<1>6. CASE \E i \in Id, new \in Status, who \in Reviewer \cup {None} :
             Decision(new, who) /\ UpdateStatus(i, new, who)
  BY <1>6 DEF StoreCases
<1>7. CASE FieldStep \/ Restart
  BY <1>7 DEF StoreCases
<1>. QED  BY <1>1, <1>2, <1>3, <1>4, <1>5, <1>6, <1>7 DEF StoreStep

LEMMA ActiveSetStep ==
  ASSUME StoreTypeOK, StoreAssumption, ActiveSetExact, StoreStep
  PROVE  ActiveSetExact'
<1>1. StoreCases
  BY StoreStepCases
<1>2. ASSUME NEW i \in Id, NEW k \in Key, NEW b \in BOOLEAN,
             NEW p \in Id \cup {None}, NEW q \in BOOLEAN, Ingest(i, k, b, p, q, None)
      PROVE  ActiveSetExact'
  <2>1. /\ ~Stored(i) /\ active' = active /\ contracts'[i].status = "draft"
        /\ \A j \in Id \ {i} : contracts'[j] = contracts[j]
    BY <1>2 DEF Ingest, StoreTypeOK
  <2>2. ASSUME NEW j \in Id, HasStatus(j, "approved")'
        PROVE  active'[contracts'[j].key] = j
    BY <2>1, <2>2 DEF ActiveSetExact, HasStatus, Stored
  <2>3. ASSUME NEW m \in Key, active'[m] # None
        PROVE  HasStatus(active[m], "approved")' /\ contracts'[active'[m]].key = m
    BY <2>1, <2>3 DEF ActiveSetExact, HasStatus, Stored, StoreTypeOK
  <2>. QED  BY <2>2, <2>3 DEF ActiveSetExact
<1>3. ASSUME NEW i \in Id, NEW new \in Status, NEW who \in Reviewer \cup {None},
             Decision(new, who), UpdateStatus(i, new, who)
      PROVE  ActiveSetExact'
  <2>. DEFINE k == contracts[i].key
  <2>1. contracts[i] \in Contract /\ k \in Key
    BY <1>3 DEF UpdateStatus, Accepts, Stored, StoreTypeOK, Contract
  <2>2. contracts[i].status \in {"draft", "pending_review", "rejected"}
    BY <1>3 DEF UpdateStatus, Accepts, ValidTransition
  <2>3. /\ contracts'[i].key = k /\ contracts'[i].status = new
        /\ contracts'[i] # Absent
    BY <1>3, <2>1, UpdateStatusType DEF UpdateStatus, Contract, StoreAssumption
  <2>4. \A m \in Key : active[m] # i
    BY <2>2 DEF ActiveSetExact, HasStatus
  <2>5. CASE new # "approved"
    <3>1. active' = active /\ \A j \in Id \ {i} : contracts'[j] = contracts[j]
      BY <1>3, <2>5 DEF UpdateStatus, Displaced
    <3>2. ASSUME NEW j \in Id, HasStatus(j, "approved")'
          PROVE  active'[contracts'[j].key] = j
      BY <2>3, <2>5, <3>1, <3>2 DEF ActiveSetExact, HasStatus, Stored
    <3>3. ASSUME NEW m \in Key, active'[m] # None
          PROVE  HasStatus(active[m], "approved")' /\ contracts'[active'[m]].key = m
      BY <2>4, <3>1, <3>3 DEF ActiveSetExact, HasStatus, Stored, StoreTypeOK
    <3>. QED  BY <3>2, <3>3 DEF ActiveSetExact
  <2>6. CASE new = "approved"
    <3>1. active' = [active EXCEPT ![k] = i]
      BY <1>3, <2>1, <2>6 DEF UpdateStatus, Contract
    <3>2. \A j \in Id \ {i} : active[k] # j => contracts'[j] = contracts[j]
      BY <1>3 DEF UpdateStatus, Displaced
    <3>3. ASSUME NEW j \in Id \ {i}, active[k] = j, Stored(j)
          PROVE  contracts'[j].status = "superseded"
      <4>1. contracts'[j] = [contracts[j] EXCEPT !.status = "superseded"]
        BY <1>3, <2>6, <3>3 DEF UpdateStatus, Displaced
      <4>2. contracts[j] \in Contract
        BY <3>3 DEF Stored, StoreTypeOK
      <4>. QED  BY <4>1, <4>2 DEF Contract
    <3>4. ASSUME NEW j \in Id, HasStatus(j, "approved")'
          PROVE  active'[contracts'[j].key] = j
      <4>1. CASE j = i
        BY <2>1, <2>3, <3>1, <4>1 DEF StoreTypeOK
      <4>2. CASE j # i
        <5>1. active[k] # j
          <6>1. SUFFICES ASSUME active[k] = j PROVE FALSE
            OBVIOUS
          <6>2. Stored(j)
            BY <2>1, <6>1 DEF ActiveSetExact, HasStatus, StoreAssumption
          <6>. QED  BY <3>3, <3>4, <4>2, <6>1, <6>2 DEF HasStatus
        <5>2. HasStatus(j, "approved") /\ contracts'[j] = contracts[j]
          BY <3>2, <3>4, <4>2, <5>1 DEF HasStatus, Stored
        <5>3. active[contracts[j].key] = j /\ contracts[j].key \in Key
          BY <5>2 DEF ActiveSetExact, HasStatus, Stored, StoreTypeOK, Contract
        <5>. QED  BY <2>1, <3>1, <5>1, <5>2, <5>3 DEF StoreTypeOK
      <4>. QED  BY <4>1, <4>2
    <3>5. ASSUME NEW m \in Key, active'[m] # None
          PROVE  HasStatus(active[m], "approved")' /\ contracts'[active'[m]].key = m
      <4>1. CASE m = k
        <5>1. active'[m] = i
          BY <3>1, <4>1 DEF StoreTypeOK
        <5>. QED  BY <2>3, <2>6, <4>1, <5>1 DEF HasStatus, Stored
      <4>2. CASE m # k
        <5>1. active'[m] = active[m]
          BY <3>1, <4>2 DEF StoreTypeOK
        <5>2. HasStatus(active[m], "approved") /\ contracts[active[m]].key = m
              /\ active[m] \in Id \ {i}
          BY <2>4, <3>5, <5>1 DEF ActiveSetExact, StoreTypeOK
        <5>3. active[k] # active[m]
          BY <2>1, <4>2, <5>2 DEF ActiveSetExact, StoreAssumption
        <5>4. contracts'[active[m]] = contracts[active[m]]
          BY <3>2, <5>2, <5>3
        <5>. QED  BY <5>1, <5>2, <5>4 DEF HasStatus, Stored
      <4>. QED  BY <4>1, <4>2
    <3>. QED  BY <3>4, <3>5 DEF ActiveSetExact
  <2>. QED  BY <2>5, <2>6
<1>4. CASE FieldStep
  <2>1. active' = active
        /\ \A j \in Id : /\ HasStatus(j, "approved")' <=> HasStatus(j, "approved")
                         /\ Stored(j) => contracts'[j].key = contracts[j].key
    BY <1>4 DEF FieldStep, HasStatus, Stored
  <2>2. ASSUME NEW j \in Id, HasStatus(j, "approved")'
        PROVE  active'[contracts'[j].key] = j
    BY <2>1, <2>2 DEF ActiveSetExact, HasStatus
  <2>3. ASSUME NEW m \in Key, active'[m] # None
        PROVE  HasStatus(active[m], "approved")' /\ contracts'[active'[m]].key = m
    <3>1. active[m] \in Id
      BY <2>1, <2>3 DEF StoreTypeOK
    <3>. QED  BY <2>1, <2>3, <3>1 DEF ActiveSetExact, HasStatus
  <2>. QED  BY <2>2, <2>3 DEF ActiveSetExact
<1>5. CASE Restart
  <2>1. contracts' = [i \in Id |-> Absent] /\ active' = [k \in Key |-> None]
    BY <1>5 DEF Restart, EmptyTables
  <2>. QED  BY <2>1 DEF ActiveSetExact, HasStatus, Stored
<1>. QED  BY <1>1, <1>2, <1>3, <1>4, <1>5 DEF StoreCases

(* What a solve reads through get_active_set is exactly the approved       *)
(* contracts, in every reachable state.                                    *)
THEOREM ActiveSetCorrect == Spec => []ActiveSetExact
<1>. USE StoreAssumption, ReviewAssumption
<1>1. Init => ActiveSetExact
  BY DEF Init, StoreInit, EmptyTables, ActiveSetExact, HasStatus, Stored
<1>2. TypeOK /\ ActiveSetExact /\ [Next]_vars => ActiveSetExact'
  BY NextIsStoreStep, ActiveSetStep DEF TypeOK
<1>. QED  BY <1>1, <1>2, TypeCorrect, PTL DEF Spec

(* At most one contract per counterparty and product group is approved.    *)
THEOREM OneApprovedCorrect == Spec => []OneApproved
<1>1. ActiveSetExact => OneApproved
  BY DEF ActiveSetExact, OneApproved
<1>. QED  BY <1>1, ActiveSetCorrect, PTL

-----------------------------------------------------------------------------
(* THE VERSIONS OF A CONTRACT: their numbers, hashes, successors and       *)
(* persisted snapshots, what an approval rests on, and that ContractReview *)
(* implements ContractBook.                                                *)

(* The steps of the clients, with what their sessions say about them: an   *)
(* ingestion records the hash it read, an approval was read before.        *)
ReviewStep ==
  \/ \E i \in Id, k \in Key, b \in BOOLEAN, p \in Id \cup {None}, q \in BOOLEAN :
       /\ Ingest(i, k, b, p, q, None)
       /\ p # None => \E c \in Client : /\ session[c].op = "ingest"
                                        /\ session[c].key = k
                                        /\ session[c].prev = p
  \/ \E i \in Id, new \in Status, who \in Reviewer \cup {None} :
       /\ Decision(new, who) /\ UpdateStatus(i, new, who)
       /\ new = "approved" => \E c \in Client :
            /\ session[c].id = i
            /\ session[c].op \in {"approve", "force_approve", "seed_approve"}
  \/ FieldStep
  \/ MayRestart /\ Restart

(* What becomes of a session: the two operations that remember something   *)
(* of the Store do so when they begin, while the Store does not change.    *)
SessionStep(c) ==
  \/ session'[c] = session[c]
  \/ session'[c].op \notin {"ingest", "approve"}
  \/ /\ UNCHANGED storeVars
     /\ session'[c].op = "ingest" /\ session'[c].key \in Key
     /\ session'[c].prev = Latest(session'[c].key)
  \/ /\ UNCHANGED storeVars
     /\ session'[c].op = "approve" /\ session'[c].id \in Id
     /\ Stored(session'[c].id) /\ contracts[session'[c].id].sap = "ok"

LEMMA UnchangedIsFieldStep ==
  ASSUME UNCHANGED storeVars
  PROVE  FieldStep
<1>1. UNCHANGED <<index, active, logged>> /\ contracts' = contracts
  BY DEF storeVars
<1>. QED  BY <1>1 DEF FieldStep

(* The session of a client changes only by its own steps.                  *)
LEMMA OthersSessions ==
  ASSUME TypeOK, NEW c \in Client, NEW s \in Session,
         session' = [session EXCEPT ![c] = s], SessionStep(c)
  PROVE  \A d \in Client : SessionStep(d)
<1>1. \A d \in Client \ {c} : session'[d] = session[d]
  BY DEF TypeOK
<1>. QED  BY <1>1 DEF SessionStep

(* A step that ends an operation, or goes on with one that remembers       *)
(* nothing of the Store.                                                   *)
LEMMA PlainSession ==
  ASSUME TypeOK, NEW c \in Client, NEW s \in Session,
         session' = [session EXCEPT ![c] = s], s.op \notin {"ingest", "approve"}
  PROVE  \A d \in Client : SessionStep(d)
<1>1. session'[c] = s
  BY DEF TypeOK
<1>. QED  BY <1>1, OthersSessions DEF SessionStep

LEMMA SettleIsReviewStep ==
  ASSUME TypeOK, NEW c \in Client,
         NEW op \in {"submit", "approve", "force_approve", "reject", "seed_approve"},
         NEW new \in Status, NEW who \in Reviewer \cup {None},
         Decision(new, who), SettleStatus(c, op, new, who),
         new = "approved" => op \in {"approve", "force_approve", "seed_approve"}
  PROVE  ReviewStep /\ \A d \in Client : SessionStep(d)
<1>1. session[c].id \in Id
  BY SessionId DEF SettleStatus, ContractOp
<1>2. ASSUME UpdateStatus(session[c].id, new, who) PROVE ReviewStep
  BY <1>1, <1>2 DEF SettleStatus, ReviewStep
<1>3. ASSUME UNCHANGED storeVars PROVE ReviewStep
  BY <1>3, UnchangedIsFieldStep DEF ReviewStep
<1>4. ReviewStep
  BY <1>2, <1>3 DEF SettleStatus
<1>5. IdleSession.op \notin {"ingest", "approve"}
  BY DEF IdleSession
<1>6. \A d \in Client : SessionStep(d)
  BY <1>5, PlainSession, IdleType DEF SettleStatus, Finish
<1>. QED  BY <1>4, <1>6

LEMMA AboutFields ==
  ASSUME NEW op \in ContractOp, NEW i \in Id
  PROVE  About(op, i).op = op /\ About(op, i).id = i
BY DEF About, IdleSession

(* A first call that leads to an operation that remembers nothing.         *)
LEMMA PlainBegin ==
  ASSUME TypeOK, NEW c \in Client, NEW op \in ContractOp \ {"approve"}, NEW i \in Id,
         Begin(c, About(op, i))
  PROVE  ReviewStep /\ \A d \in Client : SessionStep(d)
<1>1. ReviewStep
  BY UnchangedIsFieldStep DEF Begin, ReviewStep
<1>2. About(op, i).op \notin {"ingest", "approve"}
  BY AboutFields DEF ContractOp
<1>. QED  BY <1>1, <1>2, PlainSession, AboutType DEF Begin

LEMMA ClientIsReviewStep ==
  ASSUME TypeOK, StoreAssumption, ReviewAssumption, NEW c \in Client, ClientStep(c)
  PROVE  ReviewStep /\ \A d \in Client : SessionStep(d)
<1>. DEFINE Goal == ReviewStep /\ \A d \in Client : SessionStep(d)
<1>. c \in Reviewer /\ SeedLoader \in Reviewer
  BY DEF ReviewAssumption
<1>. IdleSession.op = "idle"
  BY DEF IdleSession
<1>1. ASSUME NEW i \in Id, SubmitRead(c, i) PROVE Goal
  BY <1>1, PlainBegin DEF SubmitRead, ContractOp
<1>2. ASSUME NEW i \in Id, ApproveRead(c, i) PROVE Goal
  <2>1. CASE Begin(c, About("force_approve", i))
    BY <2>1, PlainBegin DEF ContractOp
  <2>2. CASE contracts[i].sap = "ok" /\ Begin(c, About("approve", i))
    <3>1. About("approve", i) \in Session
      BY AboutType DEF ContractOp
    <3>2. session' = [session EXCEPT ![c] = About("approve", i)] /\ UNCHANGED storeVars
      BY <2>2 DEF Begin
    <3>3. session'[c] = About("approve", i)
      BY <3>1, <3>2 DEF TypeOK
    <3>4. session'[c].op = "approve" /\ session'[c].id = i
      BY <3>3, AboutFields DEF ContractOp
    <3>5. Stored(i)
      BY <1>2 DEF ApproveRead, HasStatus
    <3>6. SessionStep(c)
      BY <2>2, <3>2, <3>4, <3>5 DEF SessionStep
    <3>7. ReviewStep
      BY <3>2, UnchangedIsFieldStep DEF ReviewStep
    <3>. QED  BY <3>1, <3>2, <3>6, <3>7, OthersSessions
  <2>. QED  BY <1>2, <2>1, <2>2 DEF ApproveRead
<1>3. ASSUME NEW i \in Id, RejectRead(c, i) PROVE Goal
  BY <1>3, PlainBegin DEF RejectRead, ContractOp
<1>4. ASSUME NEW i \in Id, ValidateRead(c, i) PROVE Goal
  BY <1>4, PlainBegin DEF ValidateRead, ContractOp
<1>5. ASSUME NEW k \in Key, IngestRead(c, k) PROVE Goal
  <2>. DEFINE s == [op |-> "ingest", id |-> None, key |-> k, prev |-> Latest(k)]
  <2>1. s \in Session
    BY LatestType DEF Session
  <2>2. session' = [session EXCEPT ![c] = s] /\ UNCHANGED storeVars
    BY <1>5 DEF IngestRead, Begin
  <2>3. session'[c] = s
    BY <2>1, <2>2 DEF TypeOK
  <2>4. SessionStep(c)
    BY <2>2, <2>3 DEF SessionStep
  <2>5. ReviewStep
    BY <2>2, UnchangedIsFieldStep DEF ReviewStep
  <2>. QED  BY <2>1, <2>2, <2>4, <2>5, OthersSessions
<1>6. ASSUME NEW k \in Key, SeedIngest(c, k) PROVE Goal
  <2>1. PICK i \in Id, b \in BOOLEAN :
          /\ Ingest(i, k, b, None, TRUE, None)
          /\ session' = [session EXCEPT ![c] = About("seed_submit", i)]
    BY <1>6 DEF SeedIngest
  <2>2. ReviewStep
    BY <2>1 DEF ReviewStep
  <2>3. About("seed_submit", i).op = "seed_submit" /\ About("seed_submit", i) \in Session
    BY AboutFields, AboutType DEF ContractOp
  <2>. QED  BY <2>1, <2>2, <2>3, PlainSession
<1>7. CASE SubmitWrite(c)
  BY <1>7, SettleIsReviewStep DEF SubmitWrite, Decision, Status
<1>8. CASE ApproveWrite(c)
  BY <1>8, SettleIsReviewStep DEF ApproveWrite, Decision, Status
<1>9. CASE RejectWrite(c)
  BY <1>9, SettleIsReviewStep DEF RejectWrite, Decision, Status
<1>10. CASE ValidateWrite(c)
  <2>1. session[c].id \in Id
    BY <1>10, SessionId DEF ValidateWrite, ContractOp
  <2>2. ASSUME NEW r \in SapResult, UpdateSapValidation(session[c].id, r) PROVE FieldStep
    <3>1. r \in SapState \ {"none"}
      BY DEF ReviewAssumption
    <3>. QED  BY <2>1, <2>2, <3>1, OneFieldIsFieldStep DEF UpdateSapValidation, TypeOK
  <2>3. FieldStep
    BY <1>10, <2>2, UnchangedIsFieldStep DEF ValidateWrite
  <2>. QED  BY <1>10, <2>3, PlainSession, IdleType DEF ValidateWrite, Finish, ReviewStep
<1>11. CASE IngestWrite(c)
  <2>. DEFINE k == session[c].key
              p == session[c].prev
  <2>1. k \in Key /\ p \in Id \cup {None}
    BY <1>11, SessionKey DEF IngestWrite
  <2>2. PICK i \in Id, b \in BOOLEAN : Ingest(i, k, b, p, FALSE, None)
    BY <1>11 DEF IngestWrite
  <2>3. \E d \in Client : session[d].op = "ingest" /\ session[d].key = k /\ session[d].prev = p
    BY <1>11 DEF IngestWrite
  <2>. HIDE DEF k, p
  <2>4. ReviewStep
    <3>1. FALSE \in BOOLEAN
      OBVIOUS
    <3>2. /\ Ingest(i, k, b, p, FALSE, None)
          /\ p # None => \E d \in Client : /\ session[d].op = "ingest"
                                           /\ session[d].key = k
                                           /\ session[d].prev = p
      BY <2>2, <2>3
    <3>. USE <2>1, <3>1
    <3>3. \E j \in Id, l \in Key, n \in BOOLEAN, r \in Id \cup {None}, q \in BOOLEAN :
            /\ Ingest(j, l, n, r, q, None)
            /\ r # None => \E d \in Client : /\ session[d].op = "ingest"
                                             /\ session[d].key = l
                                             /\ session[d].prev = r
      <4>. WITNESS i \in Id, k \in Key, b \in BOOLEAN, p \in Id \cup {None}, FALSE \in BOOLEAN
      <4>. QED  BY <3>2
    <3>. QED  BY <3>3 DEF ReviewStep
  <2>. QED  BY <1>11, <2>4, PlainSession, IdleType DEF IngestWrite, Finish
<1>12. CASE SeedSubmit(c)
  <2>. DEFINE i == session[c].id
  <2>1. i \in Id
    BY <1>12, SessionId DEF SeedSubmit, ContractOp
  <2>2. ASSUME UpdateStatus(i, "pending_review", None) PROVE ReviewStep
    BY <2>1, <2>2 DEF ReviewStep, Decision, Status
  <2>3. ASSUME UNCHANGED storeVars PROVE ReviewStep
    BY <2>3, UnchangedIsFieldStep DEF ReviewStep
  <2>4. About("seed_approve", i).op = "seed_approve" /\ About("seed_approve", i) \in Session
    BY <2>1, AboutFields, AboutType DEF ContractOp
  <2>. QED  BY <1>12, <2>2, <2>3, <2>4, PlainSession DEF SeedSubmit
<1>13. CASE SeedApprove(c)
  BY <1>13, SettleIsReviewStep DEF SeedApprove, Decision, Status
<1>. QED
  BY <1>1, <1>2, <1>3, <1>4, <1>5, <1>6, <1>7, <1>8, <1>9, <1>10, <1>11,
     <1>12, <1>13 DEF ClientStep

LEMMA NextIsReviewStep ==
  ASSUME TypeOK, StoreAssumption, ReviewAssumption, [Next]_vars
  PROVE  ReviewStep /\ \A d \in Client : SessionStep(d)
<1>1. ASSUME NEW c \in Client, ClientStep(c)
      PROVE  ReviewStep /\ \A d \in Client : SessionStep(d)
  BY <1>1, ClientIsReviewStep
<1>2. ASSUME session' = session PROVE \A d \in Client : SessionStep(d)
  BY <1>2 DEF SessionStep
<1>3. ASSUME NEW k \in Key, PipelineIngest(k) PROVE ReviewStep
  BY <1>3 DEF PipelineIngest, ReviewStep
<1>4. ASSUME NEW k \in Key, UpdateOpenPosition(k) PROVE FieldStep
  <2>1. active[k] \in Id
    BY <1>4 DEF UpdateOpenPosition, TypeOK, StoreTypeOK
  <2>. QED  BY <1>4, <2>1, OneFieldIsFieldStep DEF UpdateOpenPosition, TypeOK
<1>5. ASSUME NEW i \in Id, NEW v \in Verdict, UpdateCheck(i, v) PROVE FieldStep
  BY <1>5, OneFieldIsFieldStep DEF UpdateCheck, TypeOK
<1>6. CASE \E k \in Key : PipelineIngest(k)
  BY <1>2, <1>3, <1>6 DEF PipelineIngest
<1>7. CASE Annotate
  BY <1>2, <1>4, <1>5, <1>7 DEF Annotate, ReviewStep
<1>8. CASE \E i \in Id : Expire(i)
  BY <1>2, <1>8, UnchangedIsFieldStep DEF Expire, ReviewStep
<1>9. CASE StoreRestart
  BY <1>2, <1>9 DEF StoreRestart, ReviewStep
<1>10. CASE UNCHANGED vars
  <2>1. UNCHANGED storeVars /\ session' = session
    BY <1>10 DEF vars, storeVars
  <2>. QED  BY <1>2, <2>1, UnchangedIsFieldStep DEF ReviewStep
<1>. QED  BY <1>1, <1>6, <1>7, <1>8, <1>9, <1>10 DEF Next

-----------------------------------------------------------------------------
(* STATUS UPDATES                                                          *)

(* What an accepted update of a status does to the contracts.              *)
LEMMA UpdateStatusFrame ==
  ASSUME StoreTypeOK, StoreAssumption, NEW i \in Id, NEW new \in Status,
         NEW who \in Reviewer \cup {None}, UpdateStatus(i, new, who)
  PROVE  /\ Stored(i) /\ index' = index
         /\ \A j \in Id : contracts'[j] # Absent <=> contracts[j] # Absent
         /\ \A j \in Id : Stored(j) => /\ contracts'[j].key = contracts[j].key
                                       /\ contracts'[j].version = contracts[j].version
                                       /\ contracts'[j].prev = contracts[j].prev
                                       /\ contracts'[j].sap = contracts[j].sap
         /\ contracts'[i].status = new /\ contracts'[i].reviewer = who
         /\ \A j \in Id \ ({i} \cup Displaced(i, new)) : contracts'[j] = contracts[j]
         /\ \A j \in Displaced(i, new) : /\ contracts'[j].status = "superseded"
                                         /\ contracts'[j].reviewer = contracts[j].reviewer
         /\ logged' = [logged EXCEPT ![i] = SnapshotOf(contracts'[i])]
<1>. DEFINE c == [contracts[i] EXCEPT !.status = new, !.reviewer = who]
            d(j) == [contracts[j] EXCEPT !.status = "superseded"]
<1>1. Stored(i) /\ contracts[i] \in Contract
  BY DEF UpdateStatus, Accepts, Stored, StoreTypeOK
<1>2. /\ c \in Contract
      /\ c.key = contracts[i].key /\ c.version = contracts[i].version
      /\ c.prev = contracts[i].prev /\ c.sap = contracts[i].sap
      /\ c.status = new /\ c.reviewer = who
  BY <1>1 DEF Contract
<1>3. ASSUME NEW j \in Displaced(i, new)
      PROVE  /\ j \in Id \ {i} /\ Stored(j) /\ d(j) \in Contract
             /\ d(j).key = contracts[j].key /\ d(j).version = contracts[j].version
             /\ d(j).prev = contracts[j].prev /\ d(j).sap = contracts[j].sap
             /\ d(j).status = "superseded" /\ d(j).reviewer = contracts[j].reviewer
  <2>1. j \in Id \ {i} /\ Stored(j) /\ contracts[j] \in Contract
    BY <1>3 DEF Displaced, Stored, StoreTypeOK
  <2>. QED  BY <2>1 DEF Contract, Status
<1>. HIDE DEF c, d
<1>4. /\ contracts' = [j \in Id |-> IF j = i THEN c ELSE
                           IF j \in Displaced(i, new) THEN d(j) ELSE contracts[j]]
      /\ logged' = [logged EXCEPT ![i] = SnapshotOf(c)]
      /\ index' = index
  BY DEF UpdateStatus, c, d
<1>5. contracts'[i] = c /\ c # Absent
  BY <1>2, <1>4 DEF StoreAssumption
<1>6. \A j \in Displaced(i, new) : contracts'[j] = d(j) /\ d(j) # Absent
  BY <1>3, <1>4 DEF StoreAssumption
<1>7. \A j \in Id \ ({i} \cup Displaced(i, new)) : contracts'[j] = contracts[j]
  BY <1>4
<1>. QED  BY <1>1, <1>2, <1>3, <1>4, <1>5, <1>6, <1>7 DEF Stored

(* What an ingestion does.                                                 *)
LEMMA IngestFrame ==
  ASSUME StoreTypeOK, StoreAssumption, NEW i \in Id, NEW k \in Key, NEW b \in BOOLEAN,
         NEW p \in Id \cup {None}, NEW q \in BOOLEAN, Ingest(i, k, b, p, q, None)
  PROVE  /\ ~Stored(i) /\ contracts'[i] # Absent
         /\ contracts'[i].key = k /\ contracts'[i].version = Len(index[k]) + 1
         /\ contracts'[i].prev = p /\ contracts'[i].sap = "none"
         /\ contracts'[i].status = "draft" /\ contracts'[i].reviewer = None
         /\ \A j \in Id \ {i} : contracts'[j] = contracts[j]
         /\ index' = [index EXCEPT ![k] = Append(@, i)]
         /\ logged[i] = Absent /\ active' = active
         /\ logged' = [logged EXCEPT ![i] = SnapshotOf(contracts'[i])]
<1>. DEFINE c == [ key |-> k, version |-> Len(index[k]) + 1, status |-> "draft",
                   clauses |-> b, prev |-> p, sap |-> "none",
                   reviewer |-> None, position |-> q, check |-> None ]
<1>1. index[k] \in Seq(Id)
  BY DEF StoreTypeOK
<1>2. Len(index[k]) + 1 \in Nat \ {0}
  BY <1>1
<1>3. c \in Contract
  BY <1>2 DEF Contract, Status, SapState
<1>4. /\ c.key = k /\ c.version = Len(index[k]) + 1 /\ c.prev = p /\ c.sap = "none"
      /\ c.status = "draft" /\ c.reviewer = None
  OBVIOUS
<1>. HIDE DEF c
<1>5. /\ ~Stored(i) /\ contracts' = [contracts EXCEPT ![i] = c]
      /\ index' = [index EXCEPT ![k] = Append(@, i)]
      /\ logged[i] = Absent /\ active' = active
      /\ logged' = [logged EXCEPT ![i] = SnapshotOf(c)]
  BY DEF Ingest, c
<1>6. contracts'[i] = c /\ \A j \in Id \ {i} : contracts'[j] = contracts[j]
  BY <1>5 DEF StoreTypeOK
<1>. QED  BY <1>3, <1>4, <1>5, <1>6 DEF StoreAssumption

-----------------------------------------------------------------------------
(* VERSIONS                                                                *)

(* The index and the contracts are two views of one thing: a contract is   *)
(* in the entry of its key at the position that is its version, and an     *)
(* entry holds nothing else.                                               *)
IndexExact ==
  /\ \A i \in Id : Stored(i) =>
       /\ contracts[i].version \in 1..Len(index[contracts[i].key])
       /\ index[contracts[i].key][contracts[i].version] = i
  /\ \A k \in Key : \A n \in 1..Len(index[k]) :
       /\ Stored(index[k][n])
       /\ contracts[index[k][n]].key = k /\ contracts[index[k][n]].version = n

(* What leaves the identity of every contract alone keeps the index exact. *)
LEMMA SameIdentity ==
  ASSUME StoreTypeOK, IndexExact, index' = index,
         \A j \in Id : /\ contracts'[j] # Absent <=> contracts[j] # Absent
                       /\ Stored(j) => /\ contracts'[j].key = contracts[j].key
                                       /\ contracts'[j].version = contracts[j].version
  PROVE  IndexExact'
<1>1. \A k \in Key : \A n \in 1..Len(index[k]) : index[k][n] \in Id
  BY DEF StoreTypeOK
<1>2. ASSUME NEW i \in Id, contracts'[i] # Absent
      PROVE  /\ contracts'[i].version \in 1..Len(index'[contracts'[i].key])
             /\ index'[contracts'[i].key][contracts'[i].version] = i
  BY <1>2 DEF IndexExact, Stored
<1>3. ASSUME NEW k \in Key, NEW n \in 1..Len(index'[k])
      PROVE  /\ contracts'[index'[k][n]] # Absent
             /\ contracts'[index'[k][n]].key = k /\ contracts'[index'[k][n]].version = n
  BY <1>1, <1>3 DEF IndexExact, Stored
<1>. QED  BY <1>2, <1>3 DEF IndexExact, Stored

LEMMA IndexStep ==
  ASSUME StoreTypeOK, StoreAssumption, IndexExact, StoreCases
  PROVE  IndexExact'
<1>1. ASSUME NEW i \in Id, NEW k \in Key, NEW b \in BOOLEAN,
             NEW p \in Id \cup {None}, NEW q \in BOOLEAN, Ingest(i, k, b, p, q, None)
      PROVE  IndexExact'
  <2>1. /\ ~Stored(i) /\ contracts'[i] # Absent
        /\ contracts'[i].key = k /\ contracts'[i].version = Len(index[k]) + 1
        /\ \A j \in Id \ {i} : contracts'[j] = contracts[j]
        /\ index' = [index EXCEPT ![k] = Append(@, i)]
    BY <1>1, IngestFrame
  <2>2. \A m \in Key : index[m] \in Seq(Id)
    BY DEF StoreTypeOK
  <2>3. /\ index'[k] = Append(index[k], i) /\ Len(index'[k]) = Len(index[k]) + 1
        /\ index'[k][Len(index[k]) + 1] = i /\ Len(index[k]) \in Nat
        /\ \A n \in 1..Len(index[k]) : index'[k][n] = index[k][n]
    BY <2>1, <2>2 DEF StoreTypeOK
  <2>4. \A m \in Key \ {k} : index'[m] = index[m]
    BY <2>1 DEF StoreTypeOK
  <2>5. ASSUME NEW j \in Id, contracts'[j] # Absent
        PROVE  /\ contracts'[j].version \in 1..Len(index'[contracts'[j].key])
               /\ index'[contracts'[j].key][contracts'[j].version] = j
    <3>1. CASE j = i
      BY <2>1, <2>3, <3>1
    <3>2. CASE j # i
      <4>1. Stored(j) /\ contracts'[j] = contracts[j] /\ contracts[j].key \in Key
        BY <2>1, <2>5, <3>2 DEF Stored, StoreTypeOK, Contract
      <4>2. /\ contracts[j].version \in 1..Len(index[contracts[j].key])
            /\ index[contracts[j].key][contracts[j].version] = j
        BY <4>1 DEF IndexExact
      <4>. QED  BY <2>3, <2>4, <4>1, <4>2
    <3>. QED  BY <3>1, <3>2
  <2>6. ASSUME NEW m \in Key, NEW n \in 1..Len(index'[m])
        PROVE  /\ contracts'[index'[m][n]] # Absent
               /\ contracts'[index'[m][n]].key = m /\ contracts'[index'[m][n]].version = n
    <3>1. CASE m = k /\ n = Len(index[k]) + 1
      BY <2>1, <2>3, <3>1
    <3>2. CASE ~(m = k /\ n = Len(index[k]) + 1)
      <4>1. n \in 1..Len(index[m]) /\ index'[m][n] = index[m][n]
        BY <2>2, <2>3, <2>4, <2>6, <3>2
      <4>2. /\ Stored(index[m][n]) /\ index[m][n] \in Id
            /\ contracts[index[m][n]].key = m /\ contracts[index[m][n]].version = n
        BY <2>2, <4>1 DEF IndexExact
      <4>. QED  BY <2>1, <4>1, <4>2 DEF Stored
    <3>. QED  BY <3>1, <3>2
  <2>. QED  BY <2>5, <2>6 DEF IndexExact, Stored
<1>2. ASSUME NEW i \in Id, NEW new \in Status, NEW who \in Reviewer \cup {None},
             UpdateStatus(i, new, who)
      PROVE  IndexExact'
  BY <1>2, UpdateStatusFrame, SameIdentity
<1>3. CASE FieldStep
  BY <1>3, SameIdentity DEF FieldStep
<1>4. CASE Restart
  <2>1. contracts' = [i \in Id |-> Absent] /\ index' = [k \in Key |-> <<>>]
    BY <1>4 DEF Restart, EmptyTables
  <2>. QED  BY <2>1 DEF IndexExact, Stored
<1>. QED  BY <1>1, <1>2, <1>3, <1>4 DEF StoreCases

LEMMA ReviewIsStoreCases == ReviewStep => StoreCases
BY DEF ReviewStep, StoreCases

(* The version index and the contracts agree in every reachable state.     *)
THEOREM IndexCorrect == Spec => []IndexExact
<1>. USE StoreAssumption, ReviewAssumption
<1>1. Init => IndexExact
  BY DEF Init, StoreInit, EmptyTables, IndexExact, Stored
<1>2. TypeOK /\ IndexExact /\ [Next]_vars => IndexExact'
  BY NextIsReviewStep, ReviewIsStoreCases, IndexStep DEF TypeOK
<1>. QED  BY <1>1, <1>2, TypeCorrect, PTL DEF Spec

(* A key and a version name one contract, however many clients ingest and  *)
(* however often the Store restarts.                                       *)
THEOREM VersionIdentityCorrect == Spec => []VersionIdentity
<1>1. IndexExact => VersionIdentity
  BY DEF IndexExact, VersionIdentity
<1>. QED  BY <1>1, IndexCorrect, PTL

-----------------------------------------------------------------------------
(* PREVIOUS HASHES                                                         *)

(* As long as the Store lives, the hash an ingestion read is that of a     *)
(* stored version of its key, so it is older than what is ingested next.   *)
SessionsKnowPrevious ==
  ~MayRestart => \A c \in Client : session[c].op = "ingest" /\ session[c].prev # None =>
    Stored(session[c].prev) /\ contracts[session[c].prev].key = session[c].key

LEMMA LatestIsStored ==
  ASSUME TypeOK, IndexExact, NEW k \in Key, Latest(k) # None
  PROVE  Latest(k) \in Id /\ Stored(Latest(k)) /\ contracts[Latest(k)].key = k
<1>1. index[k] \in Seq(Id) /\ index[k] # <<>>
  BY DEF TypeOK, StoreTypeOK, Latest
<1>2. Len(index[k]) \in 1..Len(index[k])
  BY <1>1
<1>. QED  BY <1>1, <1>2 DEF Latest, IndexExact

(* Without a restart a stored contract keeps its identity.                 *)
LEMMA IdentityKept ==
  ASSUME StoreTypeOK, StoreAssumption, ReviewStep, ~MayRestart
  PROVE  \A j \in Id : Stored(j) => /\ contracts'[j] # Absent
                                    /\ contracts'[j].key = contracts[j].key
                                    /\ contracts'[j].version = contracts[j].version
                                    /\ contracts'[j].prev = contracts[j].prev
<1>1. ASSUME NEW i \in Id, NEW k \in Key, NEW b \in BOOLEAN,
             NEW p \in Id \cup {None}, NEW q \in BOOLEAN, Ingest(i, k, b, p, q, None),
             NEW j \in Id, Stored(j)
      PROVE  contracts'[j] = contracts[j]
  BY <1>1, IngestFrame
<1>2. ASSUME NEW i \in Id, NEW new \in Status, NEW who \in Reviewer \cup {None},
             UpdateStatus(i, new, who), NEW j \in Id, Stored(j)
      PROVE  /\ contracts'[j] # Absent
             /\ contracts'[j].key = contracts[j].key
             /\ contracts'[j].version = contracts[j].version
             /\ contracts'[j].prev = contracts[j].prev
  BY <1>2, UpdateStatusFrame DEF Stored
<1>. QED  BY <1>1, <1>2 DEF ReviewStep, FieldStep, Stored

LEMMA SessionsKnowStep ==
  ASSUME TypeOK, StoreAssumption, IndexExact, SessionsKnowPrevious, ReviewStep,
         \A c \in Client : SessionStep(c), session' \in [Client -> Session]
  PROVE  SessionsKnowPrevious'
<1>. SUFFICES ASSUME ~MayRestart, NEW c \in Client,
                     session'[c].op = "ingest", session'[c].prev # None
              PROVE  /\ contracts'[session'[c].prev] # Absent
                     /\ contracts'[session'[c].prev].key = session'[c].key
  BY DEF SessionsKnowPrevious, Stored
<1>1. session'[c].prev \in Id
  BY DEF Session, ContractOp
<1>2. CASE session'[c] = session[c]
  <2>1. Stored(session[c].prev) /\ contracts[session[c].prev].key = session[c].key
    BY <1>2 DEF SessionsKnowPrevious
  <2>. QED  BY <1>1, <1>2, <2>1, IdentityKept DEF TypeOK
<1>3. CASE /\ UNCHANGED storeVars /\ session'[c].key \in Key
           /\ session'[c].prev = Latest(session'[c].key)
  <2>1. Stored(session'[c].prev) /\ contracts[session'[c].prev].key = session'[c].key
    BY <1>3, LatestIsStored
  <2>. QED  BY <1>3, <2>1 DEF storeVars, Stored
<1>. QED  BY <1>2, <1>3 DEF SessionStep

LEMMA PreviousStep ==
  ASSUME TypeOK, StoreAssumption, IndexExact, SessionsKnowPrevious, PreviousIsOlder,
         ReviewStep
  PROVE  PreviousIsOlder'
<1>. SUFFICES ASSUME ~MayRestart, NEW i \in Id,
                     contracts'[i] # Absent, contracts'[i].prev # None
              PROVE  /\ contracts'[contracts'[i].prev] # Absent
                     /\ contracts'[contracts'[i].prev].key = contracts'[i].key
                     /\ contracts'[contracts'[i].prev].version < contracts'[i].version
  BY DEF PreviousIsOlder, Stored
<1>. USE DEF TypeOK
<1>1. CASE Stored(i)
  <2>. DEFINE p == contracts[i].prev
  <2>1. contracts[i] \in Contract /\ contracts'[i].prev = p
    BY <1>1, IdentityKept DEF Stored, StoreTypeOK
  <2>2. p \in Id
    BY <2>1 DEF Contract
  <2>3. Stored(p) /\ contracts[p].key = contracts[i].key
        /\ contracts[p].version < contracts[i].version
    BY <1>1, <2>1 DEF PreviousIsOlder
  <2>. QED  BY <1>1, <2>1, <2>2, <2>3, IdentityKept
<1>2. CASE ~Stored(i)
  <2>1. PICK k \in Key, b \in BOOLEAN, p \in Id \cup {None}, q \in BOOLEAN :
          /\ Ingest(i, k, b, p, q, None)
          /\ p # None => \E c \in Client : /\ session[c].op = "ingest"
                                           /\ session[c].key = k
                                           /\ session[c].prev = p
    <3>1. ASSUME NEW j \in Id, NEW new \in Status, NEW who \in Reviewer \cup {None},
                 UpdateStatus(j, new, who)
          PROVE  FALSE
      BY <1>2, <3>1, UpdateStatusFrame DEF Stored
    <3>2. ~FieldStep
      BY <1>2 DEF FieldStep, Stored
    <3>3. ASSUME NEW j \in Id, NEW k \in Key, NEW b \in BOOLEAN,
                 NEW p \in Id \cup {None}, NEW q \in BOOLEAN, Ingest(j, k, b, p, q, None)
          PROVE  j = i
      BY <1>2, <3>3, IngestFrame DEF Stored
    <3>. QED  BY <3>1, <3>2, <3>3 DEF ReviewStep
  <2>2. /\ contracts'[i].key = k /\ contracts'[i].version = Len(index[k]) + 1
        /\ contracts'[i].prev = p
        /\ \A j \in Id \ {i} : contracts'[j] = contracts[j]
    BY <2>1, IngestFrame
  <2>3. p \in Id /\ Stored(p) /\ contracts[p].key = k
    BY <2>1, <2>2 DEF SessionsKnowPrevious
  <2>4. p # i /\ contracts[p].version \in 1..Len(index[k])
    BY <1>2, <2>3 DEF IndexExact
  <2>5. Len(index[k]) \in Nat
    BY DEF StoreTypeOK
  <2>. QED  BY <2>2, <2>3, <2>4, <2>5 DEF Stored
<1>. QED  BY <1>1, <1>2

(* Following previous hashes always leads to older versions of the same    *)
(* counterparty and product group, with any number of concurrent           *)
(* ingestions.                                                             *)
THEOREM PreviousIsOlderCorrect == Spec => []PreviousIsOlder
<1>. USE StoreAssumption, ReviewAssumption
<1>1. Init => SessionsKnowPrevious /\ PreviousIsOlder
  BY DEF Init, StoreInit, EmptyTables, IdleSession, SessionsKnowPrevious,
         PreviousIsOlder, Stored
<1>2. TypeOK /\ IndexExact /\ SessionsKnowPrevious /\ PreviousIsOlder /\ [Next]_vars
        => (SessionsKnowPrevious /\ PreviousIsOlder)'
  BY NextIsReviewStep, NextIsStoreStep, SessionsKnowStep, PreviousStep
<1>. QED  BY <1>1, <1>2, TypeCorrect, IndexCorrect, PTL DEF Spec

-----------------------------------------------------------------------------
(* SUPERSESSION                                                            *)

(* What an approval displaces is the approved contract of its key.         *)
LEMMA DisplacedApproved ==
  ASSUME StoreTypeOK, StoreAssumption, ActiveSetExact, NEW i \in Id,
         NEW new \in Status, NEW j \in Displaced(i, new), Stored(i)
  PROVE  /\ new = "approved" /\ j \in Id \ {i} /\ active[contracts[i].key] = j
         /\ HasStatus(j, "approved") /\ contracts[j].key = contracts[i].key
<1>1. contracts[i].key \in Key
  BY DEF Stored, StoreTypeOK, Contract
<1>2. j \in Id \ {i} /\ new = "approved" /\ active[contracts[i].key] = j
  BY DEF Displaced
<1>. QED  BY <1>1, <1>2 DEF ActiveSetExact, StoreAssumption

(* SupersededHasSuccessor is inductive relative to ActiveSetExact: nothing *)
(* leaves the active set but by a successor.                               *)
LEMMA SuccessorStep ==
  ASSUME StoreTypeOK, StoreTypeOK', StoreAssumption, ActiveSetExact, ActiveSetExact',
         SupersededHasSuccessor, StoreCases
  PROVE  SupersededHasSuccessor'
<1>. SUFFICES ASSUME NEW j \in Id, contracts'[j] # Absent,
                     contracts'[j].status = "superseded"
              PROVE  active'[contracts'[j].key] # None
  <2>1. ASSUME NEW j \in Id, HasStatus(j, "superseded")',
               active'[contracts'[j].key] # None
        PROVE  active'[contracts'[j].key] # j
    <3>1. contracts'[j].key \in Key
      BY <2>1 DEF HasStatus, Stored, StoreTypeOK, Contract
    <3>. QED  BY <2>1, <3>1 DEF ActiveSetExact, HasStatus
  <2>. QED  BY <2>1 DEF SupersededHasSuccessor, HasStatus, Stored
<1>1. ASSUME NEW i \in Id, NEW k \in Key, NEW b \in BOOLEAN,
             NEW p \in Id \cup {None}, NEW q \in BOOLEAN, Ingest(i, k, b, p, q, None)
      PROVE  active'[contracts'[j].key] # None
  <2>1. j # i /\ contracts'[j] = contracts[j] /\ active' = active
    BY <1>1, IngestFrame
  <2>. QED  BY <2>1 DEF SupersededHasSuccessor, HasStatus, Stored
<1>2. ASSUME NEW i \in Id, NEW new \in Status, NEW who \in Reviewer \cup {None},
             Decision(new, who), UpdateStatus(i, new, who)
      PROVE  active'[contracts'[j].key] # None
  <2>. DEFINE k == contracts[i].key
  <2>1. /\ Stored(i) /\ k \in Key /\ contracts'[i].status = new
        /\ contracts'[j].key = contracts[j].key /\ Stored(j)
        /\ \A m \in Id \ ({i} \cup Displaced(i, new)) : contracts'[m] = contracts[m]
    BY <1>2, UpdateStatusFrame DEF Stored, StoreTypeOK, Contract
  <2>2. new # "superseded"
    BY <1>2 DEF Decision
  <2>3. active' = IF new = "approved" THEN [active EXCEPT ![k] = i] ELSE active
    <3>1. contracts[i] \in Contract
      BY <2>1 DEF Stored, StoreTypeOK
    <3>. QED  BY <1>2, <3>1 DEF UpdateStatus, Contract
  <2>4. contracts[j].key \in Key
    BY <2>1 DEF Stored, StoreTypeOK, Contract
  <2>5. active[contracts[j].key] # None
    <3>1. CASE j \in Displaced(i, new)
      BY <2>1, <3>1, DisplacedApproved DEF StoreAssumption
    <3>2. CASE j \notin Displaced(i, new)
      <4>1. j # i /\ contracts'[j] = contracts[j]
        BY <2>1, <2>2, <3>2
      <4>. QED  BY <2>1, <4>1 DEF SupersededHasSuccessor, HasStatus
    <3>. QED  BY <3>1, <3>2
  <2>. QED  BY <2>1, <2>3, <2>4, <2>5 DEF StoreTypeOK, StoreAssumption
<1>3. CASE FieldStep
  BY <1>3 DEF FieldStep, SupersededHasSuccessor, HasStatus, Stored
<1>4. CASE Restart
  BY <1>4 DEF Restart, EmptyTables
<1>. QED  BY <1>1, <1>2, <1>3, <1>4 DEF StoreCases

(* A superseded version always has a successor in force.                   *)
THEOREM SuccessorCorrect == Spec => []SupersededHasSuccessor
<1>. USE StoreAssumption, ReviewAssumption
<1>1. Init => SupersededHasSuccessor
  BY DEF Init, StoreInit, EmptyTables, SupersededHasSuccessor, HasStatus, Stored
<1>2. TypeOK /\ TypeOK' /\ ActiveSetExact /\ ActiveSetExact' /\ SupersededHasSuccessor /\ [Next]_vars
        => SupersededHasSuccessor'
  BY NextIsReviewStep, ReviewIsStoreCases, SuccessorStep DEF TypeOK
<1>. QED  BY <1>1, <1>2, TypeCorrect, ActiveSetCorrect, PTL DEF Spec

-----------------------------------------------------------------------------
(* WHAT IS PERSISTED                                                       *)

LEMMA LogStep ==
  ASSUME StoreTypeOK, StoreTypeOK', StoreAssumption, ActiveSetExact,
         LogLagsOnlySupersession, StoreCases
  PROVE  LogLagsOnlySupersession'
<1>. DEFINE Lag(j) == /\ logged'[j] # Absent
                      /\ \/ logged'[j].status = contracts'[j].status
                         \/ /\ contracts'[j].status = "superseded"
                            /\ logged'[j].status = "approved"
<1>. SUFFICES ASSUME NEW j \in Id, contracts'[j] # Absent PROVE Lag(j)
  BY DEF LogLagsOnlySupersession, Stored
<1>0. contracts'[j] \in Contract
  BY DEF StoreTypeOK
<1>1. ASSUME logged'[j] = SnapshotOf(contracts'[j]) PROVE Lag(j)
  <2>1. SnapshotOf(contracts'[j]) # Absent
    BY <1>0, SnapshotType DEF StoreAssumption
  <2>. QED  BY <1>1, <2>1 DEF SnapshotOf
<1>2. ASSUME NEW i \in Id, NEW k \in Key, NEW b \in BOOLEAN,
             NEW p \in Id \cup {None}, NEW q \in BOOLEAN, Ingest(i, k, b, p, q, None)
      PROVE  Lag(j)
  <2>1. /\ logged' = [logged EXCEPT ![i] = SnapshotOf(contracts'[i])]
        /\ \A m \in Id \ {i} : contracts'[m] = contracts[m]
    BY <1>2, IngestFrame
  <2>2. CASE j = i
    BY <1>1, <2>1, <2>2 DEF StoreTypeOK
  <2>3. CASE j # i
    BY <2>1, <2>3 DEF LogLagsOnlySupersession, Stored, StoreTypeOK
  <2>. QED  BY <2>2, <2>3
<1>3. ASSUME NEW i \in Id, NEW new \in Status, NEW who \in Reviewer \cup {None},
             Decision(new, who), UpdateStatus(i, new, who)
      PROVE  Lag(j)
  <2>1. /\ Stored(i) /\ logged' = [logged EXCEPT ![i] = SnapshotOf(contracts'[i])]
        /\ \A m \in Id \ ({i} \cup Displaced(i, new)) : contracts'[m] = contracts[m]
        /\ \A m \in Displaced(i, new) : contracts'[m].status = "superseded"
    BY <1>3, UpdateStatusFrame
  <2>2. CASE j = i
    BY <1>1, <2>1, <2>2 DEF StoreTypeOK
  <2>3. CASE j # i /\ j \in Displaced(i, new)
    <3>1. HasStatus(j, "approved") /\ contracts'[j].status = "superseded"
      BY <2>1, <2>3, DisplacedApproved
    <3>. QED  BY <2>1, <2>3, <3>1 DEF LogLagsOnlySupersession, HasStatus, StoreTypeOK
  <2>4. CASE j # i /\ j \notin Displaced(i, new)
    BY <2>1, <2>4 DEF LogLagsOnlySupersession, Stored, StoreTypeOK
  <2>. QED  BY <2>2, <2>3, <2>4
<1>4. CASE FieldStep
  BY <1>4 DEF FieldStep, LogLagsOnlySupersession, Stored
<1>5. CASE Restart
  BY <1>5 DEF Restart, EmptyTables
<1>. QED  BY <1>2, <1>3, <1>4, <1>5 DEF StoreCases

(* What was persisted of a stored contract lags memory by a supersession   *)
(* and by nothing else.                                                    *)
THEOREM LogLagsCorrect == Spec => []LogLagsOnlySupersession
<1>. USE StoreAssumption, ReviewAssumption
<1>1. Init => LogLagsOnlySupersession
  BY DEF Init, StoreInit, EmptyTables, LogLagsOnlySupersession, Stored
<1>2. TypeOK /\ TypeOK' /\ ActiveSetExact /\ LogLagsOnlySupersession /\ [Next]_vars
        => LogLagsOnlySupersession'
  BY NextIsReviewStep, ReviewIsStoreCases, LogStep DEF TypeOK
<1>. QED  BY <1>1, <1>2, TypeCorrect, ActiveSetCorrect, PTL DEF Spec

(* A decided contract carries the name of who decided, an undecided one    *)
(* none, in memory and in the log: inductive relative to ActiveSetExact,   *)
(* because what an approval supersedes was decided.                        *)
LEMMA ReviewerStep ==
  ASSUME StoreTypeOK, StoreTypeOK', StoreAssumption, ActiveSetExact,
         DecisionNamesReviewer, StoreCases
  PROVE  DecisionNamesReviewer'
<1>. DEFINE Decided(r) == r.status \in {"approved", "rejected", "superseded"}
            Good(r) == r # Absent => (Decided(r) <=> r.reviewer # None)
<1>0. \A j \in Id : Good(contracts[j]) /\ Good(logged[j])
  BY DEF DecisionNamesReviewer
<1>. SUFFICES ASSUME NEW j \in Id PROVE Good(contracts'[j]) /\ Good(logged'[j])
  BY DEF DecisionNamesReviewer
<1>1. ASSUME Good(contracts'[j]), contracts'[j] # Absent
      PROVE  Good(SnapshotOf(contracts'[j]))
  BY <1>1 DEF SnapshotOf
<1>2. ASSUME NEW i \in Id, NEW k \in Key, NEW b \in BOOLEAN,
             NEW p \in Id \cup {None}, NEW q \in BOOLEAN, Ingest(i, k, b, p, q, None)
      PROVE  Good(contracts'[j]) /\ Good(logged'[j])
  <2>1. /\ logged' = [logged EXCEPT ![i] = SnapshotOf(contracts'[i])]
        /\ contracts'[i] # Absent
        /\ contracts'[i].status = "draft" /\ contracts'[i].reviewer = None
        /\ \A m \in Id \ {i} : contracts'[m] = contracts[m]
    BY <1>2, IngestFrame
  <2>2. Good(contracts'[j])
    BY <1>0, <2>1
  <2>3. j = i => logged'[j] = SnapshotOf(contracts'[j])
    BY <2>1 DEF StoreTypeOK
  <2>4. j # i => logged'[j] = logged[j]
    BY <2>1 DEF StoreTypeOK
  <2>. QED  BY <1>0, <1>1, <2>1, <2>2, <2>3, <2>4
<1>3. ASSUME NEW i \in Id, NEW new \in Status, NEW who \in Reviewer \cup {None},
             Decision(new, who), UpdateStatus(i, new, who)
      PROVE  Good(contracts'[j]) /\ Good(logged'[j])
  <2>1. /\ Stored(i) /\ logged' = [logged EXCEPT ![i] = SnapshotOf(contracts'[i])]
        /\ contracts'[i] # Absent
        /\ contracts'[i].status = new /\ contracts'[i].reviewer = who
        /\ \A m \in Id \ ({i} \cup Displaced(i, new)) : contracts'[m] = contracts[m]
        /\ \A m \in Displaced(i, new) : /\ contracts'[m].status = "superseded"
                                        /\ contracts'[m].reviewer = contracts[m].reviewer
    BY <1>3, UpdateStatusFrame DEF Stored
  <2>2. Decided(contracts'[i]) <=> contracts'[i].reviewer # None
    BY <1>3, <2>1 DEF Decision, StoreAssumption
  <2>3. CASE j = i
    BY <1>1, <2>1, <2>2, <2>3 DEF StoreTypeOK
  <2>4. CASE j # i
    <3>1. logged'[j] = logged[j]
      BY <2>1, <2>4 DEF StoreTypeOK
    <3>2. CASE j \in Displaced(i, new)
      <4>1. HasStatus(j, "approved")
        BY <2>1, <3>2, DisplacedApproved
      <4>. QED  BY <1>0, <2>1, <3>1, <3>2, <4>1 DEF HasStatus, Stored
    <3>3. CASE j \notin Displaced(i, new)
      BY <1>0, <2>1, <2>4, <3>1, <3>3
    <3>. QED  BY <3>2, <3>3
  <2>. QED  BY <2>3, <2>4
<1>4. CASE FieldStep
  BY <1>0, <1>4 DEF FieldStep, Stored
<1>5. CASE Restart
  BY <1>0, <1>5 DEF Restart, EmptyTables
<1>. QED  BY <1>2, <1>3, <1>4, <1>5 DEF StoreCases

(* Every decision names its reviewer, in memory and in what was persisted. *)
THEOREM DecisionNamesReviewerCorrect == Spec => []DecisionNamesReviewer
<1>. USE StoreAssumption, ReviewAssumption
<1>1. Init => DecisionNamesReviewer
  BY DEF Init, StoreInit, EmptyTables, DecisionNamesReviewer
<1>2. TypeOK /\ TypeOK' /\ ActiveSetExact /\ DecisionNamesReviewer /\ [Next]_vars
        => DecisionNamesReviewer'
  BY NextIsReviewStep, ReviewIsStoreCases, ReviewerStep DEF TypeOK
<1>. QED  BY <1>1, <1>2, TypeCorrect, ActiveSetCorrect, PTL DEF Spec

-----------------------------------------------------------------------------
(* WHAT AN APPROVAL RESTS ON                                               *)

(* An id a reviewer approves without force was logged, so that no later    *)
(* contract has it, and if it is still stored, SAP was run on it.          *)
ApproversSawSap ==
  \A c \in Client : session[c].op = "approve" =>
    /\ logged[session[c].id] # Absent
    /\ Stored(session[c].id) => contracts[session[c].id].sap # "none"

LEMMA SawSapKept ==
  ASSUME StoreTypeOK, StoreTypeOK', StoreAssumption, ReviewStep, NEW j \in Id,
         logged[j] # Absent, Stored(j) => contracts[j].sap # "none"
  PROVE  /\ logged'[j] # Absent
         /\ contracts'[j] # Absent => contracts'[j].sap # "none"
<1>1. ASSUME NEW i \in Id, contracts'[i] # Absent,
             logged' = [logged EXCEPT ![i] = SnapshotOf(contracts'[i])]
      PROVE  logged'[j] # Absent
  <2>1. SnapshotOf(contracts'[i]) # Absent
    BY <1>1, SnapshotType DEF StoreTypeOK, StoreAssumption
  <2>. QED  BY <1>1, <2>1 DEF StoreTypeOK
<1>2. ASSUME NEW i \in Id, NEW k \in Key, NEW b \in BOOLEAN,
             NEW p \in Id \cup {None}, NEW q \in BOOLEAN, Ingest(i, k, b, p, q, None)
      PROVE  /\ logged'[j] # Absent
             /\ contracts'[j] # Absent => contracts'[j].sap # "none"
  <2>1. /\ logged[i] = Absent /\ contracts'[i] # Absent
        /\ logged' = [logged EXCEPT ![i] = SnapshotOf(contracts'[i])]
        /\ \A m \in Id \ {i} : contracts'[m] = contracts[m]
    BY <1>2, IngestFrame
  <2>. QED  BY <1>1, <2>1 DEF Stored
<1>3. ASSUME NEW i \in Id, NEW new \in Status, NEW who \in Reviewer \cup {None},
             UpdateStatus(i, new, who)
      PROVE  /\ logged'[j] # Absent
             /\ contracts'[j] # Absent => contracts'[j].sap # "none"
  BY <1>1, <1>3, UpdateStatusFrame DEF Stored
<1>4. CASE FieldStep
  BY <1>4 DEF FieldStep, Stored
<1>5. CASE Restart
  BY <1>5 DEF Restart, EmptyTables
<1>. QED  BY <1>2, <1>3, <1>4, <1>5 DEF ReviewStep

LEMMA SawSapStep ==
  ASSUME TypeOK, TypeOK', StoreAssumption, LogLagsOnlySupersession, ApproversSawSap,
         ReviewStep, \A c \in Client : SessionStep(c)
  PROVE  ApproversSawSap'
<1>. SUFFICES ASSUME NEW c \in Client, session'[c].op = "approve"
              PROVE  /\ logged'[session'[c].id] # Absent
                     /\ contracts'[session'[c].id] # Absent
                          => contracts'[session'[c].id].sap # "none"
  BY DEF ApproversSawSap, Stored
<1>1. session'[c].id \in Id
  BY DEF TypeOK, Session, ContractOp
<1>2. CASE session'[c] = session[c]
  BY <1>1, <1>2, SawSapKept DEF ApproversSawSap, TypeOK
<1>3. CASE /\ Stored(session'[c].id) /\ contracts[session'[c].id].sap = "ok"
  BY <1>1, <1>3, SawSapKept DEF LogLagsOnlySupersession, TypeOK
<1>. QED  BY <1>2, <1>3 DEF SessionStep

(* Unless it is forced or the seed loader's, an approval is of a contract  *)
(* SAP validation was run on, whatever happened since the reviewer looked. *)
THEOREM ApprovalAfterSapRunCorrect == Spec => ApprovalAfterSapRun
<1>. USE StoreAssumption, ReviewAssumption
<1>1. Init => ApproversSawSap
  BY DEF Init, IdleSession, ApproversSawSap
<1>2. TypeOK /\ TypeOK' /\ LogLagsOnlySupersession /\ ApproversSawSap /\ [Next]_vars
        => ApproversSawSap'
  BY NextIsReviewStep, SawSapStep
<1>3. TypeOK /\ ApproversSawSap /\ [Next]_vars => [ApprovesAfterSapRun]_vars
  <2>. SUFFICES ASSUME TypeOK, ApproversSawSap, [Next]_vars, NEW i \in Id, Approves(i)
                PROVE  \/ contracts[i].sap # "none"
                       \/ \E c \in Client : /\ session[c].id = i
                                            /\ session[c].op \in {"force_approve", "seed_approve"}
    BY DEF ApprovesAfterSapRun
  <2>. USE DEF TypeOK
  <2>1. ReviewStep /\ Stored(i)
    BY NextIsReviewStep DEF Approves
  <2>2. \E c \in Client : /\ session[c].id = i
                          /\ session[c].op \in {"approve", "force_approve", "seed_approve"}
    <3>1. ASSUME NEW j \in Id, NEW k \in Key, NEW b \in BOOLEAN,
                 NEW p \in Id \cup {None}, NEW q \in BOOLEAN, Ingest(j, k, b, p, q, None)
          PROVE  FALSE
      BY <2>1, <3>1, IngestFrame DEF Approves
    <3>2. ASSUME NEW j \in Id, NEW new \in Status, NEW who \in Reviewer \cup {None},
                 UpdateStatus(j, new, who)
          PROVE  i = j /\ new = "approved"
      BY <3>2, UpdateStatusFrame DEF Approves
    <3>3. ~FieldStep
      BY <2>1 DEF FieldStep, Approves
    <3>4. ~Restart
      BY DEF Restart, EmptyTables, Approves
    <3>. QED  BY <2>1, <3>1, <3>2, <3>3, <3>4 DEF ReviewStep
  <2>. QED  BY <2>1, <2>2 DEF ApproversSawSap
<1>. QED  BY <1>1, <1>2, <1>3, TypeCorrect, LogLagsCorrect, PTL DEF Spec, ApprovalAfterSapRun

-----------------------------------------------------------------------------
(* THE REFINEMENT                                                          *)

(* Read off the statuses, the contracts in force are the active set.       *)
InForceIsActive == BookInForce = active

LEMMA InForceFromActiveSet ==
  TypeOK /\ ActiveSetExact => InForceIsActive
<1>. SUFFICES ASSUME TypeOK, ActiveSetExact PROVE BookInForce = active
  BY DEF InForceIsActive
<1>. USE StoreAssumption DEF TypeOK, StoreTypeOK
<1>1. ASSUME NEW k \in Key, active[k] # None PROVE InForce(k) = {active[k]}
  BY <1>1 DEF ActiveSetExact, InForce
<1>2. ASSUME NEW k \in Key, active[k] = None PROVE InForce(k) = {}
  BY <1>2 DEF ActiveSetExact, InForce
<1>3. ASSUME NEW k \in Key PROVE BookInForce[k] = active[k]
  <2>1. BookInForce[k] = IF InForce(k) = {} THEN None ELSE CHOOSE i \in InForce(k) : TRUE
    BY DEF BookInForce
  <2>2. CASE active[k] = None
    BY <1>2, <2>1, <2>2
  <2>3. CASE active[k] # None
    <3>1. InForce(k) = {active[k]}
      BY <1>1, <2>3
    <3>2. (CHOOSE i \in {active[k]} : TRUE) \in {active[k]}
      BY Zenon
    <3>. QED  BY <2>1, <3>1, <3>2
  <2>. QED  BY <2>2, <2>3
<1>. QED  BY <1>3 DEF BookInForce

LEMMA BookStep ==
  ASSUME TypeOK, StoreAssumption, ActiveSetExact, StoreCases,
         BookInForce = active, BookInForce' = active'
  PROVE  [Book!BookNext]_<<BookInForce, Retired>>
<1>. USE DEF TypeOK
<1>1. ASSUME NEW i \in Id, NEW k \in Key, NEW b \in BOOLEAN,
             NEW p \in Id \cup {None}, NEW q \in BOOLEAN, Ingest(i, k, b, p, q, None)
      PROVE  active' = active /\ Retired' = Retired
  BY <1>1, IngestFrame DEF Retired, HasStatus, Stored
<1>2. ASSUME FieldStep PROVE active' = active /\ Retired' = Retired
  BY <1>2 DEF FieldStep, Retired, HasStatus, Stored
<1>3. ASSUME Restart PROVE Book!Forget
  <2>1. active' = [k \in Key |-> None] /\ Retired' = {}
    BY <1>3 DEF Restart, EmptyTables, Retired, HasStatus, Stored
  <2>. QED  BY <2>1 DEF Book!Forget
<1>4. ASSUME NEW i \in Id, NEW new \in Status, NEW who \in Reviewer \cup {None},
             Decision(new, who), UpdateStatus(i, new, who)
      PROVE  \/ active' = active /\ Retired' = Retired
             \/ \E k \in Key : Book!Activate(k, i)
  <2>. DEFINE k == contracts[i].key
  <2>1. /\ Stored(i) /\ k \in Key
        /\ \A j \in Id : contracts'[j] # Absent <=> contracts[j] # Absent
        /\ contracts'[i].status = new
        /\ \A m \in Id \ ({i} \cup Displaced(i, new)) : contracts'[m] = contracts[m]
        /\ \A m \in Displaced(i, new) : contracts'[m].status = "superseded"
    BY <1>4, UpdateStatusFrame DEF Stored, StoreTypeOK, Contract
  <2>2. contracts[i].status \in {"draft", "pending_review", "rejected"}
        /\ new # "superseded"
    BY <1>4 DEF UpdateStatus, Accepts, ValidTransition, Decision
  <2>3. Retired' = Retired \cup Displaced(i, new)
    <3>1. \A m \in Displaced(i, new) : m \in Id \ {i} /\ Stored(m)
      BY DEF Displaced
    <3>2. ASSUME NEW m \in Id
          PROVE  m \in Retired' <=> m \in Retired \cup Displaced(i, new)
      BY <2>1, <2>2, <3>1 DEF Retired, HasStatus, Stored
    <3>. QED  BY <3>1, <3>2 DEF Retired
  <2>4. CASE new # "approved"
    BY <1>4, <2>3, <2>4 DEF UpdateStatus, Displaced
  <2>5. CASE new = "approved"
    <3>1. active' = [active EXCEPT ![k] = i]
      <4>1. contracts[i] \in Contract
        BY <2>1 DEF Stored, StoreTypeOK
      <4>. QED  BY <1>4, <2>5, <4>1 DEF UpdateStatus, Contract
    <3>2. i \notin Retired /\ \A q \in Key : active[q] # i
      BY <2>2 DEF Retired, HasStatus, ActiveSetExact
    <3>3. Displaced(i, new) = {active[k]} \ {None}
      BY <2>1, <2>5, <3>2 DEF Displaced, ActiveSetExact, HasStatus, StoreTypeOK, StoreAssumption
    <3>4. Book!Activate(k, i)
      BY <2>3, <3>1, <3>2, <3>3 DEF Book!Activate
    <3>. QED  BY <2>1, <3>4
  <2>. QED  BY <2>4, <2>5
<1>. QED  BY <1>1, <1>2, <1>3, <1>4 DEF StoreCases, Book!BookNext

(* The operations of all clients, each two or three calls of the Store,    *)
(* implement the contract book: coming into force and replacing are one    *)
(* step, and what was replaced never comes back.                           *)
THEOREM Refinement == Spec => ImplementsBook
<1>. USE StoreAssumption, ReviewAssumption
<1>1. Init => Book!BookInit
  BY DEF Init, StoreInit, EmptyTables, Book!BookInit, BookInForce, InForce, Retired,
         HasStatus, Stored
<1>2. TypeOK /\ ActiveSetExact /\ [Next]_vars /\ InForceIsActive
        /\ InForceIsActive' => [Book!BookNext]_<<BookInForce, Retired>>
  BY NextIsReviewStep, ReviewIsStoreCases, BookStep DEF InForceIsActive
<1>. QED
  BY <1>1, <1>2, InForceFromActiveSet, TypeCorrect, ActiveSetCorrect, PTL
  DEF Spec, ImplementsBook, Book!BookSpec
=============================================================================
