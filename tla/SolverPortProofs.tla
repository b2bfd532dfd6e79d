--------------------------- MODULE SolverPortProofs ---------------------------
(***************************************************************************)
(* Proofs about SolverPort, for any callers, requests and solvers.         *)
(* Nothing ties a packet to a request but counting.  The invariant says,   *)
(* of each solver the server has not given up on, exactly what is under    *)
(* way: while the server waits for the current one, the request it waits   *)
(* for or the answer to it; otherwise nothing.                             *)
(***************************************************************************)
EXTENDS SolverPort, FiniteSetTheorems, TLAPS

OnlyAnswer(p, r) ==
  \A m, n \in Data(p) : m = n /\ mailbox[n].req = r

InFlight(p, r) ==
  \/ solver[p].todo = <<r>> /\ Data(p) = {}
  \/ solver[p].todo = <<>> /\ OnlyAnswer(p, r)

Clear(p) == solver[p].todo = <<>> /\ Data(p) = {}

Awaited(p) == Waiting /\ p = server.port

Exact ==
  \A p \in Solver \ late :
    /\ Awaited(p) => InFlight(p, server.req)
    /\ ~Awaited(p) => Clear(p)

(* A solver that does not run has nothing to do, and the server waits for  *)
(* an answer of a solver only.                                             *)
Idle == \A p \in Solver : solver[p].is # "runs" => solver[p].todo = <<>>
WaitsForSolver == Waiting => server.port # 0

IInv == TypeOK /\ Idle /\ WaitsForSolver /\ Exact

CallerState == [is : Outcome, req : 0..MaxRequest, answer : 0..MaxRequest]
SolverState == [is : {"unborn", "runs", "gone"}, todo : Seq(Request)]

-----------------------------------------------------------------------------
(* What the steps are made of.                                             *)

LEMMA ReplyType ==
  ASSUME caller \in [Caller -> CallerState], NEW r \in 0..MaxRequest,
         NEW outcome \in Outcome, NEW answer \in 0..MaxRequest, Reply(r, outcome, answer)
  PROVE  caller' \in [Caller -> CallerState]
BY DEF Reply, CallerState

LEMMA SendBox ==
  ASSUME mailbox \in Seq(Message), NEW m \in Message, mailbox' = Append(mailbox, m)
  PROVE  /\ mailbox' \in Seq(Message)
         /\ \A p : ~(m.kind = "data" /\ m.solver = p) =>
              /\ Data(p)' = Data(p)
              /\ \A n \in Data(p) : mailbox'[n] = mailbox[n]
         /\ m.kind = "data" => /\ Data(m.solver)' = Data(m.solver) \cup {Len(mailbox) + 1}
                               /\ mailbox'[Len(mailbox) + 1] = m
<1>1. /\ mailbox' \in Seq(Message) /\ Len(mailbox) \in Nat
      /\ DOMAIN mailbox = 1..Len(mailbox) /\ DOMAIN mailbox' = 1..(Len(mailbox) + 1)
      /\ mailbox'[Len(mailbox) + 1] = m
      /\ \A n \in DOMAIN mailbox : mailbox'[n] = mailbox[n]
  OBVIOUS
<1>2. /\ Len(mailbox) + 1 \in DOMAIN mailbox' /\ Len(mailbox) + 1 \notin DOMAIN mailbox
      /\ DOMAIN mailbox' = DOMAIN mailbox \cup {Len(mailbox) + 1}
  BY <1>1
<1>3. ASSUME NEW p, ~(m.kind = "data" /\ m.solver = p)
      PROVE  /\ Data(p)' = Data(p)
             /\ \A n \in Data(p) : mailbox'[n] = mailbox[n]
  BY <1>1, <1>2, <1>3 DEF Data
<1>4. ASSUME m.kind = "data"
      PROVE  Data(m.solver)' = Data(m.solver) \cup {Len(mailbox) + 1}
  BY <1>1, <1>2, <1>4 DEF Data
<1>. QED  BY <1>1, <1>3, <1>4

LEMMA TakeBox ==
  ASSUME mailbox \in Seq(Message), mailbox # <<>>, mailbox' = Tail(mailbox)
  PROVE  /\ mailbox' \in Seq(Message) /\ Head(mailbox) \in Message
         /\ \A p : Data(p) = {} => Data(p)' = {}
         /\ \A p, r : OnlyAnswer(p, r) => OnlyAnswer(p, r)'
<1>1. /\ mailbox' \in Seq(Message) /\ Head(mailbox) \in Message /\ Len(mailbox) \in Nat
      /\ DOMAIN mailbox = 1..Len(mailbox) /\ DOMAIN mailbox' = 1..(Len(mailbox) - 1)
      /\ \A n \in DOMAIN mailbox' : n + 1 \in DOMAIN mailbox /\ mailbox'[n] = mailbox[n + 1]
  OBVIOUS
<1>2. \A p : \A n \in Data(p)' : n \in Nat /\ n + 1 \in Data(p) /\ mailbox'[n] = mailbox[n + 1]
  BY <1>1 DEF Data
<1>3. \A p : Data(p) = {} => Data(p)' = {}
  BY <1>2
<1>4. ASSUME NEW p, NEW r, OnlyAnswer(p, r) PROVE OnlyAnswer(p, r)'
  <2>. SUFFICES ASSUME NEW m \in Data(p)', NEW n \in Data(p)'
                PROVE  m = n /\ mailbox'[n].req = r
    BY DEF OnlyAnswer
  <2>1. /\ m \in Nat /\ n \in Nat /\ m + 1 \in Data(p) /\ n + 1 \in Data(p)
        /\ mailbox'[n] = mailbox[n + 1]
    BY <1>2
  <2>2. m + 1 = n + 1 /\ mailbox[n + 1].req = r
    BY <1>4, <2>1 DEF OnlyAnswer
  <2>3. m = n
    BY <2>1, <2>2
  <2>. QED  BY <2>1, <2>2, <2>3
<1>. QED  BY <1>1, <1>3, <1>4

LEMMA Concat ==
  ASSUME NEW S, NEW a \in Seq(S), NEW b \in Seq(S)
  PROVE  /\ a \o b \in Seq(S) /\ Len(a \o b) = Len(a) + Len(b)
         /\ \A n \in 1..(Len(a) + Len(b)) :
              (a \o b)[n] = IF n <= Len(a) THEN a[n] ELSE b[n - Len(a)]
OBVIOUS

LEMMA RemoveBox ==
  ASSUME mailbox \in Seq(Message), NEW k \in DOMAIN mailbox, mailbox' = RemoveAt(mailbox, k)
  PROVE  /\ mailbox' \in Seq(Message)
         /\ \A p : Data(p) = {} => Data(p)' = {}
         /\ \A p : Data(p) = {k} => Data(p)' = {}
<1>1. Len(mailbox) \in Nat /\ DOMAIN mailbox = 1..Len(mailbox) /\ k \in 1..Len(mailbox)
  OBVIOUS
<1>. DEFINE a == SubSeq(mailbox, 1, k - 1)
            b == SubSeq(mailbox, k + 1, Len(mailbox))
<1>2. /\ a \in Seq(Message) /\ Len(a) = k - 1 /\ \A n \in 1..(k - 1) : a[n] = mailbox[n]
  BY <1>1
<1>3. /\ b \in Seq(Message) /\ Len(b) = Len(mailbox) - k
      /\ \A n \in 1..(Len(mailbox) - k) : b[n] = mailbox[n + k]
  BY <1>1
<1>4. mailbox' = a \o b
  BY DEF RemoveAt
<1>. HIDE DEF a, b
<1>5. /\ mailbox' \in Seq(Message) /\ Len(mailbox') = Len(mailbox) - 1
      /\ DOMAIN mailbox' = 1..(Len(mailbox) - 1)
      /\ \A n \in 1..(k - 1) : mailbox'[n] = a[n]
      /\ \A n \in k..(Len(mailbox) - 1) : mailbox'[n] = b[n - (k - 1)]
  <2>1. /\ a \o b \in Seq(Message) /\ Len(a \o b) = Len(a) + Len(b)
        /\ \A n \in 1..Len(a) : (a \o b)[n] = a[n]
        /\ \A n \in (Len(a) + 1)..(Len(a) + Len(b)) : (a \o b)[n] = b[n - Len(a)]
    <3>1. /\ a \o b \in Seq(Message) /\ Len(a \o b) = Len(a) + Len(b)
          /\ \A n \in 1..(Len(a) + Len(b)) :
               (a \o b)[n] = IF n <= Len(a) THEN a[n] ELSE b[n - Len(a)]
      BY <1>2, <1>3, Concat
    <3>2. Len(a) \in Nat /\ Len(b) \in Nat
      BY <1>2, <1>3
    <3>. QED  BY <3>1, <3>2
  <2>2. Len(a) + Len(b) = Len(mailbox) - 1 /\ Len(a) + 1 = k
    BY <1>1, <1>2, <1>3
  <2>3. DOMAIN mailbox' = 1..Len(mailbox')
    BY <1>4, <2>1
  <2>. QED  BY <1>2, <1>4, <2>1, <2>2, <2>3
<1>6. \A n \in DOMAIN mailbox' : \E i \in DOMAIN mailbox \ {k} : mailbox'[n] = mailbox[i]
  <2>. SUFFICES ASSUME NEW n \in DOMAIN mailbox'
                PROVE  \E i \in DOMAIN mailbox \ {k} : mailbox'[n] = mailbox[i]
    OBVIOUS
  <2>1. CASE n < k
    BY <1>1, <1>2, <1>5, <2>1
  <2>2. CASE n >= k
    <3>1. n - (k - 1) \in 1..(Len(mailbox) - k) /\ n - (k - 1) + k = n + 1
      BY <1>1, <1>5, <2>2
    <3>2. mailbox'[n] = mailbox[n + 1] /\ n + 1 \in DOMAIN mailbox \ {k}
      BY <1>1, <1>3, <1>5, <2>2, <3>1
    <3>. QED  BY <3>2
  <2>. QED  BY <1>1, <1>5, <2>1, <2>2
<1>7. ASSUME NEW p, Data(p) \subseteq {k} PROVE Data(p)' = {}
  BY <1>6, <1>7 DEF Data
<1>. QED  BY <1>5, <1>7

-----------------------------------------------------------------------------

LEMMA InitIInv == Init => IInv
<1>. SUFFICES ASSUME Init PROVE IInv
  OBVIOUS
<1>0. MaxRequest \in Nat /\ MaxSolver \in Nat \ {0}
  BY PortAssumption
<1>1. \A p \in Solver : solver[p] \in SolverState /\ solver[p].todo = <<>>
  BY DEF Init, New, SolverState
<1>2. TypeOK
  <2>1. caller \in [Caller -> CallerState]
    BY <1>0 DEF Init, CallerState, Outcome
  <2>2. server \in [port : 0..MaxSolver, req : 0..MaxRequest]
    BY <1>0 DEF Init
  <2>3. solver \in [Solver -> SolverState]
    BY <1>1 DEF Init
  <2>. QED  BY <1>0, <2>1, <2>2, <2>3 DEF Init, TypeOK, CallerState, SolverState
<1>3. ~Waiting /\ mailbox = <<>>
  BY DEF Init, Waiting
<1>. QED  BY <1>1, <1>2, <1>3 DEF IInv, Idle, WaitsForSolver, Exact, Awaited, Clear, Data

-----------------------------------------------------------------------------
(* The callers' steps.                                                     *)

LEMMA Typed ==
  ASSUME TypeOK
  PROVE  /\ MaxRequest \in Nat /\ MaxSolver \in Nat \ {0}
         /\ caller \in [Caller -> CallerState] /\ mailbox \in Seq(Message)
         /\ server \in [port : 0..MaxSolver, req : 0..MaxRequest]
         /\ solver \in [Solver -> SolverState]
         /\ late \subseteq Solver
BY PortAssumption DEF TypeOK, CallerState, SolverState

LEMMA CallKeeps ==
  ASSUME IInv, NEW c \in Caller, Call(c)
  PROVE  IInv'
<1>. DEFINE m == [kind |-> "call", from |-> c, req |-> sent + 1]
<1>1. TypeOK /\ Exact /\ sent + 1 \in Request
  BY Typed DEF IInv, TypeOK, Call, Request
<1>2. m \in Message /\ m.kind # "data" /\ mailbox' = Append(mailbox, m)
  BY <1>1 DEF Message, Call
<1>. HIDE DEF m
<1>3. /\ mailbox' \in Seq(Message)
      /\ \A p : Data(p)' = Data(p) /\ \A n \in Data(p) : mailbox'[n] = mailbox[n]
  BY <1>1, <1>2, Typed, SendBox
<1>4. caller' \in [Caller -> CallerState] /\ sent' \in 0..MaxRequest
  BY <1>1, Typed DEF Call, CallerState, Outcome, Request
<1>5. UNCHANGED <<installed, server, solver, late, crashes>>
  BY DEF Call
<1>6. TypeOK'
  BY <1>1, <1>3, <1>4, <1>5 DEF TypeOK, CallerState
<1>7. Exact'
  BY <1>1, <1>3, <1>5 DEF Exact, Awaited, Waiting, InFlight, Clear, OnlyAnswer
<1>. QED  BY <1>5, <1>6, <1>7 DEF IInv, Idle, WaitsForSolver, Waiting

LEMMA CallTimeoutKeeps ==
  ASSUME IInv, NEW c \in Caller, CallTimeout(c)
  PROVE  IInv'
<1>1. caller' \in [Caller -> CallerState]
  BY Typed DEF IInv, CallTimeout, CallerState, Outcome
<1>2. UNCHANGED <<installed, mailbox, server, solver, sent, late, crashes>>
  BY DEF CallTimeout
<1>3. TypeOK'
  BY <1>1, <1>2 DEF IInv, TypeOK, CallerState
<1>. QED  BY <1>2, <1>3 DEF IInv, Idle, WaitsForSolver, Waiting, Exact, Awaited, InFlight,
                            Clear, Data, OnlyAnswer

-----------------------------------------------------------------------------
(* The server's steps.  A crash leaves nothing under way.                  *)

LEMMA CrashesKeeps ==
  ASSUME IInv, Crashes
  PROVE  IInv'
<1>1. TypeOK /\ Idle
  BY DEF IInv
<1>2. /\ NextSolver \in Solver /\ mailbox' = <<>> /\ crashes' \in Nat
      /\ server' = [port |-> NextSolver, req |-> 0]
      /\ UNCHANGED <<installed, sent, late>>
  BY <1>1 DEF Crashes, TypeOK
<1>3. caller' \in [Caller -> CallerState]
  BY <1>1, Typed DEF Crashes, CallerState, Outcome
<1>4. server' \in [port : 0..MaxSolver, req : 0..MaxRequest] /\ ~Waiting'
  BY <1>1, <1>2, Typed DEF Solver, Waiting
<1>5. \A p \in Solver : solver'[p] \in SolverState /\ solver'[p].todo = <<>>
  <2>. SUFFICES ASSUME NEW p \in Solver
                PROVE  solver'[p] \in SolverState /\ solver'[p].todo = <<>>
    OBVIOUS
  <2>1. solver'[p] = IF p = NextSolver THEN New
                     ELSE IF solver[p].is = "runs" THEN [is |-> "gone", todo |-> <<>>]
                     ELSE solver[p]
    BY DEF Crashes
  <2>2. New \in SolverState /\ [is |-> "gone", todo |-> <<>>] \in SolverState
    BY DEF New, SolverState
  <2>. QED  BY <1>1, <2>1, <2>2, Typed DEF New, Idle
<1>6. solver' \in [Solver -> SolverState]
  BY <1>5 DEF Crashes
<1>7. TypeOK'
  BY <1>1, <1>2, <1>3, <1>4, <1>6 DEF TypeOK, CallerState, SolverState
<1>8. \A p : Data(p)' = {}
  BY <1>2 DEF Data
<1>. QED  BY <1>4, <1>5, <1>7, <1>8 DEF IInv, Idle, WaitsForSolver, Exact, Awaited, Clear

LEMMA HandleCallKeeps ==
  ASSUME IInv, HandleCall
  PROVE  IInv'
<1>. DEFINE m == Head(mailbox)
            p == IF server.port # 0 THEN server.port ELSE NextSolver
<1>1. TypeOK /\ Idle /\ Exact /\ ~Waiting /\ mailbox # <<>> /\ m.kind = "call"
  BY DEF IInv, HandleCall, FirstIs
<1>2. m \in Message /\ m.req \in Request
  <2>1. m \in Message
    BY <1>1, Typed
  <2>. QED  BY <1>1, <2>1 DEF Message
<1>3. \A q \in Solver \ late : Clear(q)
  BY <1>1 DEF Exact, Awaited
<1>4. ASSUME mailbox' = Tail(mailbox)
      PROVE  mailbox' \in Seq(Message) /\ \A q : Data(q) = {} => Data(q)' = {}
  BY <1>1, <1>4, Typed, TakeBox
<1>5. CASE /\ Reply(m.req, "error", 0)
           /\ mailbox' = Tail(mailbox)
           /\ UNCHANGED <<installed, server, solver, sent, late, crashes>>
  <2>1. caller' \in [Caller -> CallerState]
    BY <1>1, <1>2, <1>5, Typed, ReplyType DEF Outcome, Request
  <2>2. TypeOK'
    BY <1>1, <1>4, <1>5, <2>1 DEF TypeOK, CallerState
  <2>3. Exact'
    BY <1>1, <1>3, <1>4, <1>5 DEF Exact, Awaited, Waiting, Clear
  <2>. QED  BY <1>1, <1>5, <2>2, <2>3 DEF IInv, Idle, WaitsForSolver, Waiting
<1>6. CASE /\ p \in Solver
           /\ server' = [port |-> p, req |-> m.req]
           /\ solver' = [solver EXCEPT ![p] = [is |-> "runs", todo |-> Append(@.todo, m.req)]]
           /\ mailbox' = Tail(mailbox)
           /\ UNCHANGED <<installed, caller, sent, late, crashes>>
  <2>. PICK q \in Solver : q = p
    BY <1>6
  <2>. PICK r \in Request : r = m.req
    BY <1>2
  <2>. HIDE DEF p, m
  <2>1. solver[q].todo \in Seq(Request)
    BY <1>1, Typed DEF SolverState
  <2>2. /\ solver' = [solver EXCEPT ![q] = [is |-> "runs", todo |-> Append(solver[q].todo, r)]]
        /\ server' = [port |-> q, req |-> r]
    BY <1>6
  <2>3. /\ solver'[q] = [is |-> "runs", todo |-> Append(solver[q].todo, r)]
        /\ \A o \in Solver \ {q} : solver'[o] = solver[o]
        /\ solver' \in [Solver -> SolverState]
    BY <1>1, <2>1, <2>2, Typed DEF SolverState
  <2>4. server' \in [port : 0..MaxSolver, req : 0..MaxRequest]
    BY <1>1, <2>2, Typed DEF Solver, Request
  <2>5. TypeOK'
    BY <1>1, <1>4, <1>6, <2>3, <2>4 DEF TypeOK, SolverState
  <2>6. Idle' /\ WaitsForSolver'
    BY <1>1, <2>2, <2>3 DEF Idle, WaitsForSolver, Solver
  <2>7. \A o \in Solver \ late : Data(o)' = {} /\ (o # q => Clear(o)')
    BY <1>3, <1>4, <1>6, <2>3 DEF Clear
  <2>8. q \notin late => solver'[q].todo = <<r>>
    <3>1. Append(<<>>, r) = <<r>>
      OBVIOUS
    <3>2. solver'[q].todo = Append(solver[q].todo, r)
      BY <2>3
    <3>3. q \notin late => solver[q].todo = <<>>
      BY <1>3 DEF Clear
    <3>. QED  BY <3>1, <3>2, <3>3, Zenon
  <2>9. /\ late' = late
        /\ \A o \in Solver : Awaited(o)' <=> o = q
    BY <1>6, <2>2, Typed, <1>1 DEF Awaited, Waiting, Request
  <2>10. server'.req = r
    BY <2>2
  <2>11. \A o \in Solver \ late : o = q => InFlight(o, server.req)'
    BY <2>7, <2>8, <2>10 DEF InFlight
  <2>. QED  BY <2>5, <2>6, <2>7, <2>9, <2>11 DEF IInv, Exact
<1>7. CASE Crashes
  BY <1>7, CrashesKeeps
<1>. QED  BY <1>5, <1>6, <1>7 DEF HandleCall

LEMMA ReceiveDataKeeps ==
  ASSUME IInv, ReceiveData
  PROVE  IInv'
<1>1. TypeOK /\ Idle /\ Exact /\ Waiting
  BY DEF IInv, ReceiveData
<1>2. PICK k \in DataAt : /\ Reply(server.req, "ok", mailbox[k].req)
                         /\ mailbox' = RemoveAt(mailbox, k)
  BY DEF ReceiveData
<1>3. k \in DOMAIN mailbox /\ k \in Data(server.port) /\ mailbox[k].kind = "data"
  BY DEF DataAt, Data
<1>4. /\ mailbox' \in Seq(Message)
      /\ \A p : Data(p) = {} => Data(p)' = {}
      /\ \A p : Data(p) = {k} => Data(p)' = {}
  BY <1>1, <1>2, <1>3, Typed, RemoveBox
<1>5. mailbox[k].req \in Request
  <2>1. mailbox[k] \in Message
    BY <1>1, <1>3, Typed
  <2>. QED  BY <1>3, <2>1 DEF Message
<1>6. server.req \in 0..MaxRequest /\ server.port \in 0..MaxSolver
  BY <1>1, Typed
<1>7. caller' \in [Caller -> CallerState]
  BY <1>1, <1>2, <1>5, <1>6, Typed, ReplyType DEF Outcome, Request
<1>8. /\ server' \in [port : 0..MaxSolver, req : 0..MaxRequest]
      /\ ~Waiting' /\ UNCHANGED <<installed, solver, sent, late, crashes>>
  BY <1>1, Typed DEF ReceiveData, Waiting
<1>9. TypeOK'
  BY <1>1, <1>4, <1>7, <1>8 DEF TypeOK, CallerState
<1>10. ASSUME NEW p \in Solver \ late PROVE Clear(p)'
  <2>1. CASE p # server.port
    <3>1. Clear(p)
      BY <1>1, <2>1 DEF Exact, Awaited
    <3>. QED  BY <1>4, <1>8, <3>1 DEF Clear
  <2>2. CASE p = server.port
    <3>1. InFlight(p, server.req) /\ k \in Data(p)
      BY <1>1, <1>3, <2>2 DEF Exact, Awaited
    <3>2. solver[p].todo = <<>> /\ Data(p) = {k}
      BY <3>1 DEF InFlight, OnlyAnswer
    <3>. QED  BY <1>4, <1>8, <3>2 DEF Clear
  <2>. QED  BY <2>1, <2>2
<1>. QED  BY <1>1, <1>8, <1>9, <1>10 DEF IInv, Idle, WaitsForSolver, Exact, Awaited

LEMMA ReceiveTimeoutKeeps ==
  ASSUME IInv, ReceiveTimeout
  PROVE  IInv'
<1>1. TypeOK /\ Idle /\ Exact /\ Waiting /\ WaitsForSolver
  BY DEF IInv, ReceiveTimeout
<1>2. server.req \in 0..MaxRequest /\ server.port \in Solver
  BY <1>1, Typed DEF WaitsForSolver, Solver
<1>3. caller' \in [Caller -> CallerState]
  BY <1>1, <1>2, Typed, ReplyType DEF Outcome, ReceiveTimeout
<1>4. /\ server' \in [port : 0..MaxSolver, req : 0..MaxRequest]
      /\ ~Waiting' /\ UNCHANGED <<installed, mailbox, solver, sent, crashes>>
      /\ late' = late \cup {server.port}
  BY <1>1, Typed DEF ReceiveTimeout, Waiting
<1>5. TypeOK'
  BY <1>1, <1>2, <1>3, <1>4 DEF TypeOK, CallerState
<1>6. ASSUME NEW p \in Solver \ late' PROVE Clear(p)'
  <2>1. Clear(p)
    BY <1>1, <1>4, <1>6 DEF Exact, Awaited
  <2>. QED  BY <1>4, <2>1 DEF Clear, Data
<1>. QED  BY <1>1, <1>4, <1>5, <1>6 DEF IInv, Idle, WaitsForSolver, Exact, Awaited

LEMMA HandleExitKeeps ==
  ASSUME IInv, HandleExit
  PROVE  IInv'
<1>1. TypeOK /\ Idle /\ Exact /\ ~Waiting /\ mailbox # <<>>
  BY DEF IInv, HandleExit, FirstIs
<1>2. /\ UNCHANGED <<installed, caller, solver, sent, late, crashes>>
      /\ mailbox' = Tail(mailbox)
  BY DEF HandleExit
<1>3. mailbox' \in Seq(Message) /\ \A p : Data(p) = {} => Data(p)' = {}
  BY <1>1, <1>2, Typed, TakeBox
<1>4. server' \in [port : 0..MaxSolver, req : 0..MaxRequest] /\ ~Waiting'
  <2>1. CASE server' = server
    BY <1>1, <2>1, Typed DEF Waiting
  <2>2. CASE server' = [server EXCEPT !.port = 0]
    BY <1>1, <2>2, Typed DEF Waiting
  <2>. QED  BY <2>1, <2>2 DEF HandleExit
<1>5. TypeOK'
  BY <1>1, <1>2, <1>3, <1>4 DEF TypeOK
<1>6. \A p \in Solver \ late : Clear(p)'
  BY <1>1, <1>2, <1>3 DEF Exact, Awaited, Clear
<1>. QED  BY <1>1, <1>2, <1>4, <1>5, <1>6 DEF IInv, Idle, WaitsForSolver, Exact, Awaited

-----------------------------------------------------------------------------
(* The solver's steps.                                                     *)

LEMMA SolverAnswersKeeps ==
  ASSUME IInv, NEW p \in Solver, SolverAnswers(p)
  PROVE  IInv'
<1>1. TypeOK /\ Idle /\ Exact /\ WaitsForSolver
  BY DEF IInv
<1>2. /\ solver[p].is = "runs" /\ solver[p].todo \in Seq(Request) /\ solver[p].todo # <<>>
      /\ UNCHANGED <<installed, caller, server, sent, late, crashes>>
  BY <1>1, Typed DEF SolverAnswers, SolverState
<1>3. PICK r \in Request : r = Head(solver[p].todo)
  BY <1>2
<1>. DEFINE m == [kind |-> "data", solver |-> p, req |-> r]
<1>4. m \in Message /\ m.kind = "data" /\ m.solver = p /\ m.req = r
  BY DEF Message
<1>5. mailbox' = Append(mailbox, m)
  BY <1>3 DEF SolverAnswers
<1>. HIDE DEF m
<1>6. /\ mailbox' \in Seq(Message)
      /\ Data(p)' = Data(p) \cup {Len(mailbox) + 1}
      /\ mailbox'[Len(mailbox) + 1].req = r
      /\ \A q : q # p => /\ Data(q)' = Data(q)
                         /\ \A n \in Data(q) : mailbox'[n] = mailbox[n]
  BY <1>1, <1>4, <1>5, Typed, SendBox
<1>7. /\ solver' \in [Solver -> SolverState] /\ solver'[p].is = "runs"
      /\ solver'[p].todo = Tail(solver[p].todo)
      /\ \A q \in Solver \ {p} : solver'[q] = solver[q]
  <2>1. Tail(solver[p].todo) \in Seq(Request)
    BY <1>2
  <2>. QED  BY <1>1, <2>1, <1>2, Typed DEF SolverAnswers, SolverState
<1>8. TypeOK'
  BY <1>1, <1>2, <1>6, <1>7 DEF TypeOK, SolverState
<1>9. \A q \in Solver : Awaited(q)' <=> Awaited(q)
  BY <1>2 DEF Awaited, Waiting
<1>10. ASSUME NEW q \in Solver \ late, Awaited(q) PROVE InFlight(q, server.req)'
  <2>1. InFlight(q, server.req)
    BY <1>1, <1>10 DEF Exact
  <2>2. CASE q # p
    BY <1>2, <1>6, <1>7, <2>1, <2>2 DEF InFlight, OnlyAnswer
  <2>3. CASE q = p
    <3>1. solver[p].todo = <<server.req>> /\ Data(p) = {}
      BY <1>2, <2>1, <2>3 DEF InFlight
    <3>2. Tail(<<server.req>>) = <<>> /\ Head(<<server.req>>) = server.req
      OBVIOUS
    <3>3. solver'[p].todo = <<>> /\ r = server.req
      BY <1>3, <1>7, <3>1, <3>2, Zenon
    <3>4. OnlyAnswer(p, server.req)'
      BY <1>2, <1>6, <3>1, <3>3 DEF OnlyAnswer
    <3>. QED  BY <2>3, <3>3, <3>4 DEF InFlight
  <2>. QED  BY <2>2, <2>3
<1>11. ASSUME NEW q \in Solver \ late, ~Awaited(q) PROVE Clear(q)'
  <2>1. Clear(q) /\ q # p
    BY <1>1, <1>2, <1>11 DEF Exact, Clear
  <2>. QED  BY <1>6, <1>7, <2>1 DEF Clear
<1>. QED  BY <1>1, <1>2, <1>7, <1>8, <1>9, <1>10, <1>11
          DEF IInv, Exact, Idle, WaitsForSolver, Waiting

LEMMA SolverExitsKeeps ==
  ASSUME IInv, NEW p \in Solver, SolverExits(p)
  PROVE  IInv'
<1>. DEFINE m == [kind |-> "exit_status", solver |-> p]
<1>1. TypeOK /\ Idle /\ Exact /\ WaitsForSolver
  BY DEF IInv
<1>2. m \in Message /\ m.kind # "data" /\ mailbox' = Append(mailbox, m)
  BY DEF Message, SolverExits
<1>. HIDE DEF m
<1>3. /\ mailbox' \in Seq(Message)
      /\ \A q : Data(q)' = Data(q) /\ \A n \in Data(q) : mailbox'[n] = mailbox[n]
  BY <1>1, <1>2, Typed, SendBox
<1>4. /\ solver' = [solver EXCEPT ![p] = [is |-> "gone", todo |-> <<>>]]
      /\ UNCHANGED <<installed, caller, server, sent, late, crashes>>
  BY DEF SolverExits
<1>5. /\ solver' \in [Solver -> SolverState] /\ solver'[p].todo = <<>>
      /\ \A q \in Solver \ {p} : solver'[q] = solver[q]
  BY <1>1, <1>4, Typed DEF SolverState
<1>6. TypeOK'
  BY <1>1, <1>3, <1>4, <1>5 DEF TypeOK, SolverState
<1>7. \A q \in Solver : Awaited(q)' <=> Awaited(q)
  BY <1>4 DEF Awaited, Waiting
<1>8. ASSUME NEW q \in Solver \ late, Awaited(q) PROVE InFlight(q, server.req)'
  <2>1. InFlight(q, server.req)
    BY <1>1, <1>8 DEF Exact
  <2>2. OnlyAnswer(q, server.req) => OnlyAnswer(q, server.req)'
    BY <1>3, <1>4 DEF OnlyAnswer
  <2>3. Data(q) = {} => OnlyAnswer(q, server.req)'
    BY <1>3 DEF OnlyAnswer
  <2>4. CASE q = p
    BY <1>5, <2>1, <2>2, <2>3, <2>4 DEF InFlight
  <2>5. CASE q # p
    BY <1>3, <1>4, <1>5, <2>1, <2>2, <2>5 DEF InFlight
  <2>. QED  BY <2>4, <2>5
<1>9. ASSUME NEW q \in Solver \ late, ~Awaited(q) PROVE Clear(q)'
  BY <1>1, <1>3, <1>5, <1>9 DEF Exact, Clear
<1>. QED  BY <1>1, <1>4, <1>5, <1>6, <1>7, <1>8, <1>9
          DEF IInv, Exact, Idle, WaitsForSolver, Waiting

LEMMA NextKeeps == IInv /\ [Next]_vars => IInv'
<1>. SUFFICES ASSUME IInv, [Next]_vars PROVE IInv'
  OBVIOUS
<1>1. ASSUME NEW c \in Caller, Call(c) \/ CallTimeout(c) PROVE IInv'
  BY <1>1, CallKeeps, CallTimeoutKeeps
<1>2. CASE ServerStep
  BY <1>2, HandleCallKeeps, ReceiveDataKeeps, ReceiveTimeoutKeeps, HandleExitKeeps, CrashesKeeps
  DEF ServerStep, HandleStray
<1>3. ASSUME NEW p \in Solver, SolverAnswers(p) \/ SolverExits(p) PROVE IInv'
  BY <1>3, SolverAnswersKeeps, SolverExitsKeeps
<1>4. CASE UNCHANGED vars
  BY <1>4 DEF vars, IInv, TypeOK, Idle, WaitsForSolver, Waiting, Exact, Awaited, InFlight,
              Clear, Data, OnlyAnswer
<1>. QED  BY <1>1, <1>2, <1>3, <1>4 DEF Next

LEMMA AlwaysIInv == Spec => []IInv
BY InitIInv, NextKeeps, PTL DEF Spec

-----------------------------------------------------------------------------
(* The state of callers, server, mailbox and solvers always has its type.  *)
THEOREM TypeCorrect == Spec => []TypeOK
<1>1. IInv => TypeOK
  BY DEF IInv
<1>. QED  BY <1>1, AlwaysIInv, PTL

(* A solver the server has not given up on never has more than one request *)
(* or answer under way.                                                    *)
THEOREM OneInFlightCorrect == Spec => []OneInFlight
<1>1. IInv => OneInFlight
  <2>. SUFFICES ASSUME IInv, NEW p \in Solver \ late
                PROVE  Len(solver[p].todo) + Cardinality(Data(p)) <= 1
    BY DEF OneInFlight
  <2>1. Cardinality({}) = 0
    BY FS_EmptySet
  <2>2. InFlight(p, server.req) \/ Clear(p)
    BY DEF IInv, Exact
  <2>3. CASE Data(p) = {} /\ (solver[p].todo = <<>> \/ solver[p].todo = <<server.req>>)
    <3>1. Len(<<>>) = 0 /\ Len(<<server.req>>) = 1
      OBVIOUS
    <3>2. Len(solver[p].todo) = 0 \/ Len(solver[p].todo) = 1
      BY <2>3, <3>1, Zenon
    <3>3. Cardinality(Data(p)) = 0
      BY <2>1, <2>3
    <3>4. \/ Len(solver[p].todo) + Cardinality(Data(p)) = 0 + 0
          \/ Len(solver[p].todo) + Cardinality(Data(p)) = 1 + 0
      BY <3>2, <3>3, Zenon
    <3>5. 0 + 0 = 0 /\ 1 + 0 = 1
      OBVIOUS
    <3>. QED  BY <3>4, <3>5
  <2>4. CASE solver[p].todo = <<>> /\ OnlyAnswer(p, server.req)
    <3>1. Data(p) = {} \/ \E n : Data(p) = {n}
      BY <2>4 DEF OnlyAnswer
    <3>2. Cardinality(Data(p)) = 0 \/ Cardinality(Data(p)) = 1
      BY <2>1, <3>1, FS_Singleton
    <3>. QED  BY <2>4, <3>2
  <2>. QED  BY <2>2, <2>3, <2>4 DEF InFlight, Clear
<1>. QED  BY <1>1, AlwaysIInv, PTL

(* As long as the server has not given up on a solver, callers are given   *)
(* the answers to their own requests.                                      *)
THEOREM StaleOnlyAfterTimeoutCorrect == Spec => StaleOnlyAfterTimeout
<1>1. ASSUME IInv, Next PROVE AnswersOwnUnlessLate
  <2>. SUFFICES ASSUME NEW c \in Caller, caller[c].is = "waiting", caller'[c].is = "ok",
                       server.port \notin late
                PROVE  caller'[c].answer = caller[c].req
    BY DEF AnswersOwnUnlessLate
  <2>1. caller \in [Caller -> CallerState]
    BY <1>1, Typed DEF IInv
  <2>2. ReceiveData
    <3>1. ~UNCHANGED caller
      OBVIOUS
    <3>2. ASSUME Crashes PROVE FALSE
      <4>1. caller'[c] = [caller[c] EXCEPT !.is = "exit"]
        BY <3>2 DEF Crashes
      <4>2. caller[c] \in CallerState
        BY <2>1
      <4>. QED  BY <4>1, <4>2 DEF CallerState
    <3>3. \A r, answer : ~Reply(r, "error", answer)
      BY DEF Reply
    <3>4. ASSUME NEW e \in Caller, Call(e) \/ CallTimeout(e) PROVE FALSE
      <4>1. caller'[c].is \in {caller[c].is, "waiting", "exit"}
        BY <2>1, <3>4 DEF Call, CallTimeout, CallerState
      <4>. QED  BY <4>1
    <3>. QED  BY <1>1, <3>1, <3>2, <3>3, <3>4
              DEF Next, ServerStep, HandleCall, ReceiveTimeout, HandleExit, HandleStray,
                  SolverAnswers, SolverExits
  <2>3. PICK k \in DataAt : Reply(server.req, "ok", mailbox[k].req)
    BY <2>2 DEF ReceiveData
  <2>4. caller[c].req = server.req /\ caller'[c].answer = mailbox[k].req
    BY <2>3 DEF Reply
  <2>5. server.port \in Solver /\ Awaited(server.port) /\ k \in Data(server.port)
    BY <1>1, <2>2, Typed DEF IInv, WaitsForSolver, ReceiveData, Awaited, Solver, DataAt
  <2>6. InFlight(server.port, server.req)
    BY <1>1, <2>5 DEF IInv, Exact
  <2>. QED  BY <2>4, <2>5, <2>6 DEF InFlight, OnlyAnswer
<1>2. IInv /\ [Next]_vars => [AnswersOwnUnlessLate]_vars
  BY <1>1
<1>. QED  BY <1>2, AlwaysIInv, PTL DEF Spec, StaleOnlyAfterTimeout
=============================================================================
