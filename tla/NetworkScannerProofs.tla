------------------------- MODULE NetworkScannerProofs -------------------------
(***************************************************************************)
(* Proofs about NetworkScanner, for any callers, calls, scanners and       *)
(* limits.  Nobody counts: the invariant is about the order of the calls.  *)
(* What is in the mailbox, pending and with the scanner is in this order,  *)
(* and every call that waits in the mailbox is younger than all of it.     *)
(***************************************************************************)
EXTENDS NetworkScanner, TLAPS

CallKind == {"graph", "plain", "graph_token"}
LineKind == {"eol", "noeol"}
PortKind == {"eol", "noeol", "exit_status"}
At(kinds) == {n \in DOMAIN mailbox : mailbox[n].kind \in kinds}
Calls == At(CallKind)
FromPort == At(PortKind)
Exits == At({"exit_status"})
Runs == server.port # 0 /\ scanner[server.port].is = "runs"
Todo == scanner[server.port].todo

(* An exit_status is the last message of its port.                         *)
ExitLast ==
  \A n \in Exits : /\ ~Runs
                   /\ \A m \in FromPort : m <= n

(* Request numbers are given without a gap, never more of them than calls  *)
(* were taken from the mailbox.                                            *)
NoGap ==
  /\ \E low \in 1..(server.request_id + 1) :
       DOMAIN server.pending = low..server.request_id
  /\ server.request_id <= sent
  /\ \A n \in Calls : server.request_id < mailbox[n].req /\ mailbox[n].req <= sent

Counted == Range(server.pending) \cup (IF Runs THEN ToSet(Todo) ELSE {})

(* Calls are taken in the order they are made.                             *)
InOrder ==
  /\ \A m, n \in Calls : m < n => mailbox[m].req < mailbox[n].req
  /\ \A r \in Counted : r <= sent /\ \A n \in Calls : r < mailbox[n].req
  /\ \A p \in Scanner : scanner[p].is # "runs" => scanner[p].todo = <<>>
  /\ Runs => \A m, n \in DOMAIN Todo : m < n => Todo[m] < Todo[n]

(* A line that is printed comes after those printed before.                *)
Pairing ==
  "command" \notin ToSet(limits) /\ Runs =>
    \A r \in Printed, q \in ToSet(Todo) : r < q

IInv == TypeOK /\ OneScanner /\ ExitLast /\ NoGap /\ InOrder
PairInv == Paired /\ Pairing /\ AnswerIsMine

-----------------------------------------------------------------------------
(* What sending and taking messages do to the mailbox.                     *)

LEMMA Concat ==
  ASSUME NEW S, NEW a \in Seq(S), NEW b \in Seq(S)
  PROVE  /\ a \o b \in Seq(S) /\ Len(a) \in Nat /\ Len(b) \in Nat
         /\ DOMAIN a = 1..Len(a) /\ DOMAIN b = 1..Len(b)
         /\ DOMAIN (a \o b) = 1..(Len(a) + Len(b))
         /\ \A n \in 1..(Len(a) + Len(b)) :
              (a \o b)[n] = IF n <= Len(a) THEN a[n] ELSE b[n - Len(a)]
OBVIOUS

LEMMA AddBox ==
  ASSUME mailbox \in Seq(Message), NEW new \in Seq(Message), mailbox' = mailbox \o new
  PROVE  /\ mailbox' \in Seq(Message) /\ Len(mailbox) \in Nat
         /\ \A n \in DOMAIN mailbox : n \in DOMAIN mailbox' /\ mailbox'[n] = mailbox[n]
         /\ \A n \in DOMAIN mailbox : n <= Len(mailbox) /\ n \in Nat
         /\ \A n \in DOMAIN mailbox' : \/ n \in DOMAIN mailbox
                                       \/ /\ n \in Nat /\ n > Len(mailbox)
                                          /\ n - Len(mailbox) \in DOMAIN new
                                          /\ mailbox'[n] = new[n - Len(mailbox)]
         /\ \A i \in DOMAIN new : /\ Len(mailbox) + i \in DOMAIN mailbox'
                                  /\ mailbox'[Len(mailbox) + i] = new[i]
<1>. DEFINE k == Len(mailbox)
            l == Len(new)
<1>1. /\ mailbox' \in Seq(Message) /\ k \in Nat /\ l \in Nat
      /\ DOMAIN mailbox = 1..k /\ DOMAIN new = 1..l /\ DOMAIN mailbox' = 1..(k + l)
      /\ \A n \in 1..(k + l) : mailbox'[n] = IF n <= k THEN mailbox[n] ELSE new[n - k]
  BY Concat
<1>. HIDE DEF k, l
<1>2. \A n \in DOMAIN mailbox : n \in DOMAIN mailbox' /\ mailbox'[n] = mailbox[n]
  BY <1>1
<1>3. \A n \in DOMAIN mailbox' : \/ n \in DOMAIN mailbox
                                 \/ /\ n \in Nat /\ n > k
                                    /\ n - k \in DOMAIN new /\ mailbox'[n] = new[n - k]
  BY <1>1
<1>4. \A i \in DOMAIN new : k + i \in DOMAIN mailbox' /\ mailbox'[k + i] = new[i]
  <2>. SUFFICES ASSUME NEW i \in DOMAIN new
                PROVE  k + i \in DOMAIN mailbox' /\ mailbox'[k + i] = new[i]
    OBVIOUS
  <2>1. k + i \in 1..(k + l) /\ ~(k + i <= k) /\ (k + i) - k = i
    BY <1>1
  <2>. QED  BY <1>1, <2>1
<1>. QED  BY <1>1, <1>2, <1>3, <1>4 DEF k

LEMMA SendBox ==
  ASSUME mailbox \in Seq(Message), NEW m \in Message, mailbox' = Append(mailbox, m)
  PROVE  /\ mailbox' \in Seq(Message) /\ Len(mailbox) + 1 \in Nat
         /\ mailbox'[Len(mailbox) + 1] = m
         /\ \A n \in DOMAIN mailbox : n \in Nat /\ n < Len(mailbox) + 1 /\ mailbox'[n] = mailbox[n]
         /\ \A kinds : At(kinds)' = At(kinds) \cup (IF m.kind \in kinds THEN {Len(mailbox) + 1} ELSE {})
<1>1. /\ mailbox' \in Seq(Message) /\ Len(mailbox) \in Nat
      /\ DOMAIN mailbox = 1..Len(mailbox) /\ DOMAIN mailbox' = 1..(Len(mailbox) + 1)
      /\ mailbox'[Len(mailbox) + 1] = m
      /\ \A n \in DOMAIN mailbox : mailbox'[n] = mailbox[n]
  OBVIOUS
<1>2. DOMAIN mailbox' = DOMAIN mailbox \cup {Len(mailbox) + 1}
  BY <1>1
<1>3. ASSUME NEW kinds
      PROVE  At(kinds)' = At(kinds) \cup (IF m.kind \in kinds THEN {Len(mailbox) + 1} ELSE {})
  BY <1>1, <1>2 DEF At
<1>. QED  BY <1>1, <1>3

LEMMA TakeBox ==
  ASSUME mailbox \in Seq(Message), mailbox # <<>>, mailbox' = Tail(mailbox)
  PROVE  /\ mailbox' \in Seq(Message)
         /\ 1 \in DOMAIN mailbox /\ Head(mailbox) = mailbox[1] /\ Head(mailbox) \in Message
         /\ \A kinds : \A n \in At(kinds)' : /\ n \in Nat \ {0} /\ n + 1 \in At(kinds)
                                            /\ mailbox'[n] = mailbox[n + 1]
         /\ \A kinds : \A n \in At(kinds) :
              n = 1 \/ (n \in Nat /\ n > 1 /\ n - 1 \in At(kinds)' /\ mailbox'[n - 1] = mailbox[n])
<1>1. /\ mailbox' \in Seq(Message) /\ Head(mailbox) \in Message /\ Len(mailbox) \in Nat
      /\ DOMAIN mailbox = 1..Len(mailbox) /\ DOMAIN mailbox' = 1..(Len(mailbox) - 1)
      /\ 1 \in DOMAIN mailbox /\ Head(mailbox) = mailbox[1]
      /\ \A n \in DOMAIN mailbox' : n + 1 \in DOMAIN mailbox /\ mailbox'[n] = mailbox[n + 1]
  OBVIOUS
<1>2. \A n \in DOMAIN mailbox : n = 1 \/ (n > 1 /\ n - 1 \in DOMAIN mailbox' /\ mailbox'[n - 1] = mailbox[n])
  BY <1>1
<1>3. \A kinds : \A n \in At(kinds)' : /\ n \in Nat \ {0} /\ n + 1 \in At(kinds)
                                     /\ mailbox'[n] = mailbox[n + 1]
  BY <1>1 DEF At
<1>4. \A kinds : \A n \in At(kinds) :
        n = 1 \/ (n \in Nat /\ n > 1 /\ n - 1 \in At(kinds)' /\ mailbox'[n - 1] = mailbox[n])
  BY <1>1, <1>2 DEF At
<1>. QED  BY <1>1, <1>3, <1>4

LEMMA LinesAt == Lines = At(LineKind)
BY DEF Lines, At, LineKind

LEMMA Typed ==
  ASSUME TypeOK
  PROVE  /\ MaxRequest \in Nat /\ MaxScanner \in Nat \ {0} /\ sent \in 0..MaxRequest
         /\ mailbox \in Seq(Message)
         /\ server.port \in 0..MaxScanner /\ server.request_id \in 0..MaxRequest
         /\ \E S \in SUBSET Request : server.pending \in [S -> Request]
         /\ \A n \in Calls : mailbox[n].req \in Request
         /\ \A n \in Lines : mailbox[n].req \in Request
         /\ \A n \in FromPort : mailbox[n].scanner \in Scanner
<1>1. \A n \in DOMAIN mailbox : mailbox[n] \in Message
  BY DEF TypeOK
<1>. QED  BY <1>1, ScannerAssumption
          DEF TypeOK, ServerState, Pending, At, Calls, Lines, FromPort, CallKind, PortKind, Message

-----------------------------------------------------------------------------
(* With no mail, and no command given to a scanner that runs, there is     *)
(* nothing to pair: at the start, and after a crash.                       *)

LEMMA StatesTyped ==
  ASSUME NEW port \in 0..MaxScanner
  PROVE  /\ InitialServer(port) \in ServerState
         /\ InitialServer(port).port = port /\ DOMAIN InitialServer(port).pending = {}
         /\ InitialServer(port).request_id = 0
         /\ InitialTimers(port) \in [Timer -> {0, 1}]
         /\ InitialTimers(port)["restart_scanner"] = 0
         /\ InitialTimers(port)["refresh_token"] = (IF port # 0 THEN 1 ELSE 0)
         /\ New \in ScannerState /\ New.todo = <<>> /\ New.is = "runs"
         /\ Unborn \in ScannerState /\ Unborn.todo = <<>> /\ Unborn.is = "unborn"
<1>1. <<>> \in [{} -> Request] /\ {} \in SUBSET Request
  OBVIOUS
<1>2. <<>> \in Pending
  BY <1>1 DEF Pending
<1>3. InitialServer(port) \in ServerState
  BY <1>2, ScannerAssumption DEF InitialServer, ServerState
<1>4. /\ InitialTimers(port) \in [Timer -> {0, 1}]
      /\ InitialTimers(port)["restart_scanner"] = 0
      /\ InitialTimers(port)["refresh_token"] = (IF port # 0 THEN 1 ELSE 0)
  BY DEF InitialTimers, NoTimer, Timer
<1>5. DOMAIN InitialServer(port).pending = {}
  BY DEF InitialServer
<1>. QED  BY <1>3, <1>4, <1>5 DEF InitialServer, New, Unborn, ScannerState

Fresh ==
  /\ mailbox = <<>>
  /\ \E port \in 0..MaxScanner :
       server = InitialServer(port) /\ timers = InitialTimers(port)
  /\ scanner \in [Scanner -> ScannerState]
  /\ \A p \in Scanner : scanner[p].todo = <<>> /\ (scanner[p].is = "runs" => p = server.port)

RestTyped ==
  /\ caller \in [Caller -> CallerState] /\ installed \in BOOLEAN /\ sent \in 0..MaxRequest
  /\ limits \in Seq(Limit) /\ Len(limits) <= MaxLimit

LEMMA FreshIInv == Fresh /\ RestTyped => IInv /\ Paired /\ Pairing
<1>. SUFFICES ASSUME Fresh, RestTyped PROVE IInv /\ Paired /\ Pairing
  OBVIOUS
<1>1. PICK port \in 0..MaxScanner : server = InitialServer(port) /\ timers = InitialTimers(port)
  BY DEF Fresh
<1>2. /\ server \in ServerState /\ timers \in [Timer -> {0, 1}]
      /\ DOMAIN server.pending = {} /\ server.request_id = 0 /\ server.port = port
      /\ timers["restart_scanner"] = 0
      /\ timers["refresh_token"] = (IF port # 0 THEN 1 ELSE 0)
  BY <1>1, StatesTyped
<1>3. mailbox = <<>> /\ mailbox \in Seq(Message) /\ \A n : n \notin DOMAIN mailbox
  BY DEF Fresh
<1>4. TypeOK
  BY <1>2, <1>3 DEF TypeOK, Fresh, RestTyped
<1>5. OneScanner
  BY <1>2, <1>3 DEF OneScanner, Fresh
<1>6. ExitLast /\ Calls = {} /\ Lines = {} /\ Printed = {}
  BY <1>3 DEF ExitLast, Exits, At, Calls, Lines, Printed
<1>7. NoGap
  <2>1. 1 \in 1..(server.request_id + 1) /\ DOMAIN server.pending = 1..server.request_id
    BY <1>2
  <2>. QED  BY <1>2, <1>6, <2>1, ScannerAssumption DEF NoGap, RestTyped
<1>8. Range(server.pending) = {}
  BY <1>2 DEF Range
<1>9. Runs => Todo = <<>>
  BY <1>2 DEF Runs, Todo, Fresh, Scanner
<1>10. ToSet(<<>>) = {} /\ DOMAIN <<>> = {}
  BY DEF ToSet
<1>11. InOrder
  BY <1>6, <1>8, <1>9, <1>10 DEF InOrder, Counted, Fresh
<1>12. Paired /\ Pairing
  BY <1>2, <1>6, <1>8, <1>9, <1>10 DEF Paired, Pairing, Runs, Todo
<1>. QED  BY <1>4, <1>5, <1>6, <1>7, <1>11, <1>12 DEF IInv

LEMMA InitIInv == Init => IInv /\ PairInv
<1>. SUFFICES ASSUME Init PROVE IInv /\ PairInv
  OBVIOUS
<1>1. PICK port \in 0..MaxScanner : server = InitialServer(port) /\ timers = InitialTimers(port)
  <2>1. server = InitialServer(IF installed THEN 1 ELSE 0) /\ (IF installed THEN 1 ELSE 0) \in 0..MaxScanner
    BY ScannerAssumption DEF Init
  <2>2. timers = InitialTimers(IF installed THEN 1 ELSE 0)
    BY <2>1, StatesTyped DEF Init
  <2>. QED  BY <2>1, <2>2
<1>2. Fresh
  <2>1. \A p \in Scanner : /\ scanner[p] \in ScannerState /\ scanner[p].todo = <<>>
                           /\ (scanner[p].is = "runs" => p = server.port)
    BY <1>1, StatesTyped DEF Init
  <2>2. scanner \in [Scanner -> ScannerState]
    BY <2>1 DEF Init
  <2>. QED  BY <1>1, <2>1, <2>2 DEF Fresh, Init
<1>3. RestTyped
  <2>1. Len(<<>>) = 0 /\ <<>> \in Seq(Limit)
    OBVIOUS
  <2>. QED  BY <2>1, ScannerAssumption DEF Init, CallerState, RestTyped
<1>4. IInv /\ Paired /\ Pairing
  BY <1>2, <1>3, FreshIInv
<1>5. AnswerIsMine
  BY DEF AnswerIsMine, Init
<1>. QED  BY <1>4, <1>5 DEF PairInv

LEMMA CrashesKeeps ==
  ASSUME IInv, PairInv, Crashes
  PROVE  IInv' /\ PairInv'
<1>1. TypeOK /\ InOrder
  BY DEF IInv
<1>. DEFINE port == IF installed THEN NextScanner ELSE 0
<1>2. /\ port \in 0..MaxScanner /\ mailbox' = <<>>
      /\ server' = InitialServer(port) /\ timers' = InitialTimers(port)
      /\ UNCHANGED <<installed, sent, limits>>
  BY <1>1, Typed DEF Crashes, Opens, Scanner, others
<1>3. \A p \in Scanner :
        scanner'[p] = CASE p = port -> New
                        [] p # port /\ scanner[p].is = "runs" -> [is |-> "gone", todo |-> <<>>]
                        [] OTHER -> scanner[p]
  BY DEF Crashes
<1>. HIDE DEF port
<1>4. server'.port = port
  BY <1>2, StatesTyped
<1>5. ASSUME NEW p \in Scanner
      PROVE  /\ scanner'[p] \in ScannerState /\ scanner'[p].todo = <<>>
             /\ (scanner'[p].is = "runs" => p = port)
  <2>1. [is |-> "gone", todo |-> <<>>] \in ScannerState
    BY DEF ScannerState
  <2>2. CASE p = port
    BY <1>2, <1>3, <2>2, StatesTyped
  <2>3. CASE p # port /\ scanner[p].is = "runs"
    BY <1>3, <2>1, <2>3
  <2>4. CASE p # port /\ scanner[p].is # "runs"
    BY <1>1, <1>3, <2>4 DEF TypeOK, InOrder
  <2>. QED  BY <2>2, <2>3, <2>4
<1>6. scanner' \in [Scanner -> ScannerState]
  BY <1>5 DEF Crashes
<1>7. caller' \in [Caller -> CallerState]
  BY <1>1 DEF Crashes, TypeOK, CallerState
<1>8. Fresh'
  BY <1>2, <1>4, <1>5, <1>6 DEF Fresh
<1>9. IInv' /\ Paired' /\ Pairing'
  <2>1. RestTyped'
    BY <1>1, <1>2, <1>7 DEF TypeOK, RestTyped
  <2>. QED  BY <1>8, <2>1, FreshIInv, PTL
<1>10. AnswerIsMine'
  <2>1. \A c \in Caller : caller'[c].is = "ok" => caller'[c] = caller[c]
    BY <1>1 DEF Crashes, TypeOK, CallerState
  <2>. QED  BY <1>2, <2>1 DEF PairInv, AnswerIsMine
<1>. QED  BY <1>9, <1>10 DEF PairInv

-----------------------------------------------------------------------------
(* Steps that leave mailbox, requests and scanners alone.                  *)

Structure == OneScanner /\ ExitLast /\ NoGap /\ InOrder /\ Paired /\ Pairing

LEMMA SameStructure ==
  ASSUME Structure,
         server'.port = server.port, server'.pending = server.pending,
         server'.request_id = server.request_id,
         UNCHANGED <<mailbox, timers, scanner, sent, limits>>
  PROVE  Structure'
<1>1. /\ (Runs <=> Runs') /\ Todo' = Todo /\ Lines' = Lines /\ Printed' = Printed
      /\ Calls' = Calls /\ FromPort' = FromPort /\ Exits' = Exits
  BY DEF Runs, Todo, Lines, Printed, Calls, FromPort, Exits, At
<1>2. Counted' = Counted
  BY <1>1 DEF Counted
<1>3. OneScanner' /\ ExitLast'
  BY <1>1 DEF Structure, OneScanner, ExitLast
<1>4. NoGap'
  BY <1>1 DEF Structure, NoGap
<1>5. InOrder'
  BY <1>1, <1>2 DEF Structure, InOrder
<1>6. Paired' /\ Pairing'
  BY <1>1 DEF Structure, Paired, Pairing, Runs
<1>. QED  BY <1>3, <1>4, <1>5, <1>6 DEF Structure

LEMMA QuietKeeps ==
  ASSUME IInv, PairInv,
         \/ \E c \in Caller : CallTimeout(c)
         \/ HandleRefresh \/ TokenExpires \/ Install \/ UNCHANGED vars
  PROVE  IInv' /\ PairInv'
<1>1. TypeOK /\ Structure /\ AnswerIsMine
  BY DEF IInv, PairInv, Structure
<1>2. UNCHANGED <<mailbox, timers, scanner, sent, limits>>
  BY DEF CallTimeout, HandleRefresh, TokenExpires, Install, others, vars
<1>3. /\ server' \in ServerState /\ server'.port = server.port
      /\ server'.pending = server.pending /\ server'.request_id = server.request_id
  <2>1. server \in ServerState
    BY <1>1 DEF TypeOK
  <2>2. CASE server' = server
    BY <2>1, <2>2
  <2>3. CASE server' = [server EXCEPT !.token = TRUE]
    BY <2>1, <2>3 DEF ServerState
  <2>4. CASE server' = [server EXCEPT !.token = FALSE]
    BY <2>1, <2>4 DEF ServerState
  <2>. QED  BY <2>2, <2>3, <2>4 DEF CallTimeout, HandleRefresh, TokenExpires, Install, vars
<1>4. Structure'
  BY <1>1, <1>2, <1>3, SameStructure
<1>5. /\ caller' \in [Caller -> CallerState]
      /\ \A c \in Caller : caller'[c].is = "ok" => caller'[c] = caller[c]
  <2>1. caller \in [Caller -> CallerState]
    BY <1>1 DEF TypeOK
  <2>2. CASE caller' = caller
    BY <2>1, <2>2
  <2>3. ASSUME NEW c \in Caller, caller' = [caller EXCEPT ![c].is = "exit"]
        PROVE  /\ caller' \in [Caller -> CallerState]
               /\ \A e \in Caller : caller'[e].is = "ok" => caller'[e] = caller[e]
    BY <2>1, <2>3 DEF CallerState
  <2>. QED  BY <2>2, <2>3 DEF CallTimeout, HandleRefresh, TokenExpires, Install, vars
<1>6. installed' \in BOOLEAN
  BY <1>1 DEF CallTimeout, HandleRefresh, TokenExpires, Install, others, vars, TypeOK
<1>7. TypeOK'
  BY <1>1, <1>2, <1>3, <1>5, <1>6 DEF TypeOK
<1>8. AnswerIsMine'
  BY <1>1, <1>2, <1>5 DEF AnswerIsMine
<1>. QED  BY <1>4, <1>7, <1>8 DEF IInv, PairInv, Structure

-----------------------------------------------------------------------------
(* A new call is younger than everything.                                  *)

LEMMA CallKeeps ==
  ASSUME IInv, PairInv, NEW c \in Caller, NEW kind \in CallKind, Call(c, kind)
  PROVE  IInv' /\ PairInv'
<1>1. /\ TypeOK /\ OneScanner /\ ExitLast /\ NoGap /\ InOrder
      /\ Paired /\ Pairing /\ AnswerIsMine
  BY DEF IInv, PairInv
<1>2. /\ sent' = sent + 1 /\ sent \in Nat /\ sent' \in Request /\ sent' \in 0..MaxRequest
      /\ UNCHANGED <<server, timers, scanner, installed, limits>>
  BY <1>1, Typed DEF Call, Request
<1>3. PICK r \in Request : r = sent + 1
  BY <1>2
<1>. DEFINE m == [kind |-> kind, req |-> r]
            L == Len(mailbox) + 1
<1>4. m \in Message /\ m.kind = kind /\ m.req = r /\ mailbox' = Append(mailbox, m)
  BY <1>2, <1>3 DEF Message, Call, CallKind
<1>. HIDE DEF m
<1>5. /\ mailbox' \in Seq(Message) /\ L \in Nat /\ mailbox'[L].req = r
      /\ \A n \in DOMAIN mailbox : n \in Nat /\ n < L /\ mailbox'[n] = mailbox[n]
      /\ Calls' = Calls \cup {L} /\ FromPort' = FromPort /\ Exits' = Exits /\ Lines' = Lines
  <2>1. kind \notin PortKind /\ kind \notin LineKind /\ kind \notin {"exit_status"}
    BY DEF CallKind, PortKind, LineKind
  <2>2. mailbox \in Seq(Message)
    BY <1>1, Typed
  <2>3. Lines = At(LineKind) /\ Lines' = At(LineKind)'
    BY DEF Lines, At, LineKind
  <2>. HIDE DEF L
  <2>4. /\ mailbox' \in Seq(Message) /\ L \in Nat /\ mailbox'[L] = m
        /\ \A n \in DOMAIN mailbox : n \in Nat /\ n < L /\ mailbox'[n] = mailbox[n]
        /\ \A kinds : At(kinds)' = At(kinds) \cup (IF m.kind \in kinds THEN {L} ELSE {})
    BY <1>4, <2>2, SendBox DEF L
  <2>5. /\ At(CallKind)' = At(CallKind) \cup {L} /\ At(PortKind)' = At(PortKind)
        /\ At({"exit_status"})' = At({"exit_status"}) /\ At(LineKind)' = At(LineKind)
    BY <1>4, <2>1, <2>4
  <2>. QED  BY <1>4, <2>3, <2>4, <2>5 DEF Calls, FromPort, Exits
<1>. HIDE DEF L
<1>6. /\ Calls \subseteq DOMAIN mailbox /\ Lines \subseteq DOMAIN mailbox
      /\ FromPort \subseteq DOMAIN mailbox
  BY DEF Calls, Lines, FromPort, At
<1>7. caller' \in [Caller -> CallerState]
  <2>1. [is |-> "waiting", req |-> r, answer |-> 0] \in CallerState
    BY <1>2, <1>3, ScannerAssumption DEF CallerState, Request
  <2>2. caller' = [caller EXCEPT ![c] = [is |-> "waiting", req |-> r, answer |-> 0]]
    BY <1>2, <1>3 DEF Call
  <2>. QED  BY <1>1, <2>1, <2>2 DEF TypeOK
<1>8. TypeOK'
  BY <1>1, <1>2, <1>5, <1>7 DEF TypeOK
<1>9. Runs' = Runs /\ Todo' = Todo /\ Counted' = Counted
  BY <1>2 DEF Runs, Todo, Counted
<1>10. Printed' = Printed
  BY <1>5, <1>6 DEF Printed
<1>11. OneScanner'
  <2>1. \A n \in DOMAIN mailbox' : mailbox'[n].kind \in PortKind => n \in FromPort
    BY <1>5 DEF FromPort, At
  <2>2. \A n \in FromPort : mailbox'[n].scanner = server.port
    BY <1>1, <1>5, <1>6 DEF OneScanner, FromPort, At, PortKind
  <2>. QED  BY <1>1, <1>2, <2>1, <2>2 DEF OneScanner, PortKind
<1>12. ExitLast'
  BY <1>1, <1>5, <1>9 DEF ExitLast
<1>13. \A n \in Calls : mailbox[n].req < r
  BY <1>1, <1>2, <1>3, Typed DEF NoGap, Request
<1>14. NoGap'
  <2>1. server' = server /\ sent' = r /\ sent <= r /\ server.request_id < r
    BY <1>1, <1>2, <1>3, Typed DEF NoGap, Request
  <2>2. \E low \in 1..(server'.request_id + 1) :
          DOMAIN server'.pending = low..server'.request_id
    BY <1>1, <2>1 DEF NoGap
  <2>3. server'.request_id <= sent'
    BY <1>1, <1>2, <2>1, Typed DEF Request
  <2>4. ASSUME NEW n \in Calls'
        PROVE  server'.request_id < mailbox'[n].req /\ mailbox'[n].req <= sent'
    <3>1. CASE n \in Calls
      <4>1. mailbox'[n] = mailbox[n]
        BY <1>5, <1>6, <3>1
      <4>2. server.request_id < mailbox[n].req /\ mailbox[n].req < r
        BY <1>1, <1>13, <3>1 DEF NoGap
      <4>3. mailbox[n].req <= r
        BY <1>1, <1>2, <3>1, <4>2, Typed DEF Request
      <4>. QED  BY <2>1, <4>1, <4>2, <4>3
    <3>2. CASE n = L
      BY <1>2, <1>5, <2>1, <3>2 DEF Request
    <3>. QED  BY <1>5, <2>4, <3>1, <3>2
  <2>. QED  BY <2>2, <2>3, <2>4 DEF NoGap
<1>15. InOrder'
  <2>1. \A q \in Counted : q <= sent'  /\ \A n \in Calls' : q < mailbox'[n].req
    <3>. SUFFICES ASSUME NEW q \in Counted
                  PROVE  q <= sent' /\ \A n \in Calls' : q < mailbox'[n].req
      OBVIOUS
    <3>1. q <= sent /\ q \in Nat
      <4>1. q \in Request
        BY <1>1, Typed DEF Counted, Range, Runs, Todo, ToSet, TypeOK, ScannerState, Scanner
      <4>. QED  BY <1>1, <4>1 DEF InOrder, Request
    <3>. QED  BY <1>1, <1>2, <1>3, <1>5, <1>6, <3>1 DEF InOrder
  <2>2. \A i, j \in Calls' : i < j => mailbox'[i].req < mailbox'[j].req
    <3>. SUFFICES ASSUME NEW i \in Calls', NEW j \in Calls', i < j
                  PROVE  mailbox'[i].req < mailbox'[j].req
      OBVIOUS
    <3>1. i \in Calls
      BY <1>5, <1>6
    <3>. QED  BY <1>1, <1>5, <1>6, <1>13, <3>1 DEF InOrder
  <2>. QED  BY <1>1, <1>2, <1>9, <2>1, <2>2 DEF InOrder
<1>16. Paired' /\ Pairing'
  BY <1>1, <1>2, <1>5, <1>6, <1>9, <1>10 DEF Paired, Pairing, Runs, Todo
<1>17. AnswerIsMine'
  BY <1>1, <1>2 DEF AnswerIsMine, Call, TypeOK, CallerState
<1>. QED  BY <1>8, <1>11, <1>12, <1>14, <1>15, <1>16, <1>17 DEF IInv, PairInv

-----------------------------------------------------------------------------
(* Taking the first message leaves the others in their order.              *)

LEMMA Taken ==
  ASSUME IInv, PairInv, mailbox # <<>>, mailbox' = Tail(mailbox)
  PROVE  /\ mailbox' \in Seq(Message)
         /\ 1 \in DOMAIN mailbox /\ Head(mailbox) = mailbox[1] /\ Head(mailbox) \in Message
         /\ \A n \in Calls' : n \in Nat \ {0} /\ n + 1 \in Calls /\ mailbox'[n] = mailbox[n + 1]
         /\ \A n \in FromPort' : n \in Nat \ {0} /\ n + 1 \in FromPort /\ mailbox'[n] = mailbox[n + 1]
         /\ \A n \in Lines' : n \in Nat \ {0} /\ n + 1 \in Lines /\ mailbox'[n] = mailbox[n + 1]
         /\ \A n \in Exits' : n \in Nat \ {0} /\ n + 1 \in Exits /\ mailbox'[n] = mailbox[n + 1]
         /\ \A m, n \in Calls' : m < n => mailbox'[m].req < mailbox'[n].req
         /\ "command" \notin ToSet(limits) =>
              \A m, n \in Lines' : m < n => mailbox'[m].req < mailbox'[n].req
         /\ \A n \in Exits', m \in FromPort' : m <= n
         /\ Printed' \subseteq Printed
         /\ Head(mailbox).kind \notin LineKind => Printed' = Printed
         /\ \A r \in Printed : r \in Printed' \/ r = Head(mailbox).req
<1>1. /\ TypeOK /\ ExitLast /\ InOrder /\ Paired /\ mailbox \in Seq(Message)
  BY DEF IInv, PairInv, TypeOK
<1>2. /\ mailbox' \in Seq(Message)
      /\ 1 \in DOMAIN mailbox /\ Head(mailbox) = mailbox[1] /\ Head(mailbox) \in Message
      /\ \A kinds : \A n \in At(kinds)' : /\ n \in Nat \ {0} /\ n + 1 \in At(kinds)
                                         /\ mailbox'[n] = mailbox[n + 1]
      /\ \A kinds : \A n \in At(kinds) :
           n = 1 \/ (n \in Nat /\ n > 1 /\ n - 1 \in At(kinds)' /\ mailbox'[n - 1] = mailbox[n])
  BY <1>1, TakeBox
<1>3. /\ Calls = At(CallKind) /\ Calls' = At(CallKind)'
      /\ FromPort = At(PortKind) /\ FromPort' = At(PortKind)'
      /\ Lines = At(LineKind) /\ Lines' = At(LineKind)'
      /\ Exits = At({"exit_status"}) /\ Exits' = At({"exit_status"})'
  BY DEF Calls, FromPort, Lines, Exits, At, LineKind
<1>4. \A n \in Calls' : n \in Nat \ {0} /\ n + 1 \in Calls /\ mailbox'[n] = mailbox[n + 1]
  BY <1>2, <1>3
<1>5. \A n \in FromPort' : n \in Nat \ {0} /\ n + 1 \in FromPort /\ mailbox'[n] = mailbox[n + 1]
  BY <1>2, <1>3
<1>6. \A n \in Lines' : n \in Nat \ {0} /\ n + 1 \in Lines /\ mailbox'[n] = mailbox[n + 1]
  BY <1>2, <1>3
<1>7. \A n \in Exits' : n \in Nat \ {0} /\ n + 1 \in Exits /\ mailbox'[n] = mailbox[n + 1]
  BY <1>2, <1>3
<1>8. \A m, n \in Calls' : m < n => mailbox'[m].req < mailbox'[n].req
  <2>. SUFFICES ASSUME NEW m \in Calls', NEW n \in Calls', m < n
                PROVE  mailbox'[m].req < mailbox'[n].req
    OBVIOUS
  <2>1. m + 1 \in Calls /\ n + 1 \in Calls /\ m + 1 < n + 1
    BY <1>4
  <2>. QED  BY <1>1, <1>4, <2>1 DEF InOrder
<1>9. "command" \notin ToSet(limits) =>
        \A m, n \in Lines' : m < n => mailbox'[m].req < mailbox'[n].req
  <2>. SUFFICES ASSUME "command" \notin ToSet(limits), NEW m \in Lines', NEW n \in Lines', m < n
                PROVE  mailbox'[m].req < mailbox'[n].req
    OBVIOUS
  <2>1. m + 1 \in Lines /\ n + 1 \in Lines /\ m + 1 < n + 1
    BY <1>6
  <2>. QED  BY <1>1, <1>6, <2>1 DEF Paired
<1>10. \A n \in Exits', m \in FromPort' : m <= n
  <2>. SUFFICES ASSUME NEW n \in Exits', NEW m \in FromPort' PROVE m <= n
    OBVIOUS
  <2>1. m + 1 <= n + 1
    BY <1>1, <1>5, <1>7 DEF ExitLast
  <2>. QED  BY <1>5, <1>7, <2>1
<1>11. Printed' \subseteq Printed
  BY <1>6 DEF Printed
<1>12. \A n \in Lines : n = 1 \/ mailbox[n].req \in Printed'
  <2>. SUFFICES ASSUME NEW n \in Lines, n # 1 PROVE mailbox[n].req \in Printed'
    OBVIOUS
  <2>1. n - 1 \in Lines' /\ mailbox'[n - 1] = mailbox[n]
    BY <1>2, <1>3
  <2>2. \A i \in Lines' : mailbox'[i].req \in Printed'
    BY DEF Printed
  <2>. QED  BY <2>1, <2>2
<1>13. \A r \in Printed : r \in Printed' \/ r = Head(mailbox).req
  BY <1>2, <1>12 DEF Printed
<1>14. Head(mailbox).kind \notin LineKind => Printed' = Printed
  <2>. SUFFICES ASSUME Head(mailbox).kind \notin LineKind PROVE Printed \subseteq Printed'
    BY <1>11
  <2>1. 1 \notin Lines
    BY <1>2, <1>3 DEF At
  <2>. QED  BY <1>12, <2>1 DEF Printed
<1>. QED  BY <1>2, <1>4, <1>5, <1>6, <1>7, <1>8, <1>9, <1>10, <1>11, <1>13, <1>14

(* Giving an answer of its own, or an error, to one call.                  *)
Harmless(t) ==
  /\ t \in [Caller -> CallerState]
  /\ \A c \in Caller : t[c].is = "ok" => t[c] = caller[c] \/ t[c].answer = t[c].req

LEMMA AnsweredIsHarmless ==
  ASSUME TypeOK, NEW r \in Request, NEW outcome \in {"ok", "error"}, NEW answer \in 0..MaxRequest
  PROVE  /\ Answered(r, outcome, answer) \in [Caller -> CallerState]
         /\ outcome = "error" \/ answer = r => Harmless(Answered(r, outcome, answer))
<1>1. [is |-> outcome, req |-> r, answer |-> answer] \in CallerState
  BY ScannerAssumption DEF CallerState, Request
<1>2. caller \in [Caller -> CallerState]
  BY DEF TypeOK
<1>3. Answered(r, outcome, answer) \in [Caller -> CallerState]
  BY <1>1, <1>2 DEF Answered
<1>4. ASSUME outcome = "error" \/ answer = r, NEW c \in Caller,
             Answered(r, outcome, answer)[c].is = "ok"
      PROVE  \/ Answered(r, outcome, answer)[c] = caller[c]
             \/ Answered(r, outcome, answer)[c].answer = Answered(r, outcome, answer)[c].req
  BY <1>4 DEF Answered
<1>. QED  BY <1>3, <1>4 DEF Harmless

LEMMA HarmlessKeeps ==
  ASSUME AnswerIsMine, limits' = limits, Harmless(caller')
  PROVE  AnswerIsMine'
BY DEF AnswerIsMine, Harmless

(* The first call is answered by the server itself.                        *)
LEMMA Dismiss ==
  ASSUME IInv, PairInv, mailbox # <<>>, mailbox' = Tail(mailbox),
         Head(mailbox).kind \in CallKind, Harmless(caller'),
         UNCHANGED <<server, timers, scanner, others>>
  PROVE  IInv' /\ PairInv'
<1>1. /\ TypeOK /\ OneScanner /\ ExitLast /\ NoGap /\ InOrder
      /\ Paired /\ Pairing /\ AnswerIsMine
  BY DEF IInv, PairInv
<1>2. UNCHANGED <<server, timers, scanner, installed, sent, limits>>
  BY DEF others
<1>3. Runs' = Runs /\ Todo' = Todo /\ Counted' = Counted
  BY <1>2 DEF Runs, Todo, Counted
<1>4. Printed' = Printed
  <2>1. Head(mailbox).kind \notin LineKind
    BY DEF CallKind, LineKind
  <2>. QED  BY <2>1, Taken
<1>5. TypeOK'
  BY <1>1, <1>2, Taken DEF TypeOK, Harmless
<1>6. OneScanner'
  <2>1. \A n \in FromPort' : mailbox'[n].scanner = server.port
    <3>1. \A n \in FromPort : mailbox[n].scanner = server.port
      BY <1>1 DEF OneScanner, FromPort, At, PortKind
    <3>. QED  BY <3>1, Taken
  <2>. QED  BY <1>1, <1>2, <2>1 DEF OneScanner, FromPort, At, PortKind
<1>7. ExitLast'
  BY <1>1, <1>3, Taken DEF ExitLast
<1>8. NoGap'
  BY <1>1, <1>2, Taken DEF NoGap
<1>9. InOrder'
  <2>1. \A q \in Counted', n \in Calls' : q < mailbox'[n].req
    BY <1>1, <1>3, Taken DEF InOrder
  <2>2. \A i, j \in Calls' : i < j => mailbox'[i].req < mailbox'[j].req
    BY Taken
  <2>. QED  BY <1>1, <1>2, <1>3, <2>1, <2>2 DEF InOrder
<1>10. Paired' /\ Pairing'
  <2>1. "command" \notin ToSet(limits) =>
          \A m, n \in Lines' : m < n => mailbox'[m].req < mailbox'[n].req
    BY Taken
  <2>. QED  BY <1>1, <1>2, <1>3, <1>4, <2>1 DEF Paired, Pairing, Runs, Todo
<1>11. AnswerIsMine'
  BY <1>1, <1>2, HarmlessKeeps
<1>. QED  BY <1>5, <1>6, <1>7, <1>8, <1>9, <1>10, <1>11 DEF IInv, PairInv

-----------------------------------------------------------------------------
(* A call that is sent on becomes the youngest of what is under way.       *)

LEMMA SendKeeps ==
  ASSUME IInv, PairInv, Takes(CallKind), SendAndPend(Head(mailbox).req)
  PROVE  IInv' /\ PairInv'
<1>1. /\ TypeOK /\ OneScanner /\ ExitLast /\ NoGap /\ InOrder
      /\ Paired /\ Pairing /\ AnswerIsMine
  BY DEF IInv, PairInv
<1>2. /\ Runs /\ mailbox # <<>> /\ mailbox' = Tail(mailbox) /\ Head(mailbox).kind \in CallKind
      /\ UNCHANGED <<caller, timers, installed, sent, limits>>
  BY DEF SendAndPend, Takes, Runs, others
<1>3. 1 \in Calls /\ Head(mailbox) = mailbox[1] /\ mailbox[1].req \in Request
  BY <1>1, <1>2, Taken, Typed DEF Calls, At
<1>4. PICK r \in Request : r = mailbox[1].req
  BY <1>3
<1>5. PICK p \in Scanner : p = server.port
  BY <1>1, <1>2, Typed DEF Runs, Scanner
<1>6. PICK k \in Request : k = server.request_id + 1
  BY <1>1, <1>3, <1>4, Typed DEF NoGap, Request
<1>7. PICK low \in 1..k : DOMAIN server.pending = low..(k - 1)
  BY <1>1, <1>6, Typed DEF NoGap, Request
<1>8. k <= r /\ r <= sent /\ k - 1 = server.request_id
  BY <1>1, <1>3, <1>4, <1>6, Typed DEF NoGap, Request
<1>9. PICK f : f = server.pending
  OBVIOUS
<1>10. PICK g : g = Put(f, k, r)
  OBVIOUS
<1>11. /\ server' = [server EXCEPT !.request_id = k, !.pending = g]
       /\ scanner' = [scanner EXCEPT ![p] = [scanner[p] EXCEPT !.todo = Append(scanner[p].todo, r)]]
  BY <1>3, <1>4, <1>5, <1>6, <1>9, <1>10 DEF SendAndPend
<1>12. f \in [low..(k - 1) -> Request] /\ low..(k - 1) \in SUBSET Request
  BY <1>1, <1>7, <1>9, Typed, ScannerAssumption DEF Request
<1>13. /\ g \in [(low..(k - 1)) \cup {k} -> Request] /\ g[k] = r
       /\ \A n \in low..(k - 1) : g[n] = f[n]
       /\ Range(g) = Range(f) \cup {r}
  <2>1. k \notin low..(k - 1)
    BY DEF Request
  <2>2. g = [n \in (low..(k - 1)) \cup {k} |-> IF n = k THEN r ELSE f[n]]
    BY <1>10, <1>12 DEF Put
  <2>3. /\ g \in [(low..(k - 1)) \cup {k} -> Request] /\ g[k] = r
        /\ \A n \in low..(k - 1) : g[n] = f[n]
    BY <1>12, <2>1, <2>2
  <2>4. DOMAIN g = DOMAIN f \cup {k} /\ \A n \in DOMAIN f : g[n] = f[n]
    BY <1>12, <2>3
  <2>5. Range(g) = Range(f) \cup {r}
    <3>1. Range(g) = {g[n] : n \in DOMAIN g} /\ Range(f) = {f[n] : n \in DOMAIN f}
      BY DEF Range
    <3>2. \A v \in Range(f) : v \in Range(g)
      BY <2>4, <3>1
    <3>3. \A v \in Range(g) : v \in Range(f) \cup {r}
      BY <2>3, <2>4, <3>1
    <3>4. r \in Range(g)
      BY <2>3, <2>4, <3>1
    <3>. QED  BY <3>2, <3>3, <3>4
  <2>. QED  BY <2>3, <2>5
<1>14. (low..(k - 1)) \cup {k} = low..k
  BY DEF Request
<1>15. /\ server' \in ServerState /\ server'.port = p /\ server'.request_id = k
       /\ server'.pending = g
  <2>1. g \in Pending
    <3>1. g \in [low..k -> Request] /\ low..k \in SUBSET Request
      BY <1>12, <1>13, <1>14 DEF Request
    <3>. QED  BY <3>1 DEF Pending
  <2>2. server \in ServerState /\ k \in 0..MaxRequest
    BY <1>1 DEF TypeOK, Request
  <2>. QED  BY <1>5, <1>11, <2>1, <2>2 DEF ServerState
<1>16. PICK t \in Seq(Request) : t = scanner[p].todo
  BY <1>1 DEF TypeOK, ScannerState
<1>17. /\ scanner' \in [Scanner -> ScannerState]
       /\ scanner'[p].todo = Append(t, r) /\ scanner'[p].is = "runs"
       /\ \A q \in Scanner \ {p} : scanner'[q] = scanner[q]
  <2>1. Append(t, r) \in Seq(Request) /\ scanner[p].is = "runs"
    BY <1>2, <1>5 DEF Runs
  <2>2. scanner \in [Scanner -> ScannerState] /\ scanner[p] \in ScannerState
    BY <1>1 DEF TypeOK
  <2>3. PICK z : z = [scanner[p] EXCEPT !.todo = Append(t, r)]
    OBVIOUS
  <2>4. z \in ScannerState /\ z.todo = Append(t, r) /\ z.is = "runs"
    BY <2>1, <2>2, <2>3 DEF ScannerState
  <2>5. scanner' = [scanner EXCEPT ![p] = z]
    BY <1>11, <1>16, <2>3
  <2>. QED  BY <2>2, <2>4, <2>5
<1>18. Runs' /\ Todo = t /\ Todo' = Append(t, r)
  BY <1>5, <1>15, <1>16, <1>17 DEF Runs, Todo, Scanner
<1>19. /\ ToSet(Append(t, r)) = ToSet(t) \cup {r}
       /\ DOMAIN t = 1..Len(t) /\ Len(t) \in Nat /\ DOMAIN Append(t, r) = 1..(Len(t) + 1)
       /\ Append(t, r)[Len(t) + 1] = r /\ \A n \in DOMAIN t : Append(t, r)[n] = t[n]
  <2>1. /\ DOMAIN t = 1..Len(t) /\ Len(t) \in Nat /\ DOMAIN Append(t, r) = 1..(Len(t) + 1)
        /\ Append(t, r)[Len(t) + 1] = r /\ \A n \in DOMAIN t : Append(t, r)[n] = t[n]
    OBVIOUS
  <2>2. 1..(Len(t) + 1) = (1..Len(t)) \cup {Len(t) + 1}
    BY <2>1
  <2>3. ToSet(Append(t, r)) = ToSet(t) \cup {r}
    BY <2>1, <2>2, Zenon DEF ToSet
  <2>. QED  BY <2>1, <2>3
<1>20. Counted' = Counted \cup {r} /\ Counted \in SUBSET Request
  <2>1. Counted = Range(f) \cup ToSet(t) /\ Counted' = Range(g) \cup ToSet(Append(t, r))
    BY <1>2, <1>9, <1>15, <1>18 DEF Counted
  <2>2. Range(f) \in SUBSET Request /\ ToSet(t) \in SUBSET Request
    BY <1>12 DEF Range, ToSet
  <2>. QED  BY <1>13, <1>19, <2>1, <2>2
<1>21. \A q \in Counted : q < r
  BY <1>1, <1>3, <1>4 DEF InOrder
<1>22. Range(f) \subseteq Counted /\ ToSet(t) \subseteq Counted
  BY <1>2, <1>9, <1>18 DEF Counted
<1>23. \A n \in Calls' : r < mailbox'[n].req
  <2>. SUFFICES ASSUME NEW n \in Calls' PROVE r < mailbox'[n].req
    OBVIOUS
  <2>1. n \in Nat \ {0} /\ n + 1 \in Calls /\ mailbox'[n] = mailbox[n + 1]
    BY <1>2, Taken
  <2>2. 1 < n + 1
    BY <2>1
  <2>. QED  BY <1>1, <1>3, <1>4, <2>1, <2>2 DEF InOrder
<1>24. Printed' = Printed
  <2>1. Head(mailbox).kind \notin LineKind
    BY <1>2 DEF CallKind, LineKind
  <2>. QED  BY <1>2, <2>1, Taken
<1>25. TypeOK'
  BY <1>1, <1>2, <1>15, <1>17, Taken DEF TypeOK
<1>26. OneScanner'
  <2>1. \A n \in FromPort' : mailbox'[n].scanner = p
    <3>1. \A n \in FromPort : mailbox[n].scanner = p
      BY <1>1, <1>5 DEF OneScanner, FromPort, At, PortKind
    <3>. QED  BY <1>2, <3>1, Taken
  <2>2. \A q \in Scanner : scanner'[q].is = "runs" => q = p
    BY <1>1, <1>5, <1>17 DEF OneScanner
  <2>. QED  BY <1>1, <1>2, <1>5, <1>15, <2>1, <2>2 DEF OneScanner, FromPort, At, PortKind
<1>27. ExitLast'
  BY <1>1, <1>2, Taken DEF ExitLast
<1>28. NoGap'
  <2>1. low \in 1..(k + 1) /\ DOMAIN g = low..k
    BY <1>13, <1>14 DEF Request
  <2>2. \A n \in Calls' : k < mailbox'[n].req /\ mailbox'[n].req <= sent
    <3>. SUFFICES ASSUME NEW n \in Calls' PROVE k < mailbox'[n].req /\ mailbox'[n].req <= sent
      OBVIOUS
    <3>1. n + 1 \in Calls /\ mailbox'[n] = mailbox[n + 1] /\ mailbox[n + 1].req \in Request
      BY <1>1, <1>2, Taken, Typed
    <3>2. r < mailbox[n + 1].req
      BY <1>23, <3>1
    <3>. QED  BY <1>1, <1>8, <3>1, <3>2 DEF NoGap, Request
  <2>3. k <= sent
    BY <1>1, <1>8, Typed DEF Request
  <2>. QED  BY <1>2, <1>15, <2>1, <2>2, <2>3 DEF NoGap
<1>29. InOrder'
  <2>1. \A q \in Counted' : q <= sent /\ \A n \in Calls' : q < mailbox'[n].req
    <3>. SUFFICES ASSUME NEW q \in Counted
                  PROVE  q <= sent /\ \A n \in Calls' : q < mailbox'[n].req
      BY <1>8, <1>20, <1>23
    <3>. QED  BY <1>1, <1>2, Taken DEF InOrder
  <2>2. \A i, j \in Calls' : i < j => mailbox'[i].req < mailbox'[j].req
    BY <1>2, Taken
  <2>3. \A q \in Scanner : scanner'[q].is # "runs" => scanner'[q].todo = <<>>
    BY <1>1, <1>17 DEF InOrder
  <2>4. \A i, j \in DOMAIN Append(t, r) : i < j => Append(t, r)[i] < Append(t, r)[j]
    <3>. SUFFICES ASSUME NEW i \in DOMAIN Append(t, r), NEW j \in DOMAIN Append(t, r), i < j
                  PROVE  Append(t, r)[i] < Append(t, r)[j]
      OBVIOUS
    <3>1. i \in DOMAIN t /\ (j \in DOMAIN t \/ j = Len(t) + 1)
      BY <1>19
    <3>2. Append(t, r)[i] = t[i] /\ t[i] \in ToSet(t)
      BY <1>19, <3>1 DEF ToSet
    <3>3. CASE j \in DOMAIN t
      BY <1>1, <1>2, <1>18, <1>19, <3>1, <3>2, <3>3 DEF InOrder
    <3>4. CASE j = Len(t) + 1
      BY <1>19, <1>21, <1>22, <3>2, <3>4
    <3>. QED  BY <3>1, <3>3, <3>4
  <2>. QED  BY <1>2, <1>18, <2>1, <2>2, <2>3, <2>4 DEF InOrder
<1>30. ASSUME "command" \notin ToSet(limits)
       PROVE  /\ Range(f) = Printed \cup ToSet(t) /\ Printed \subseteq Range(f)
              /\ \A i, j \in low..(k - 1) : i < j => f[i] < f[j]
              /\ \A q \in Printed, z \in Range(f) \ Printed : q < z
              /\ \A q \in Printed, z \in ToSet(t) : q < z
  BY <1>1, <1>2, <1>7, <1>9, <1>18, <1>30 DEF Paired, Pairing, Runs, Todo
<1>31. Paired'
  <2>1. server'.port # 0
    BY <1>15 DEF Scanner
  <2>2. ASSUME "command" \notin ToSet(limits')
        PROVE  /\ \A i, j \in DOMAIN g : i < j => g[i] < g[j]
               /\ \A i, j \in Lines' : i < j => mailbox'[i].req < mailbox'[j].req
               /\ Printed' \subseteq Range(g)
               /\ \A q \in Printed', z \in Range(g) \ Printed' : q < z
               /\ Range(g) = Printed' \cup ToSet(Todo')
    <3>1. "command" \notin ToSet(limits)
      BY <1>2, <2>2
    <3>2. ASSUME NEW i \in DOMAIN g, NEW j \in DOMAIN g, i < j
          PROVE  g[i] < g[j]
      <4>1. i \in low..(k - 1) /\ (j \in low..(k - 1) \/ j = k)
        BY <1>13, <1>14, <3>2 DEF Request
      <4>2. g[i] = f[i] /\ f[i] \in Range(f)
        BY <1>12, <1>13, <4>1 DEF Range
      <4>3. CASE j \in low..(k - 1)
        BY <1>13, <1>30, <3>1, <3>2, <4>1, <4>2, <4>3
      <4>4. CASE j = k
        BY <1>13, <1>21, <1>22, <4>2, <4>4
      <4>. QED  BY <4>1, <4>3, <4>4
    <3>3. \A q \in Printed, z \in Range(g) \ Printed : q < z
      BY <1>13, <1>21, <1>22, <1>30, <3>1
    <3>4. Range(g) = Printed \cup ToSet(Append(t, r)) /\ Printed \subseteq Range(g)
      BY <1>13, <1>19, <1>30, <3>1
    <3>. QED  BY <1>2, <1>18, <1>24, <3>1, <3>2, <3>3, <3>4, Taken
  <2>. QED  BY <1>15, <1>18, <2>1, <2>2 DEF Paired, Todo
<1>32. Pairing'
  <2>. SUFFICES ASSUME "command" \notin ToSet(limits), NEW q \in Printed,
                       NEW z \in ToSet(Append(t, r))
                PROVE  q < z
    BY <1>2, <1>18, <1>24 DEF Pairing
  <2>. QED  BY <1>19, <1>21, <1>22, <1>30
<1>33. AnswerIsMine'
  BY <1>1, <1>2 DEF AnswerIsMine
<1>. QED  BY <1>25, <1>26, <1>27, <1>28, <1>29, <1>31, <1>32, <1>33 DEF IInv, PairInv

-----------------------------------------------------------------------------
(* A line answers the oldest request, and is the answer to it.             *)

LEMMA MinOfInterval ==
  ASSUME NEW a \in Nat, NEW b \in Nat, a <= b
  PROVE  Min(a..b) = a
<1>1. a \in a..b /\ \A y \in a..b : a <= y
  OBVIOUS
<1>2. \A x \in a..b : (\A y \in a..b : x <= y) => x = a
  BY <1>1
<1>. QED  BY <1>1, <1>2 DEF Min

(* The oldest request is that of the first line.                           *)
LEMMA FirstLine ==
  ASSUME TypeOK, Paired, "command" \notin ToSet(limits), 1 \in Lines,
         NEW low \in DOMAIN server.pending, \A n \in DOMAIN server.pending : n = low \/ low < n
  PROVE  server.pending[low] = mailbox[1].req
<1>. DEFINE h == mailbox[1].req
            f == server.pending
<1>1. /\ \A n \in DOMAIN f : f[n] \in Nat
      /\ \A m, n \in DOMAIN f : m < n => f[m] < f[n]
      /\ \A m, n \in Lines : m < n => mailbox[m].req < mailbox[n].req
      /\ Printed \subseteq Range(f)
      /\ \A r \in Printed, q \in Range(f) \ Printed : r < q
  <2>1. \A n \in DOMAIN f : f[n] \in Request
    BY Typed
  <2>2. \A n \in DOMAIN f : f[n] \in Nat
    BY <2>1 DEF Request
  <2>. QED  BY <2>2 DEF Paired
<1>2. /\ h \in Printed /\ \A n \in Lines : mailbox[n].req \in Nat /\ n \in Nat /\ n >= 1
  BY Typed DEF Printed, Lines, Request
<1>3. PICK k \in DOMAIN f : f[k] = h
  BY <1>1, <1>2 DEF Range
<1>4. f[low] \in Range(f)
  BY DEF Range
<1>5. CASE f[low] \in Printed
  <2>1. PICK n \in Lines : f[low] = mailbox[n].req
    BY <1>5 DEF Printed
  <2>2. n = 1 \/ h < f[low]
    BY <1>1, <1>2, <2>1
  <2>3. k = low \/ f[low] < h
    BY <1>1, <1>3
  <2>. QED  BY <1>1, <1>2, <1>3, <2>1, <2>2, <2>3
<1>6. CASE f[low] \notin Printed
  <2>1. h < f[low]
    BY <1>1, <1>2, <1>4, <1>6
  <2>. QED  BY <1>1, <1>3, <2>1
<1>. QED  BY <1>5, <1>6

LEMMA LineKeeps ==
  ASSUME IInv, PairInv, HandleLine
  PROVE  IInv' /\ PairInv'
<1>1. /\ TypeOK /\ OneScanner /\ ExitLast /\ NoGap /\ InOrder
      /\ Paired /\ Pairing /\ AnswerIsMine
  BY DEF IInv, PairInv
<1>2. /\ mailbox # <<>> /\ mailbox' = Tail(mailbox) /\ Head(mailbox).kind = "eol"
      /\ UNCHANGED <<timers, scanner, installed, sent, limits>>
  BY DEF HandleLine, Takes, others
<1>3. 1 \in Lines /\ Head(mailbox) = mailbox[1] /\ mailbox[1].req \in Request
  BY <1>1, <1>2, Taken, Typed DEF Lines, At
<1>4. PICK h \in Request : h = mailbox[1].req
  BY <1>3
<1>5. h \in Printed
  BY <1>3, <1>4 DEF Printed
<1>6. PICK f : f = server.pending
  OBVIOUS
<1>7. PICK low \in 1..(server.request_id + 1) : DOMAIN f = low..server.request_id
  BY <1>1, <1>6 DEF NoGap
<1>8. server.request_id \in Nat /\ low \in Nat /\ \A n \in DOMAIN f : f[n] \in Request
  BY <1>1, <1>6, Typed
<1>9. PICK g : g = server'.pending
  OBVIOUS
(* What the step takes from pending.                                       *)
<1>10. /\ server' \in ServerState /\ server'.port = server.port
       /\ server'.request_id = server.request_id
       /\ \E l \in 1..(server.request_id + 1) : DOMAIN g = l..server.request_id
       /\ \A n \in DOMAIN g : n \in DOMAIN f /\ g[n] = f[n]
       /\ caller' \in [Caller -> CallerState]
       /\ "command" \notin ToSet(limits) =>
            /\ Harmless(caller')
            /\ low \in DOMAIN f /\ f[low] = h
            /\ DOMAIN g = DOMAIN f \ {low}
  <2>1. CASE DOMAIN f = {}
    <3>1. UNCHANGED <<caller, server>>
      BY <1>6, <2>1 DEF HandleLine
    <3>2. "command" \in ToSet(limits)
      BY <1>1, <1>5, <1>6, <2>1 DEF Paired, Range
    <3>. QED  BY <1>1, <1>6, <1>7, <1>9, <3>1, <3>2 DEF TypeOK, Harmless
  <2>2. CASE DOMAIN f # {}
    <3>1. low <= server.request_id /\ low \in DOMAIN f
      BY <1>7, <1>8, <2>2
    <3>2. Min(DOMAIN f) = low
      BY <1>7, <1>8, <3>1, MinOfInterval
    <3>3. /\ caller' = Answered(f[low], "ok", h)
          /\ server' = [server EXCEPT !.pending = Restrict(f, DOMAIN f \ {low})]
      BY <1>3, <1>4, <1>6, <2>2, <3>2 DEF HandleLine, Reply
    <3>4. PICK z : z = Restrict(f, DOMAIN f \ {low})
      OBVIOUS
    <3>5. z = [n \in DOMAIN f \ {low} |-> f[n]]
      BY <3>4 DEF Restrict
    <3>6. /\ DOMAIN z = DOMAIN f \ {low} /\ DOMAIN z = (low + 1)..server.request_id
          /\ \A n \in DOMAIN z : n \in DOMAIN f /\ z[n] = f[n]
      BY <1>7, <1>8, <3>1, <3>5
    <3>7. z \in Pending
      <4>1. DOMAIN f \subseteq Request
        BY <1>1, <1>6, Typed
      <4>2. z \in [DOMAIN f \ {low} -> Request] /\ DOMAIN f \ {low} \in SUBSET Request
        BY <1>8, <3>5, <4>1
      <4>. QED  BY <4>2 DEF Pending
    <3>8. /\ server' \in ServerState /\ server'.port = server.port
          /\ server'.request_id = server.request_id /\ server'.pending = z
      <4>1. server \in ServerState
        BY <1>1 DEF TypeOK
      <4>. QED  BY <3>3, <3>4, <3>7, <4>1 DEF ServerState
    <3>9. low + 1 \in 1..(server.request_id + 1)
      BY <1>8, <3>1
    <3>10. "command" \notin ToSet(limits) => f[low] = h
      <4>1. \A n \in DOMAIN f : n = low \/ low < n
        BY <1>7, <1>8
      <4>. QED  BY <1>1, <1>3, <1>4, <1>6, <3>1, <4>1, FirstLine
    <3>11. f[low] \in Request /\ h \in 0..MaxRequest
      BY <1>8, <3>1 DEF Request
    <3>12. caller' \in [Caller -> CallerState] /\ (f[low] = h => Harmless(caller'))
      BY <1>1, <3>3, <3>11, AnsweredIsHarmless
    <3>13. \E l \in 1..(server.request_id + 1) : DOMAIN z = l..server.request_id
      BY <3>6, <3>9
    <3>14. g = z
      BY <1>9, <3>8
    <3>. QED  BY <3>1, <3>6, <3>8, <3>10, <3>12, <3>13, <3>14
  <2>. QED  BY <2>1, <2>2
<1>11. Runs' = Runs /\ Todo' = Todo
  BY <1>2, <1>10 DEF Runs, Todo
<1>12. Range(g) \subseteq Range(f)
  BY <1>10 DEF Range
<1>13. Counted' \subseteq Counted
  BY <1>6, <1>9, <1>11, <1>12 DEF Counted
<1>14. TypeOK'
  BY <1>1, <1>2, <1>10, Taken DEF TypeOK
<1>15. OneScanner'
  <2>1. \A n \in FromPort' : mailbox'[n].scanner = server.port
    <3>1. \A n \in FromPort : mailbox[n].scanner = server.port
      BY <1>1 DEF OneScanner, FromPort, At, PortKind
    <3>. QED  BY <1>2, <3>1, Taken
  <2>. QED  BY <1>1, <1>2, <1>10, <2>1 DEF OneScanner, FromPort, At, PortKind
<1>16. ExitLast'
  BY <1>1, <1>2, <1>11, Taken DEF ExitLast
<1>17. NoGap'
  BY <1>1, <1>2, <1>9, <1>10, Taken DEF NoGap
<1>18. InOrder'
  <2>1. \A q \in Counted' : q <= sent /\ \A n \in Calls' : q < mailbox'[n].req
    BY <1>1, <1>2, <1>13, Taken DEF InOrder
  <2>2. \A i, j \in Calls' : i < j => mailbox'[i].req < mailbox'[j].req
    BY <1>2, Taken
  <2>. QED  BY <1>1, <1>2, <1>11, <2>1, <2>2 DEF InOrder
<1>19. ASSUME "command" \notin ToSet(limits)
       PROVE  Range(g) = Range(f) \ {h} /\ Printed' = Printed \ {h}
  <2>1. \A n \in DOMAIN f : n # low => f[n] # h
    <3>. SUFFICES ASSUME NEW n \in DOMAIN f, n # low PROVE f[n] # h
      OBVIOUS
    <3>1. low \in DOMAIN f /\ f[low] = h /\ low < n
      BY <1>7, <1>8, <1>10, <1>19
    <3>2. h < f[n]
      BY <1>1, <1>6, <1>19, <3>1 DEF Paired
    <3>. QED  BY <3>2 DEF Request
  <2>2. Range(g) = Range(f) \ {h}
    <3>1. \A v \in Range(g) : v \in Range(f) \ {h}
      BY <1>10, <1>19, <2>1 DEF Range
    <3>2. \A v \in Range(f) \ {h} : v \in Range(g)
      BY <1>10, <1>19, <2>1 DEF Range
    <3>. QED  BY <3>1, <3>2
  <2>3. \A n \in Lines' : mailbox'[n].req # h
    <3>. SUFFICES ASSUME NEW n \in Lines' PROVE mailbox'[n].req # h
      OBVIOUS
    <3>1. n \in Nat \ {0} /\ n + 1 \in Lines /\ mailbox'[n] = mailbox[n + 1]
      BY <1>2, Taken
    <3>2. 1 < n + 1
      BY <3>1
    <3>3. h < mailbox[n + 1].req
      BY <1>1, <1>3, <1>4, <1>19, <3>1, <3>2 DEF Paired
    <3>. QED  BY <3>1, <3>3 DEF Request
  <2>4. h \notin Printed'
    BY <2>3 DEF Printed
  <2>5. Printed' \subseteq Printed /\ \A q \in Printed : q \in Printed' \/ q = h
    BY <1>2, <1>3, <1>4, Taken
  <2>. QED  BY <2>2, <2>4, <2>5
<1>20. Paired'
  <2>1. ASSUME "command" \notin ToSet(limits')
        PROVE  /\ \A i, j \in DOMAIN g : i < j => g[i] < g[j]
               /\ \A i, j \in Lines' : i < j => mailbox'[i].req < mailbox'[j].req
               /\ Printed' \subseteq Range(g)
               /\ \A q \in Printed', z \in Range(g) \ Printed' : q < z
               /\ Runs' => Range(g) = Printed' \cup ToSet(Todo')
    <3>1. "command" \notin ToSet(limits)
      BY <1>2, <2>1
    <3>2. /\ \A i, j \in DOMAIN f : i < j => f[i] < f[j]
          /\ Printed \subseteq Range(f)
          /\ \A q \in Printed, z \in Range(f) \ Printed : q < z
          /\ Runs => Range(f) = Printed \cup ToSet(Todo)
      BY <1>1, <1>6, <3>1 DEF Paired, Runs, Todo
    <3>3. Runs => h \notin ToSet(Todo)
      <4>. SUFFICES ASSUME Runs, h \in ToSet(Todo) PROVE FALSE
        OBVIOUS
      <4>1. h < h
        BY <1>1, <1>5, <3>1 DEF Pairing
      <4>. QED  BY <4>1 DEF Request
    <3>4. \A i, j \in DOMAIN g : i < j => g[i] < g[j]
      BY <1>10, <3>2
    <3>5. \A i, j \in Lines' : i < j => mailbox'[i].req < mailbox'[j].req
      BY <1>2, <3>1, Taken
    <3>6. Range(g) = Range(f) \ {h} /\ Printed' = Printed \ {h}
      BY <1>19, <3>1
    <3>7. \A q \in Printed', z \in Range(g) \ Printed' : q < z
      BY <3>2, <3>6
    <3>8. Runs' => Range(g) = Printed' \cup ToSet(Todo')
      BY <1>11, <3>2, <3>3, <3>6
    <3>. QED  BY <3>2, <3>4, <3>5, <3>6, <3>7, <3>8
  <2>2. server'.port = 0 => DOMAIN g = {}
    BY <1>1, <1>6, <1>10 DEF Paired
  <2>. QED  BY <1>9, <2>1, <2>2 DEF Paired, Runs, Todo
<1>21. Pairing'
  BY <1>1, <1>2, <1>11, Taken DEF Pairing
<1>22. AnswerIsMine'
  <2>1. CASE "command" \in ToSet(limits)
    BY <1>2, <2>1 DEF AnswerIsMine
  <2>2. CASE "command" \notin ToSet(limits)
    BY <1>1, <1>2, <1>10, <2>2, HarmlessKeeps
  <2>. QED  BY <2>1, <2>2
<1>. QED  BY <1>14, <1>15, <1>16, <1>17, <1>18, <1>20, <1>21, <1>22 DEF IInv, PairInv

-----------------------------------------------------------------------------
(* The scanner is lost, and replaced.                                      *)

LEMMA NoneIsEmpty == <<>> \in Pending /\ DOMAIN <<>> = {} /\ Range(<<>>) = {} /\ ToSet(<<>>) = {}
<1>1. <<>> \in [{} -> Request] /\ {} \in SUBSET Request
  OBVIOUS
<1>. QED  BY <1>1 DEF Pending, Range, ToSet

LEMMA HandleExitKeeps ==
  ASSUME IInv, PairInv, HandleExit
  PROVE  IInv' /\ PairInv'
<1>1. /\ TypeOK /\ OneScanner /\ ExitLast /\ NoGap /\ InOrder
      /\ Paired /\ Pairing /\ AnswerIsMine
  BY DEF IInv, PairInv
<1>2. /\ mailbox # <<>> /\ mailbox' = Tail(mailbox) /\ Head(mailbox).kind = "exit_status"
      /\ UNCHANGED <<scanner, installed, sent, limits>>
  BY DEF HandleExit, Takes, others
<1>3. 1 \in Exits /\ 1 \in FromPort
  BY <1>2, Taken DEF Exits, FromPort, At, PortKind
<1>4. server.port # 0
  BY <1>1, <1>3, Typed DEF OneScanner, FromPort, At, PortKind, Scanner
<1>5. FromPort' = {} /\ Lines' = {} /\ Exits' = {} /\ Printed' = {}
  <2>1. \A n \in FromPort' : FALSE
    <3>. SUFFICES ASSUME NEW n \in FromPort' PROVE FALSE
      OBVIOUS
    <3>1. n \in Nat \ {0} /\ n + 1 \in FromPort
      BY <1>2, Taken
    <3>. QED  BY <1>1, <1>3, <3>1 DEF ExitLast
  <2>2. Lines' \subseteq FromPort' /\ Exits' \subseteq FromPort'
    BY DEF Lines, Exits, FromPort, At, PortKind
  <2>. QED  BY <2>1, <2>2 DEF Printed
<1>6. ~Runs /\ \A p \in Scanner : scanner[p].is # "runs"
  BY <1>1, <1>3, <1>4 DEF ExitLast, OneScanner, Runs
<1>7. /\ server' \in ServerState /\ server'.port = 0
      /\ server'.request_id = server.request_id /\ server'.pending = <<>>
  <2>1. server \in ServerState /\ 0 \in 0..MaxScanner
    BY <1>1, Typed DEF TypeOK
  <2>. QED  BY <2>1, NoneIsEmpty DEF HandleExit, ServerState
<1>8. /\ timers' \in [Timer -> {0, 1}] /\ timers'["restart_scanner"] = 1
      /\ timers'["refresh_token"] = 1
  BY <1>1, <1>4 DEF HandleExit, TypeOK, OneScanner, Timer
<1>9. caller' \in [Caller -> CallerState] /\ Harmless(caller')
  BY <1>1 DEF HandleExit, TypeOK, CallerState, Harmless
<1>10. ~Runs' /\ Counted' = {}
  BY <1>7, NoneIsEmpty DEF Runs, Counted
<1>11. TypeOK'
  BY <1>1, <1>2, <1>7, <1>8, <1>9, Taken DEF TypeOK
<1>12. OneScanner'
  BY <1>2, <1>5, <1>6, <1>7, <1>8 DEF OneScanner, FromPort, At, PortKind
<1>13. ExitLast'
  BY <1>5 DEF ExitLast
<1>14. NoGap'
  <2>1. DOMAIN server'.pending = (server.request_id + 1)..server.request_id
    BY <1>1, <1>7, NoneIsEmpty, Typed
  <2>2. server.request_id + 1 \in 1..(server.request_id + 1)
    BY <1>1, Typed
  <2>3. \E low \in 1..(server.request_id + 1) : DOMAIN server'.pending = low..server.request_id
    BY <2>1, <2>2
  <2>4. \A n \in Calls' : server.request_id < mailbox'[n].req /\ mailbox'[n].req <= sent
    BY <1>1, <1>2, Taken DEF NoGap
  <2>5. server'.request_id = server.request_id /\ sent' = sent /\ server.request_id <= sent
    BY <1>1, <1>2, <1>7 DEF NoGap
  <2>. QED  BY <2>3, <2>4, <2>5 DEF NoGap
<1>15. InOrder'
  BY <1>1, <1>2, <1>10, Taken DEF InOrder
<1>16. Paired' /\ Pairing'
  BY <1>5, <1>7, NoneIsEmpty DEF Paired, Pairing
<1>17. AnswerIsMine'
  BY <1>1, <1>2, <1>9, HarmlessKeeps
<1>. QED  BY <1>11, <1>12, <1>13, <1>14, <1>15, <1>16, <1>17 DEF IInv, PairInv

LEMMA HandleRestartKeeps ==
  ASSUME IInv, PairInv, HandleRestart
  PROVE  IInv' /\ PairInv'
<1>1. /\ TypeOK /\ OneScanner /\ ExitLast /\ NoGap /\ InOrder
      /\ Paired /\ Pairing /\ AnswerIsMine
  BY DEF IInv, PairInv
<1>2. CASE UNCHANGED vars
  BY <1>2, QuietKeeps
<1>3. ASSUME ~(UNCHANGED vars)
      PROVE  IInv' /\ PairInv'
  <2>1. PICK p \in Scanner : /\ p = NextScanner
                             /\ server' = [server EXCEPT !.port = p]
                             /\ scanner' = [scanner EXCEPT ![p] = New]
                             /\ timers' = [timers EXCEPT !["restart_scanner"] = @ - 1]
    BY <1>3 DEF HandleRestart, Opens, others, vars
  <2>2. UNCHANGED <<caller, mailbox, installed, sent, limits>>
    BY DEF HandleRestart, others
  <2>3. /\ server.port = 0 /\ timers["restart_scanner"] = 1 /\ timers["refresh_token"] = 1
        /\ timers' \in [Timer -> {0, 1}] /\ timers'["restart_scanner"] = 0
        /\ timers'["refresh_token"] = 1
    BY <1>1, <2>1 DEF HandleRestart, OneScanner, TypeOK, Timer
  <2>4. FromPort = {} /\ Lines = {} /\ Exits = {} /\ Printed = {}
    <3>1. FromPort = {}
      BY <1>1, <2>3, Typed DEF OneScanner, FromPort, At, PortKind, Scanner
    <3>2. Lines \subseteq FromPort /\ Exits \subseteq FromPort
      BY DEF Lines, Exits, FromPort, At, PortKind
    <3>. QED  BY <3>1, <3>2 DEF Printed
  <2>5. FromPort' = {} /\ Lines' = {} /\ Exits' = {} /\ Printed' = {} /\ Calls' = Calls
    BY <2>2, <2>4 DEF FromPort, Lines, Exits, Printed, Calls, At
  <2>6. p # 0 /\ p \in 0..MaxScanner
    BY DEF Scanner
  <2>7. /\ server' \in ServerState /\ server'.port = p
        /\ server'.request_id = server.request_id /\ server'.pending = server.pending
    BY <1>1, <2>1, <2>6 DEF TypeOK, ServerState
  <2>8. New \in ScannerState /\ New.todo = <<>> /\ New.is = "runs"
    BY DEF New, ScannerState
  <2>9. /\ scanner' \in [Scanner -> ScannerState] /\ scanner'[p] = New
        /\ \A q \in Scanner \ {p} : scanner'[q] = scanner[q]
    BY <1>1, <2>1, <2>8 DEF TypeOK
  <2>10. \A q \in Scanner : scanner[q].is # "runs"
    BY <1>1, <2>3 DEF OneScanner, Scanner
  <2>11. DOMAIN server.pending = {} /\ Range(server.pending) = {}
    BY <1>1, <2>3 DEF Paired, Range
  <2>12. Todo' = <<>> /\ Counted' = {}
    BY <2>7, <2>8, <2>9, <2>11, NoneIsEmpty DEF Todo, Counted
  <2>13. TypeOK'
    BY <1>1, <2>2, <2>3, <2>7, <2>9 DEF TypeOK
  <2>14. OneScanner'
    BY <2>3, <2>5, <2>6, <2>7, <2>9, <2>10 DEF OneScanner, FromPort, At, PortKind
  <2>15. ExitLast'
    BY <2>5 DEF ExitLast
  <2>16. NoGap'
    BY <1>1, <2>2, <2>5, <2>7 DEF NoGap
  <2>17. InOrder'
    BY <1>1, <2>2, <2>5, <2>8, <2>9, <2>12, NoneIsEmpty DEF InOrder
  <2>18. Paired' /\ Pairing'
    BY <2>5, <2>7, <2>11, <2>12, NoneIsEmpty DEF Paired, Pairing, Todo
  <2>19. AnswerIsMine'
    BY <1>1, <2>2 DEF AnswerIsMine
  <2>. QED  BY <2>13, <2>14, <2>15, <2>16, <2>17, <2>18, <2>19 DEF IInv, PairInv
<1>. QED  BY <1>2, <1>3

LEMMA ScannerExitsKeeps ==
  ASSUME IInv, PairInv, NEW p \in Scanner, ScannerExits(p)
  PROVE  IInv' /\ PairInv'
<1>1. /\ TypeOK /\ OneScanner /\ ExitLast /\ NoGap /\ InOrder
      /\ Paired /\ Pairing /\ AnswerIsMine
  BY DEF IInv, PairInv
<1>2. /\ p = server.port /\ Runs /\ Exits = {}
      /\ UNCHANGED <<caller, server, timers, installed, sent, limits>>
  BY <1>1 DEF ScannerExits, OneScanner, ExitLast, Runs, Scanner, others
<1>. DEFINE m == [kind |-> "exit_status", scanner |-> p]
            L == Len(mailbox) + 1
<1>3. m \in Message /\ m.kind = "exit_status" /\ m.scanner = p /\ mailbox' = Append(mailbox, m)
  BY DEF Message, ScannerExits
<1>. HIDE DEF m
<1>4. /\ mailbox' \in Seq(Message) /\ L \in Nat /\ mailbox'[L].scanner = p
      /\ \A n \in DOMAIN mailbox : n \in Nat /\ n < L /\ mailbox'[n] = mailbox[n]
      /\ Calls' = Calls /\ FromPort' = FromPort \cup {L} /\ Exits' = Exits \cup {L}
      /\ Lines' = Lines
  <2>1. mailbox \in Seq(Message)
    BY <1>1, Typed
  <2>2. Lines = At(LineKind) /\ Lines' = At(LineKind)'
    BY DEF Lines, At, LineKind
  <2>. HIDE DEF L
  <2>3. /\ mailbox' \in Seq(Message) /\ L \in Nat /\ mailbox'[L] = m
        /\ \A n \in DOMAIN mailbox : n \in Nat /\ n < L /\ mailbox'[n] = mailbox[n]
        /\ \A kinds : At(kinds)' = At(kinds) \cup (IF m.kind \in kinds THEN {L} ELSE {})
    BY <1>3, <2>1, SendBox DEF L
  <2>4. /\ At(CallKind)' = At(CallKind) /\ At(PortKind)' = At(PortKind) \cup {L}
        /\ At({"exit_status"})' = At({"exit_status"}) \cup {L} /\ At(LineKind)' = At(LineKind)
    BY <1>3, <2>3 DEF CallKind, PortKind, LineKind
  <2>. QED  BY <1>3, <2>2, <2>3, <2>4 DEF Calls, FromPort, Exits
<1>. HIDE DEF L
<1>5. /\ Calls \subseteq DOMAIN mailbox /\ Lines \subseteq DOMAIN mailbox
      /\ FromPort \subseteq DOMAIN mailbox
  BY DEF Calls, Lines, FromPort, At
<1>6. Printed' = Printed
  BY <1>4, <1>5 DEF Printed
<1>7. /\ scanner' \in [Scanner -> ScannerState]
      /\ scanner'[p].is = "gone" /\ scanner'[p].todo = <<>>
      /\ \A q \in Scanner \ {p} : scanner'[q] = scanner[q]
  <2>1. [is |-> "gone", todo |-> <<>>] \in ScannerState
    BY DEF ScannerState
  <2>. QED  BY <1>1, <2>1 DEF ScannerExits, TypeOK
<1>8. ~Runs' /\ Counted' \subseteq Counted
  BY <1>2, <1>7 DEF Runs, Counted
<1>9. TypeOK'
  BY <1>1, <1>2, <1>4, <1>7 DEF TypeOK
<1>10. OneScanner'
  <2>1. \A n \in FromPort' : mailbox'[n].scanner = server.port
    BY <1>1, <1>2, <1>4, <1>5 DEF OneScanner, FromPort, At, PortKind
  <2>2. \A q \in Scanner : scanner'[q].is # "runs" \/ q = server.port
    BY <1>1, <1>2, <1>7 DEF OneScanner
  <2>. QED  BY <1>1, <1>2, <2>1, <2>2 DEF OneScanner, FromPort, At, PortKind
<1>11. ExitLast'
  BY <1>2, <1>4, <1>5, <1>8 DEF ExitLast
<1>12. NoGap'
  <2>1. \A n \in Calls' : server.request_id < mailbox'[n].req /\ mailbox'[n].req <= sent
    BY <1>1, <1>4, <1>5 DEF NoGap
  <2>2. server' = server /\ sent' = sent
    BY <1>2
  <2>. QED  BY <1>1, <2>1, <2>2 DEF NoGap
<1>13. InOrder'
  BY <1>1, <1>2, <1>4, <1>5, <1>7, <1>8 DEF InOrder
<1>14. Paired' /\ Pairing'
  BY <1>1, <1>2, <1>4, <1>5, <1>6, <1>8 DEF Paired, Pairing, Runs
<1>15. AnswerIsMine'
  BY <1>1, <1>2 DEF AnswerIsMine
<1>. QED  BY <1>9, <1>10, <1>11, <1>12, <1>13, <1>14, <1>15 DEF IInv, PairInv

-----------------------------------------------------------------------------
(* The scanner prints a line, which answers the oldest command it has.     *)
(* Over the limit it prints two for one command, and nothing is promised.  *)

LEMMA PrintsKeeps ==
  ASSUME IInv, PairInv, NEW p \in Scanner, NEW lines \in Seq(LineKind), Prints(p, lines),
         limits' \in Seq(Limit), Len(limits') <= MaxLimit,
         "command" \notin ToSet(limits') =>
            "command" \notin ToSet(limits) /\ Len(lines) = 1
  PROVE  IInv' /\ PairInv'
<1>1. /\ TypeOK /\ OneScanner /\ ExitLast /\ NoGap /\ InOrder
      /\ Paired /\ Pairing /\ AnswerIsMine
  BY DEF IInv, PairInv
<1>2. /\ p = server.port /\ Runs /\ Exits = {} /\ scanner[p].todo # <<>>
      /\ UNCHANGED <<caller, server, timers, installed, sent>>
  BY <1>1 DEF Prints, OneScanner, ExitLast, Runs, Scanner
<1>3. PICK t \in Seq(Request) : t = scanner[p].todo
  BY <1>1 DEF TypeOK, ScannerState
<1>4. /\ t # <<>> /\ Head(t) \in Request /\ Head(t) = t[1] /\ Tail(t) \in Seq(Request)
      /\ DOMAIN t = 1..Len(t) /\ Len(t) \in Nat /\ 1 \in DOMAIN t
      /\ DOMAIN Tail(t) = 1..(Len(t) - 1)
      /\ \A n \in DOMAIN Tail(t) : n + 1 \in DOMAIN t /\ Tail(t)[n] = t[n + 1]
  <2>1. t # <<>>
    BY <1>2, <1>3
  <2>. QED  BY <2>1
<1>5. PICK h \in Request : h = Head(t)
  BY <1>4
<1>6. Todo = t /\ \A m, n \in DOMAIN t : m < n => t[m] < t[n]
  BY <1>1, <1>2, <1>3 DEF Todo, InOrder
(* The command answered is older than those left.                          *)
<1>7. /\ h \in ToSet(t)
      /\ \A q \in ToSet(t) : q = h \/ q \in ToSet(Tail(t))
      /\ \A q \in ToSet(Tail(t)) : q \in ToSet(t) /\ h < q
  <2>1. h \in ToSet(t)
    BY <1>4, <1>5 DEF ToSet
  <2>2. \A n \in DOMAIN t : t[n] = h \/ t[n] \in ToSet(Tail(t))
    <3>. SUFFICES ASSUME NEW n \in DOMAIN t, n # 1 PROVE t[n] \in ToSet(Tail(t))
      BY <1>4, <1>5
    <3>1. n - 1 \in DOMAIN Tail(t) /\ (n - 1) + 1 = n
      BY <1>4
    <3>2. Tail(t)[n - 1] = t[n]
      BY <1>4, <3>1
    <3>. QED  BY <3>1, <3>2 DEF ToSet
  <2>3. \A n \in DOMAIN Tail(t) : Tail(t)[n] \in ToSet(t) /\ h < Tail(t)[n]
    <3>. SUFFICES ASSUME NEW n \in DOMAIN Tail(t)
                  PROVE  Tail(t)[n] \in ToSet(t) /\ h < Tail(t)[n]
      OBVIOUS
    <3>1. 1 < n + 1 /\ n + 1 \in DOMAIN t /\ Tail(t)[n] = t[n + 1]
      BY <1>4
    <3>. QED  BY <1>4, <1>5, <1>6, <3>1 DEF ToSet
  <2>. QED  BY <2>1, <2>2, <2>3 DEF ToSet
(* The new mail.                                                           *)
<1>8. PICK new : new = [n \in DOMAIN lines |-> [kind |-> lines[n], scanner |-> p, req |-> h]]
  OBVIOUS
<1>9. /\ new \in Seq(Message) /\ DOMAIN new = DOMAIN lines
      /\ \A n \in DOMAIN new : new[n].kind \in LineKind /\ new[n].scanner = p /\ new[n].req = h
  <2>1. /\ DOMAIN lines = 1..Len(lines) /\ Len(lines) \in Nat
        /\ \A n \in DOMAIN lines : lines[n] \in LineKind
    OBVIOUS
  <2>2. \A n \in DOMAIN lines : [kind |-> lines[n], scanner |-> p, req |-> h] \in Message
    BY <2>1 DEF LineKind, Message
  <2>3. new = [n \in 1..Len(lines) |-> [kind |-> lines[n], scanner |-> p, req |-> h]]
    BY <1>8, <2>1
  <2>4. \A n \in 1..Len(lines) : new[n] \in Message
    BY <2>1, <2>2, <2>3
  <2>5. new \in Seq(Message)
    BY <2>1, <2>3, <2>4
  <2>. QED  BY <1>8, <2>1, <2>5
<1>10. PICK k : k = Len(mailbox)
  OBVIOUS
<1>11. /\ mailbox' \in Seq(Message) /\ k \in Nat
       /\ \A n \in DOMAIN mailbox : n \in DOMAIN mailbox' /\ mailbox'[n] = mailbox[n]
       /\ \A n \in DOMAIN mailbox : n <= k /\ n \in Nat
       /\ \A n \in DOMAIN mailbox' : \/ n \in DOMAIN mailbox
                                     \/ /\ n \in Nat /\ n > k /\ n - k \in DOMAIN new
                                        /\ mailbox'[n].kind \in LineKind
                                        /\ mailbox'[n].scanner = p /\ mailbox'[n].req = h
       /\ \A i \in DOMAIN new : k + i \in DOMAIN mailbox' /\ mailbox'[k + i] = new[i]
  <2>1. mailbox' = mailbox \o new /\ mailbox \in Seq(Message)
    BY <1>1, <1>3, <1>5, <1>8 DEF Prints, TypeOK
  <2>. QED  BY <1>9, <1>10, <2>1, AddBox
<1>12. /\ Calls' = Calls /\ Exits' = {}
       /\ \A n \in FromPort' : n \in FromPort \/ mailbox'[n].scanner = p
       /\ Lines \subseteq Lines'
       /\ \A n \in Lines' : n \in Lines \/ (n \in Nat /\ n > k /\ n - k \in DOMAIN new /\ mailbox'[n].req = h)
  <2>1. \A kind \in LineKind : kind \notin CallKind /\ kind # "exit_status"
    BY DEF LineKind, CallKind
  <2>2. Calls' = Calls
    BY <1>11, <2>1 DEF Calls, At
  <2>3. Exits' = {}
    BY <1>2, <1>11, <2>1 DEF Exits, At
  <2>. QED  BY <1>11, <2>2, <2>3 DEF FromPort, At, Lines
<1>13. /\ Calls \subseteq DOMAIN mailbox /\ Lines \subseteq DOMAIN mailbox
       /\ FromPort \subseteq DOMAIN mailbox
  BY DEF Calls, Lines, FromPort, At
<1>14. Printed \subseteq Printed' /\ Printed' \subseteq Printed \cup {h}
  BY <1>11, <1>12, <1>13 DEF Printed
<1>15. /\ scanner' \in [Scanner -> ScannerState]
       /\ scanner'[p].is = "runs" /\ scanner'[p].todo = Tail(t)
       /\ \A q \in Scanner \ {p} : scanner'[q] = scanner[q]
  <2>1. scanner[p].is = "runs" /\ scanner[p] \in ScannerState
    BY <1>1 DEF Prints, TypeOK
  <2>2. PICK z : z = [scanner[p] EXCEPT !.todo = Tail(t)]
    OBVIOUS
  <2>3. z \in ScannerState /\ z.is = "runs" /\ z.todo = Tail(t)
    BY <1>4, <2>1, <2>2 DEF ScannerState
  <2>4. scanner' = [scanner EXCEPT ![p] = z]
    BY <1>3, <2>2 DEF Prints
  <2>. QED  BY <1>1, <2>3, <2>4 DEF TypeOK
<1>16. Runs' /\ Todo' = Tail(t)
  BY <1>2, <1>15 DEF Runs, Todo
<1>17. Counted' \subseteq Counted
  BY <1>2, <1>6, <1>7, <1>16 DEF Counted
<1>18. TypeOK'
  BY <1>1, <1>2, <1>11, <1>15 DEF TypeOK
<1>19. OneScanner'
  <2>1. \A n \in FromPort' : mailbox'[n].scanner = server.port
    BY <1>1, <1>2, <1>11, <1>12, <1>13 DEF OneScanner, FromPort, At, PortKind
  <2>2. \A q \in Scanner : scanner'[q].is = "runs" => q = server.port
    BY <1>1, <1>2, <1>15 DEF OneScanner
  <2>. QED  BY <1>1, <1>2, <2>1, <2>2 DEF OneScanner, FromPort, At, PortKind
<1>20. ExitLast'
  BY <1>12 DEF ExitLast
<1>21. NoGap'
  <2>1. \A n \in Calls' : server.request_id < mailbox'[n].req /\ mailbox'[n].req <= sent
    BY <1>1, <1>11, <1>12, <1>13 DEF NoGap
  <2>. QED  BY <1>1, <1>2, <2>1 DEF NoGap
<1>22. InOrder'
  <2>1. \A q \in Counted' : q <= sent /\ \A n \in Calls' : q < mailbox'[n].req
    BY <1>1, <1>11, <1>12, <1>13, <1>17 DEF InOrder
  <2>2. \A i, j \in Calls' : i < j => mailbox'[i].req < mailbox'[j].req
    BY <1>1, <1>11, <1>12, <1>13 DEF InOrder
  <2>3. \A q \in Scanner : scanner'[q].is # "runs" => scanner'[q].todo = <<>>
    BY <1>1, <1>15 DEF InOrder
  <2>4. \A i, j \in DOMAIN Tail(t) : i < j => Tail(t)[i] < Tail(t)[j]
    <3>. SUFFICES ASSUME NEW i \in DOMAIN Tail(t), NEW j \in DOMAIN Tail(t), i < j
                  PROVE  Tail(t)[i] < Tail(t)[j]
      OBVIOUS
    <3>1. i + 1 < j + 1
      BY <1>4
    <3>. QED  BY <1>4, <1>6, <3>1
  <2>. QED  BY <1>2, <1>16, <2>1, <2>2, <2>3, <2>4 DEF InOrder
<1>23. ASSUME "command" \notin ToSet(limits')
       PROVE  /\ \A r \in Printed, q \in ToSet(t) : r < q
              /\ Range(server.pending) = Printed \cup ToSet(t)
              /\ \A i, j \in DOMAIN server.pending : i < j => server.pending[i] < server.pending[j]
              /\ \A i, j \in Lines : i < j => mailbox[i].req < mailbox[j].req
              /\ \A r \in Printed, q \in Range(server.pending) \ Printed : r < q
              /\ DOMAIN new = {1} /\ Printed' = Printed \cup {h}
  <2>1. "command" \notin ToSet(limits) /\ DOMAIN lines = {1}
    <3>1. "command" \notin ToSet(limits) /\ Len(lines) = 1
      BY <1>23
    <3>2. DOMAIN lines = 1..Len(lines)
      OBVIOUS
    <3>. QED  BY <3>1, <3>2
  <2>2. h \in Printed'
    <3>1. 1 \in DOMAIN new /\ new[1].kind \in LineKind /\ new[1].req = h
      BY <1>9, <2>1
    <3>2. k + 1 \in Lines' /\ mailbox'[k + 1].req = h
      BY <1>11, <3>1 DEF Lines, LineKind
    <3>3. \A n \in Lines' : mailbox'[n].req \in Printed'
      BY DEF Printed
    <3>. QED  BY <3>2, <3>3
  <2>. QED  BY <1>1, <1>2, <1>6, <1>9, <1>14, <2>1, <2>2 DEF Paired, Pairing, Runs, Todo
<1>24. Paired'
  <2>1. server'.port # 0
    BY <1>2 DEF Runs
  <2>2. ASSUME "command" \notin ToSet(limits')
        PROVE  /\ \A i, j \in Lines' : i < j => mailbox'[i].req < mailbox'[j].req
               /\ Printed' \subseteq Range(server.pending)
               /\ \A r \in Printed', q \in Range(server.pending) \ Printed' : r < q
               /\ Range(server.pending) = Printed' \cup ToSet(Tail(t))
    <3>1. ASSUME NEW i \in Lines', NEW j \in Lines', i < j
          PROVE  mailbox'[i].req < mailbox'[j].req
      <4>1. \A n \in Lines' : n \in Lines \/ n = k + 1
        BY <1>11, <1>12, <1>23, <2>2
      <4>2. i \in Lines
        <5>1. j \in Nat /\ j <= k + 1
          BY <1>11, <1>13, <4>1
        <5>. QED  BY <1>11, <3>1, <4>1, <5>1
      <4>3. mailbox'[i] = mailbox[i] /\ mailbox[i].req \in Printed
        BY <1>11, <1>13, <4>2 DEF Printed
      <4>4. CASE j \in Lines
        BY <1>11, <1>13, <1>23, <2>2, <3>1, <4>2, <4>3, <4>4
      <4>5. CASE j \notin Lines
        BY <1>7, <1>12, <1>23, <2>2, <4>3, <4>5
      <4>. QED  BY <4>4, <4>5
    <3>2. Range(server.pending) = Printed' \cup ToSet(Tail(t))
      BY <1>7, <1>23, <2>2
    <3>3. \A r \in Printed', q \in Range(server.pending) \ Printed' : r < q
      BY <1>7, <1>23, <2>2
    <3>. QED  BY <3>1, <3>2, <3>3
  <2>. QED  BY <1>2, <1>16, <1>23, <2>1, <2>2 DEF Paired, Runs, Todo
<1>25. Pairing'
  BY <1>7, <1>16, <1>23 DEF Pairing
<1>26. AnswerIsMine'
  BY <1>1, <1>2 DEF AnswerIsMine
<1>. QED  BY <1>18, <1>19, <1>20, <1>21, <1>22, <1>24, <1>25, <1>26 DEF IInv, PairInv

LEMMA ScannerPrintsKeeps ==
  ASSUME IInv, PairInv, NEW p \in Scanner, ScannerAnswers(p) \/ ScannerOverLimit(p)
  PROVE  IInv' /\ PairInv'
<1>1. limits \in Seq(Limit) /\ Len(limits) <= MaxLimit /\ MaxLimit \in Nat
  BY ScannerAssumption DEF IInv, TypeOK
<1>2. /\ <<"eol">> \in Seq(LineKind) /\ Len(<<"eol">>) = 1
      /\ <<"noeol">> \in Seq(LineKind) /\ Len(<<"noeol">>) = 1
      /\ <<"eol", "eol">> \in Seq(LineKind)
  BY DEF LineKind
<1>3. ASSUME NEW l \in Limit, Len(limits) < MaxLimit, limits' = Append(limits, l)
      PROVE  /\ limits' \in Seq(Limit) /\ Len(limits') <= MaxLimit
             /\ "command" \notin ToSet(limits') => l # "command" /\ "command" \notin ToSet(limits)
  <2>1. /\ limits' \in Seq(Limit) /\ Len(limits) \in Nat /\ Len(limits') = Len(limits) + 1
        /\ DOMAIN limits = 1..Len(limits) /\ DOMAIN limits' = 1..(Len(limits) + 1)
        /\ limits'[Len(limits) + 1] = l /\ \A n \in DOMAIN limits : limits'[n] = limits[n]
    BY <1>1, <1>3
  <2>2. Len(limits') <= MaxLimit
    BY <1>1, <1>3, <2>1
  <2>3. \A n \in DOMAIN limits : n \in DOMAIN limits'
    BY <2>1
  <2>4. Len(limits) + 1 \in DOMAIN limits'
    BY <2>1
  <2>5. l \in ToSet(limits') /\ \A x \in ToSet(limits) : x \in ToSet(limits')
    BY <2>1, <2>3, <2>4 DEF ToSet
  <2>. QED  BY <2>1, <2>2, <2>5
<1>4. CASE ScannerAnswers(p)
  BY <1>1, <1>2, <1>4, PrintsKeeps DEF ScannerAnswers
<1>5. CASE Len(limits) < MaxLimit /\ Prints(p, <<"eol", "eol">>) /\ limits' = Append(limits, "command")
  <2>1. "command" \in Limit
    BY DEF Limit
  <2>2. /\ limits' \in Seq(Limit) /\ Len(limits') <= MaxLimit
        /\ "command" \in ToSet(limits')
    BY <1>3, <1>5, <2>1
  <2>. QED  BY <1>2, <1>5, <2>2, PrintsKeeps
<1>6. CASE Len(limits) < MaxLimit /\ Prints(p, <<"noeol">>) /\ limits' = Append(limits, "line")
  <2>1. "line" \in Limit
    BY DEF Limit
  <2>2. /\ limits' \in Seq(Limit) /\ Len(limits') <= MaxLimit
        /\ "command" \notin ToSet(limits') => "command" \notin ToSet(limits)
    BY <1>3, <1>6, <2>1
  <2>. QED  BY <1>2, <1>6, <2>2, PrintsKeeps
<1>. QED  BY <1>4, <1>5, <1>6 DEF ScannerOverLimit

-----------------------------------------------------------------------------
LEMMA HandleMessageKeeps ==
  ASSUME IInv, PairInv, HandleMessage
  PROVE  IInv' /\ PairInv'
<1>. DEFINE r == Head(mailbox).req
<1>1. TypeOK
  BY DEF IInv
<1>2. ASSUME Takes(CallKind), SendNowhere(r) \/ TokenError
      PROVE  IInv' /\ PairInv'
  <2>1. /\ mailbox # <<>> /\ mailbox' = Tail(mailbox) /\ Head(mailbox).kind \in CallKind
        /\ UNCHANGED <<server, timers, scanner, others>>
    BY <1>2 DEF Takes, SendNowhere, TokenError
  <2>2. r \in Request /\ 0 \in 0..MaxRequest
    <3>1. 1 \in Calls /\ Head(mailbox) = mailbox[1]
      BY <2>1, Taken DEF Calls, At
    <3>. QED  BY <1>1, <3>1, Typed
  <2>3. Harmless(caller')
    BY <1>1, <1>2, <2>2, AnsweredIsHarmless DEF SendNowhere, TokenError, Reply
  <2>. QED  BY <2>1, <2>3, Dismiss
<1>3. ASSUME Takes({"graph_token"}), Reply(r, "ok", r), mailbox' = Tail(mailbox),
             UNCHANGED <<server, timers, scanner, others>>
      PROVE  IInv' /\ PairInv'
  <2>1. mailbox # <<>> /\ Head(mailbox).kind \in CallKind
    BY <1>3 DEF Takes, CallKind
  <2>2. r \in Request /\ r \in 0..MaxRequest
    <3>1. 1 \in Calls /\ Head(mailbox) = mailbox[1]
      BY <1>3, <2>1, Taken DEF Calls, At
    <3>2. r \in Request
      BY <1>1, <3>1, Typed
    <3>. QED  BY <3>2, ScannerAssumption DEF Request
  <2>3. Harmless(caller')
    BY <1>1, <1>3, <2>2, AnsweredIsHarmless DEF Reply
  <2>. QED  BY <1>3, <2>1, <2>3, Dismiss
<1>4. /\ Takes({"plain"}) => Takes(CallKind)
      /\ Takes({"graph"}) => Takes(CallKind)
      /\ Takes({"graph_token"}) => Takes(CallKind)
  BY DEF Takes, CallKind
<1>5. CASE HandlePlain
  BY <1>2, <1>4, <1>5, SendKeeps, CrashesKeeps DEF HandlePlain, SendRaises
<1>6. CASE HandleGraph
  BY <1>2, <1>4, <1>6, SendKeeps, CrashesKeeps DEF HandleGraph, SendRaises
<1>7. CASE HandleGraphToken
  BY <1>2, <1>3, <1>4, <1>7 DEF HandleGraphToken
<1>8. CASE HandleLine
  BY <1>8, LineKeeps
<1>9. CASE HandlePartOfLine
  BY <1>9, CrashesKeeps DEF HandlePartOfLine
<1>10. CASE HandleExit
  BY <1>10, HandleExitKeeps
<1>. QED  BY <1>5, <1>6, <1>7, <1>8, <1>9, <1>10 DEF HandleMessage

LEMMA NextKeeps ==
  ASSUME IInv, PairInv, [Next]_vars
  PROVE  IInv' /\ PairInv'
<1>1. ASSUME NEW c \in Caller, NEW kind \in {"graph", "plain", "graph_token"}, Call(c, kind)
      PROVE  IInv' /\ PairInv'
  BY <1>1, CallKeeps DEF CallKind
<1>2. ASSUME NEW c \in Caller, CallTimeout(c) PROVE IInv' /\ PairInv'
  BY <1>2, QuietKeeps
<1>3. CASE HandleMessage
  BY <1>3, HandleMessageKeeps
<1>4. CASE HandleRestart
  BY <1>4, HandleRestartKeeps
<1>5. CASE HandleRefresh \/ TokenExpires \/ Install \/ UNCHANGED vars
  BY <1>5, QuietKeeps
<1>6. ASSUME NEW p \in Scanner, ScannerAnswers(p) \/ ScannerOverLimit(p)
      PROVE  IInv' /\ PairInv'
  BY <1>6, ScannerPrintsKeeps
<1>7. ASSUME NEW p \in Scanner, ScannerExits(p) PROVE IInv' /\ PairInv'
  BY <1>7, ScannerExitsKeeps
<1>. QED  BY <1>1, <1>2, <1>3, <1>4, <1>5, <1>6, <1>7 DEF Next

LEMMA AlwaysIInv == Spec => [](IInv /\ PairInv)
<1>1. Init => IInv /\ PairInv
  BY InitIInv
<1>2. IInv /\ PairInv /\ [Next]_vars => IInv' /\ PairInv'
  BY NextKeeps
<1>. QED  BY <1>1, <1>2, PTL DEF Spec

-----------------------------------------------------------------------------
(* Every variable holds the data NetworkScanner says it does.              *)
THEOREM TypeCorrect == Spec => []TypeOK
<1>1. IInv => TypeOK
  BY DEF IInv
<1>. QED  BY <1>1, AlwaysIInv, PTL

(* Lines, requests and commands are in the order of the calls, and pair    *)
(* up, as long as no command is over the scanner's limit.                  *)
THEOREM PairedCorrect == Spec => []Paired
<1>1. PairInv => Paired
  BY DEF PairInv
<1>. QED  BY <1>1, AlwaysIInv, PTL

(* Then nobody is given the answer to the request of another.              *)
THEOREM AnswerIsMineCorrect == Spec => []AnswerIsMine
<1>1. PairInv => AnswerIsMine
  BY DEF PairInv
<1>. QED  BY <1>1, AlwaysIInv, PTL

(* One scanner at a time is read and none is left running; the one that is *)
(* lost is about to be restarted, by one timer.                            *)
THEOREM OneScannerCorrect == Spec => []OneScanner
<1>1. IInv => OneScanner
  BY DEF IInv
<1>. QED  BY <1>1, AlwaysIInv, PTL
=============================================================================
