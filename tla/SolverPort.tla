------------------------------ MODULE SolverPort ------------------------------
(***************************************************************************)
(* TradingDesk.Solver.Port: the GenServer in front of the external LP      *)
(* solver.  A request is written to the solver's stdin and the server      *)
(* waits, inside handle_call, for the next packet of the port; the packets *)
(* carry no request number.  Caller and server wait equally long.          *)
(*                                                                         *)
(* Data abstraction.  A request, and the answer computed from it, are the  *)
(* request's number in order of sending.  Single and Monte Carlo solves    *)
(* differ in the length of their timeouts only.  Solvers are numbered in   *)
(* the order they are opened; solver 0 stands for nil.  An answer is       *)
(* decoded as what the caller asked for, whichever of the two it is.       *)
(***************************************************************************)
EXTENDS Naturals, SequencesExt, FiniteSets

CONSTANTS
  Caller,     (* processes that solve                                      *)
  MaxRequest, (* bound: requests                                           *)
  MaxSolver   (* bound: solvers opened                                     *)

ASSUME PortAssumption ==
  /\ MaxRequest \in Nat
  /\ MaxSolver \in Nat \ {0}

VARIABLES
  installed,(* is the solver binary there; nobody changes it               *)
  caller,   (* what each caller waits for or got last                      *)
  mailbox,  (* the server's mailbox                                        *)
  server,   (* its state, and the request it waits for an answer to        *)
  solver,   (* solver -> whether it runs and what it has to answer         *)
  sent,     (* requests sent                                               *)
  late,     (* solvers an answer of which was given up on                  *)
  crashes   (* server crashes                                              *)

vars == <<installed, caller, mailbox, server, solver, sent, late, crashes>>

Request == 1..MaxRequest
Solver == 1..MaxSolver
Outcome == {"idle", "waiting", "ok", "error", "exit"}
Message ==
  [kind : {"call"}, from : Caller, req : Request]
    \cup [kind : {"data"}, solver : Solver, req : Request]
    \cup [kind : {"exit_status"}, solver : Solver]

TypeOK ==
  /\ installed \in BOOLEAN
  /\ caller \in [Caller -> [is : Outcome, req : 0..MaxRequest, answer : 0..MaxRequest]]
  /\ mailbox \in Seq(Message)
  /\ server \in [port : 0..MaxSolver, req : 0..MaxRequest]
  /\ solver \in [Solver -> [is : {"unborn", "runs", "gone"}, todo : Seq(Request)]]
  /\ sent \in 0..MaxRequest
  /\ late \subseteq Solver
  /\ crashes \in Nat

Waiting == server.req # 0
Opened == {p \in Solver : solver[p].is # "unborn"}
NextSolver == Cardinality(Opened) + 1
New == [is |-> "runs", todo |-> <<>>]

-----------------------------------------------------------------------------
(* start_solver/0, in init/1.                                              *)
Init ==
  /\ installed \in BOOLEAN
  /\ caller = [c \in Caller |-> [is |-> "idle", req |-> 0, answer |-> 0]]
  /\ mailbox = <<>>
  /\ server = [port |-> IF installed THEN 1 ELSE 0, req |-> 0]
  /\ solver = [p \in Solver |-> IF installed /\ p = 1 THEN New
                                ELSE [is |-> "unborn", todo |-> <<>>]]
  /\ sent = 0 /\ late = {} /\ crashes = 0

(* MUTANT of Reply: whoever waits takes it.                                *)
ReplyToWaiting(r, outcome, answer) ==
  caller' = [c \in Caller |->
               IF caller[c].is = "waiting"
               THEN [is |-> outcome, req |-> caller[c].req, answer |-> answer] ELSE caller[c]]

(* MUTANT of Reply: an error is logged and not answered.                   *)
ReplyUnlessError(r, outcome, answer) ==
  caller' = [c \in Caller |->
               IF caller[c].is = "waiting" /\ caller[c].req = r /\ outcome # "error"
               THEN [is |-> outcome, req |-> r, answer |-> answer] ELSE caller[c]]

(* A reply reaches the caller if it still waits for that request.          *)
Reply(r, outcome, answer) ==
  caller' = [c \in Caller |->
               IF caller[c].is = "waiting" /\ caller[c].req = r
               THEN [is |-> outcome, req |-> r, answer |-> answer] ELSE caller[c]]

(* GenServer.call.                                                         *)
Call(c) ==
  /\ caller[c].is # "waiting"
  /\ sent < MaxRequest
  /\ sent' = sent + 1
  /\ caller' = [caller EXCEPT ![c] = [is |-> "waiting", req |-> sent + 1, answer |-> 0]]
  /\ mailbox' = Append(mailbox, [kind |-> "call", from |-> c, req |-> sent + 1])
  /\ UNCHANGED <<installed, server, solver, late, crashes>>

(* ... which gives up, in an exit of the caller: its time runs from the    *)
(* call, and the requests queued before count.  The request stays where it *)
(* is.                                                                     *)
CallTimeout(c) ==
  /\ caller[c].is = "waiting"
  /\ caller' = [caller EXCEPT ![c].is = "exit"]
  /\ UNCHANGED <<installed, mailbox, server, solver, sent, late, crashes>>

-----------------------------------------------------------------------------
(* The server died: its ports are closed, whoever waits for it exits, and  *)
(* the supervisor starts it with a new solver.                             *)
Crashes ==
  /\ NextSolver \in Solver
  /\ crashes' = crashes + 1
  /\ caller' = [c \in Caller |-> IF caller[c].is = "waiting"
                                 THEN [caller[c] EXCEPT !.is = "exit"] ELSE caller[c]]
  /\ mailbox' = <<>>
  /\ server' = [port |-> NextSolver, req |-> 0]
  /\ solver' = [p \in Solver |-> IF p = NextSolver THEN New
                                 ELSE IF solver[p].is = "runs"
                                      THEN [is |-> "gone", todo |-> <<>>] ELSE solver[p]]
  /\ UNCHANGED <<installed, sent, late>>

(* MUTANT of FirstIs: handle_call answers {:noreply, _} and does not wait. *)
FirstIsAnyTime(kind) == mailbox # <<>> /\ Head(mailbox).kind = kind

(* The server takes the next message when it is not inside handle_call.    *)
FirstIs(kind) == ~Waiting /\ mailbox # <<>> /\ Head(mailbox).kind = kind

(* handle_call({:solve, ...}) and handle_call({:monte_carlo, ...}), up to  *)
(* the receive: ensure_solver/1, then Port.command, which raises when the  *)
(* port is closed.                                                         *)
HandleCall ==
  LET m == Head(mailbox)
      p == IF server.port # 0 THEN server.port ELSE NextSolver
  IN /\ FirstIs("call")
     /\ \/ /\ ~installed
           /\ Reply(m.req, "error", 0)
           /\ mailbox' = Tail(mailbox)
           /\ UNCHANGED <<installed, server, solver, sent, late, crashes>>
        \/ /\ installed /\ p \in Solver /\ solver[p].is # "gone"
           /\ server' = [port |-> p, req |-> m.req]
           /\ solver' = [solver EXCEPT ![p] = [is |-> "runs", todo |-> Append(@.todo, m.req)]]
           /\ mailbox' = Tail(mailbox)
           /\ UNCHANGED <<installed, caller, sent, late, crashes>>
        \/ /\ installed /\ p \in Solver /\ solver[p].is = "gone"
           /\ Crashes

Data(p) == {n \in DOMAIN mailbox : mailbox[n].kind = "data" /\ mailbox[n].solver = p}

(* The selective receive: the first packet of the current port, wherever   *)
(* it is in the mailbox.                                                   *)
DataAt == {n \in Data(server.port) : \A m \in Data(server.port) : n <= m}

ReceiveData ==
  /\ Waiting
  /\ \E n \in DataAt :
       /\ Reply(server.req, "ok", mailbox[n].req)
       /\ mailbox' = RemoveAt(mailbox, n)
  /\ server' = [server EXCEPT !.req = 0]
  /\ UNCHANGED <<installed, solver, sent, late, crashes>>

(* MUTANT of ReceiveTimeout: the wait ends only while the solver runs.     *)
ReceiveForever ==
  /\ Waiting /\ DataAt = {}
  /\ solver[server.port].is = "runs"
  /\ Reply(server.req, "error", 0)
  /\ server' = [server EXCEPT !.req = 0]
  /\ late' = late \cup {server.port}
  /\ UNCHANGED <<installed, mailbox, solver, sent, crashes>>

(* after 5_000 or 30_000: the solver is slow, or gone.                     *)
ReceiveTimeout ==
  /\ Waiting /\ DataAt = {}
  /\ Reply(server.req, "error", 0)
  /\ server' = [server EXCEPT !.req = 0]
  /\ late' = late \cup {server.port}
  /\ UNCHANGED <<installed, mailbox, solver, sent, crashes>>

(* handle_info({port, {:exit_status, code}}).                              *)
HandleExit ==
  /\ FirstIs("exit_status")
  /\ server' = IF Head(mailbox).solver = server.port THEN [server EXCEPT !.port = 0] ELSE server
  /\ mailbox' = Tail(mailbox)
  /\ UNCHANGED <<installed, caller, solver, sent, late, crashes>>

(* A packet nobody is waiting for: no clause of handle_info matches.       *)
HandleStray == FirstIs("data") /\ Crashes

-----------------------------------------------------------------------------
(* The solver reads one request at a time and answers it, or exits.        *)
SolverAnswers(p) ==
  /\ solver[p].is = "runs" /\ solver[p].todo # <<>>
  /\ mailbox' = Append(mailbox, [kind |-> "data", solver |-> p, req |-> Head(solver[p].todo)])
  /\ solver' = [solver EXCEPT ![p].todo = Tail(@)]
  /\ UNCHANGED <<installed, caller, server, sent, late, crashes>>

SolverExits(p) ==
  /\ solver[p].is = "runs"
  /\ NextSolver \in Solver
  /\ solver' = [solver EXCEPT ![p] = [is |-> "gone", todo |-> <<>>]]
  /\ mailbox' = Append(mailbox, [kind |-> "exit_status", solver |-> p])
  /\ UNCHANGED <<installed, caller, server, sent, late, crashes>>

ServerStep == HandleCall \/ ReceiveData \/ ReceiveTimeout \/ HandleExit \/ HandleStray

Next ==
  \/ \E c \in Caller : Call(c) \/ CallTimeout(c)
  \/ ServerStep
  \/ \E p \in Solver : SolverAnswers(p) \/ SolverExits(p)

(* The server is scheduled while it has messages or a timer, and a solver  *)
(* that runs answers in the end.  Nothing obliges a caller to call.        *)
Fairness == WF_vars(ServerStep) /\ \A p \in Solver : WF_vars(SolverAnswers(p))

Spec == Init /\ [][Next]_vars
FairSpec == Spec /\ Fairness

-----------------------------------------------------------------------------
(* SAFETY                                                                  *)

(* Until the server has given up waiting for a solver, at most one request *)
(* or answer is under way between them, however many calls are queued,     *)
(* solvers exit and servers crash: packets need no request number.         *)
OneInFlight ==
  \A p \in Solver \ late : Len(solver[p].todo) + Cardinality(Data(p)) <= 1

AnswersOwnUnlessLate ==
  \A c \in Caller :
    caller[c].is = "waiting" /\ caller'[c].is = "ok" =>
      caller'[c].answer = caller[c].req \/ server.port \in late

(* A caller can be given the answer to another request only by a solver    *)
(* the server has given up waiting for before.                             *)
StaleOnlyAfterTimeout == [][AnswersOwnUnlessLate]_vars

(* LIVENESS: every call ends, in an answer, an error or an exit, also if   *)
(* no caller ever gives up by itself (and as long as the bound MaxSolver   *)
(* lets the server open a solver).                                         *)
EveryCallEnds ==
  \A c \in Caller :
    caller[c].is = "waiting" ~> caller[c].is # "waiting" \/ NextSolver \notin Solver

-----------------------------------------------------------------------------
(* WHAT THE SOURCE SAYS AND THE CODE DOES NOT DO                           *)

(* A result belongs to the variables that were solved.                     *)
ResultOfRequest ==
  \A c \in Caller : caller[c].is = "ok" => caller[c].answer = caller[c].req
=============================================================================
