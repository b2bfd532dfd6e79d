---------------------------- MODULE NetworkScanner ----------------------------
(***************************************************************************)
(* TradingDesk.Contracts.NetworkScanner: the GenServer in front of the     *)
(* contract scanner.  Unlike SolverPort it does not wait: a command is     *)
(* written to the scanner, its caller goes into pending under the next     *)
(* request number, and each line the scanner prints answers the smallest   *)
(* pending number.  Lines carry no number.                                 *)
(*                                                                         *)
(* Data abstraction.  A command, and the line that answers it, are the     *)
(* number of the call in order of calling.  scan, diff_hashes (commands    *)
(* with a Graph token) are "graph", ping and hash_local are "plain".  Two  *)
(* limits matter: the scanner reads at most 1 MiB per line and takes what  *)
(* is left for the next command; the port cuts lines after 1,024,000       *)
(* bytes, which handle_info does not expect.  Scanners are numbered in the *)
(* order they are opened; 0 stands for nil.                                *)
(***************************************************************************)
EXTENDS Naturals, SequencesExt, FiniteSetsExt, Functions

CONSTANTS
  Caller,     (* processes that use the scanner                            *)
  MaxRequest, (* bound: calls                                              *)
  MaxScanner, (* bound: scanners opened                                    *)
  MaxLimit    (* bound: commands or lines over their limit                 *)

ASSUME ScannerAssumption ==
  /\ MaxRequest \in Nat /\ MaxLimit \in Nat
  /\ MaxScanner \in Nat \ {0}

VARIABLES
  caller,    (* what each caller waits for or got last                     *)
  mailbox,   (* the server's mailbox, timers excepted                      *)
  server,    (* its state: port, pending, request_id, valid token          *)
  timers,    (* timer -> how many are set                                  *)
  scanner,   (* scanner -> whether it runs and what it has to answer       *)
  installed, (* is the binary there                                        *)
  sent,      (* calls made                                                 *)
  limits     (* limits exceeded, in order                                  *)

vars == <<caller, mailbox, server, timers, scanner, installed, sent, limits>>
others == <<installed, sent, limits>>

Request == 1..MaxRequest
Scanner == 1..MaxScanner
Timer == {"restart_scanner", "refresh_token"}
Limit == {"command", "line"}
Pending == UNION {[S -> Request] : S \in SUBSET Request}
Message ==
  [kind : {"graph", "plain", "graph_token"}, req : Request]
    \cup [kind : {"eol", "noeol"}, scanner : Scanner, req : Request]
    \cup [kind : {"exit_status"}, scanner : Scanner]

CallerState ==
  [is : {"idle", "waiting", "ok", "error", "exit"}, req : 0..MaxRequest, answer : 0..MaxRequest]
ServerState ==
  [port : 0..MaxScanner, pending : Pending, request_id : 0..MaxRequest, token : BOOLEAN]
ScannerState == [is : {"unborn", "runs", "gone"}, todo : Seq(Request)]

TypeOK ==
  /\ caller \in [Caller -> CallerState]
  /\ mailbox \in Seq(Message)
  /\ server \in ServerState
  /\ timers \in [Timer -> {0, 1}]
  /\ scanner \in [Scanner -> ScannerState]
  /\ installed \in BOOLEAN
  /\ sent \in 0..MaxRequest
  /\ limits \in Seq(Limit) /\ Len(limits) <= MaxLimit

NoTimer == [t \in Timer |-> 0]
New == [is |-> "runs", todo |-> <<>>]
Unborn == [is |-> "unborn", todo |-> <<>>]
NextScanner == Cardinality({p \in Scanner : scanner[p].is # "unborn"}) + 1
Opens == installed /\ NextScanner \in Scanner

(* init/1, with port the scanner start_scanner/1 opened, or 0.  Only with  *)
(* a scanner is the token timer set; without one nothing retries.          *)
InitialServer(port) ==
  [port |-> port, pending |-> <<>>, request_id |-> 0, token |-> FALSE]
InitialTimers(port) ==
  [NoTimer EXCEPT !["refresh_token"] = IF port # 0 THEN 1 ELSE 0]

Init ==
  /\ caller = [c \in Caller |-> [is |-> "idle", req |-> 0, answer |-> 0]]
  /\ mailbox = <<>>
  /\ installed \in BOOLEAN
  /\ server = InitialServer(IF installed THEN 1 ELSE 0)
  /\ timers = InitialTimers(server.port)
  /\ scanner = [p \in Scanner |-> IF p = server.port THEN New ELSE Unborn]
  /\ sent = 0 /\ limits = <<>>

-----------------------------------------------------------------------------
(* GenServer.reply to the call r, which may have been given up.            *)
Answered(r, outcome, answer) ==
  [c \in Caller |-> IF caller[c].is = "waiting" /\ caller[c].req = r
                    THEN [is |-> outcome, req |-> r, answer |-> answer] ELSE caller[c]]
Reply(r, outcome, answer) == caller' = Answered(r, outcome, answer)

(* GenServer.call of scan_folder, diff_hashes, graph_token, hash_local or  *)
(* ping.                                                                   *)
Call(c, kind) ==
  /\ caller[c].is # "waiting"
  /\ sent < MaxRequest
  /\ sent' = sent + 1
  /\ caller' = [caller EXCEPT ![c] = [is |-> "waiting", req |-> sent', answer |-> 0]]
  /\ mailbox' = Append(mailbox, [kind |-> kind, req |-> sent'])
  /\ UNCHANGED <<server, timers, scanner, installed, limits>>

(* MUTANT of CallTimeout: the request of a caller that gave up is dropped  *)
(* from pending.                                                           *)
CallTimeoutForgets(c) ==
  /\ caller[c].is = "waiting"
  /\ caller' = [caller EXCEPT ![c].is = "exit"]
  /\ server' = [server EXCEPT !.pending =
       Restrict(@, {n \in DOMAIN @ : @[n] # caller[c].req})]
  /\ UNCHANGED <<mailbox, timers, scanner, others>>

(* A ping waits 5 s, the rest 120 s, also in the scanner's own queue; the  *)
(* request stays where it is.                                              *)
CallTimeout(c) ==
  /\ caller[c].is = "waiting"
  /\ caller' = [caller EXCEPT ![c].is = "exit"]
  /\ UNCHANGED <<mailbox, server, timers, scanner, others>>

-----------------------------------------------------------------------------
(* The server dies, its port with it, and is started anew.                 *)
Crashes ==
  LET port == IF installed THEN NextScanner ELSE 0
  IN /\ installed => Opens
     /\ caller' = [c \in Caller |-> IF caller[c].is = "waiting"
                                    THEN [caller[c] EXCEPT !.is = "exit"] ELSE caller[c]]
     /\ mailbox' = <<>>
     /\ server' = InitialServer(port)
     /\ timers' = InitialTimers(port)
     /\ scanner' = [p \in Scanner |->
          CASE p = port -> New
            [] p # port /\ scanner[p].is = "runs" -> [is |-> "gone", todo |-> <<>>]
            [] OTHER -> scanner[p]]
     /\ UNCHANGED others

(* The next message of the mailbox is of one of these kinds.  Messages of  *)
(* a port are the current port's (OneScanner), so that the catch-all       *)
(* clause, which drops those of another, is never taken.                   *)
Takes(kinds) ==
  /\ mailbox # <<>>
  /\ Head(mailbox).kind \in kinds

(* send_and_pend/3: Port.command raises when the port is closed.           *)
Put(f, k, r) == [n \in DOMAIN f \cup {k} |-> IF n = k THEN r ELSE f[n]]

SendAndPend(r) ==
  /\ server.port # 0 /\ scanner[server.port].is = "runs"
  /\ server' = [server EXCEPT !.request_id = @ + 1,
                              !.pending = Put(@, server.request_id + 1, r)]
  /\ scanner' = [scanner EXCEPT ![server.port].todo = Append(@, r)]
  /\ mailbox' = Tail(mailbox)
  /\ UNCHANGED <<caller, timers, others>>

SendNowhere(r) ==
  /\ server.port = 0
  /\ Reply(r, "error", 0)
  /\ mailbox' = Tail(mailbox)
  /\ UNCHANGED <<server, timers, scanner, others>>

SendRaises ==
  /\ server.port # 0 /\ scanner[server.port].is = "gone"
  /\ Crashes

(* handle_call(:ping), handle_call({:hash_local, _}).                      *)
HandlePlain ==
  /\ Takes({"plain"})
  /\ SendAndPend(Head(mailbox).req) \/ SendNowhere(Head(mailbox).req) \/ SendRaises

(* handle_call({:scan, ...}), handle_call({:diff_hashes, _}): first a      *)
(* token, the one held or else one fetched for this call.                  *)
TokenError ==
  /\ ~server.token
  /\ Reply(Head(mailbox).req, "error", 0)
  /\ mailbox' = Tail(mailbox)
  /\ UNCHANGED <<server, timers, scanner, others>>

HandleGraph ==
  /\ Takes({"graph"})
  /\ \/ SendAndPend(Head(mailbox).req)
     \/ SendNowhere(Head(mailbox).req)
     \/ SendRaises
     \/ TokenError

(* handle_call(:graph_token): the answer is the server's own.              *)
HandleGraphToken ==
  /\ Takes({"graph_token"})
  /\ \/ /\ Reply(Head(mailbox).req, "ok", Head(mailbox).req)
        /\ mailbox' = Tail(mailbox)
        /\ UNCHANGED <<server, timers, scanner, others>>
     \/ TokenError

(* handle_info({port, {:data, {:eol, line}}}): pop_pending/1.              *)
HandleLine ==
  /\ Takes({"eol"})
  /\ mailbox' = Tail(mailbox)
  /\ IF DOMAIN server.pending = {}
     THEN UNCHANGED <<caller, server>>
     ELSE LET first == Min(DOMAIN server.pending)
          IN /\ Reply(server.pending[first], "ok", Head(mailbox).req)
             /\ server' = [server EXCEPT !.pending =
                             Restrict(@, DOMAIN @ \ {first})]
  /\ UNCHANGED <<timers, scanner, others>>

(* handle_info({port, {:data, {:noeol, _}}}): no clause of its case.       *)
HandlePartOfLine == Takes({"noeol"}) /\ Crashes

(* MUTANT of HandleExit: the callers are answered and stay in pending.     *)
HandleExitKeepsPending ==
  /\ Takes({"exit_status"})
  /\ mailbox' = Tail(mailbox)
  /\ caller' = [c \in Caller |->
       IF caller[c].is = "waiting" /\ \E n \in DOMAIN server.pending : server.pending[n] = caller[c].req
       THEN [caller[c] EXCEPT !.is = "error"] ELSE caller[c]]
  /\ server' = [server EXCEPT !.port = 0]
  /\ timers' = [timers EXCEPT !["restart_scanner"] = @ + 1]
  /\ UNCHANGED <<scanner, others>>

(* MUTANT of HandleExit: the callers are forgotten, not answered.          *)
HandleExitSilently ==
  /\ Takes({"exit_status"})
  /\ mailbox' = Tail(mailbox)
  /\ server' = [server EXCEPT !.port = 0, !.pending = <<>>]
  /\ timers' = [timers EXCEPT !["restart_scanner"] = @ + 1]
  /\ UNCHANGED <<caller, scanner, others>>

(* handle_info({port, {:exit_status, _}}).                                 *)
HandleExit ==
  /\ Takes({"exit_status"})
  /\ mailbox' = Tail(mailbox)
  /\ caller' = [c \in Caller |->
       IF caller[c].is = "waiting" /\ \E n \in DOMAIN server.pending : server.pending[n] = caller[c].req
       THEN [caller[c] EXCEPT !.is = "error"] ELSE caller[c]]
  /\ server' = [server EXCEPT !.port = 0, !.pending = <<>>]
  /\ timers' = [timers EXCEPT !["restart_scanner"] = @ + 1]
  /\ UNCHANGED <<scanner, others>>

(* MUTANT of HandleRestart: the next try is always scheduled.              *)
HandleRestartAgain ==
  /\ timers["restart_scanner"] > 0
  /\ \/ /\ Opens
        /\ server' = [server EXCEPT !.port = NextScanner]
        /\ scanner' = [scanner EXCEPT ![NextScanner] = New]
     \/ ~installed /\ UNCHANGED <<server, scanner>>
  /\ UNCHANGED <<caller, mailbox, timers, others>>

(* handle_info(:restart_scanner), again after 5 s when there is no binary. *)
HandleRestart ==
  /\ timers["restart_scanner"] > 0
  /\ \/ /\ Opens
        /\ server' = [server EXCEPT !.port = NextScanner]
        /\ scanner' = [scanner EXCEPT ![NextScanner] = New]
        /\ timers' = [timers EXCEPT !["restart_scanner"] = @ - 1]
     \/ ~installed /\ UNCHANGED <<server, scanner, timers>>
  /\ UNCHANGED <<caller, mailbox, others>>

(* handle_info(:refresh_token), which sets its timer again either way.     *)
HandleRefresh ==
  /\ timers["refresh_token"] > 0
  /\ server' = [server EXCEPT !.token = TRUE]
  /\ UNCHANGED <<caller, mailbox, timers, scanner, others>>

TokenExpires ==
  /\ server.token
  /\ server' = [server EXCEPT !.token = FALSE]
  /\ UNCHANGED <<caller, mailbox, timers, scanner, others>>

-----------------------------------------------------------------------------
(* The scanner answers its commands one by one, each with one line ...     *)
Prints(p, lines) ==
  /\ scanner[p].is = "runs" /\ scanner[p].todo # <<>>
  /\ scanner' = [scanner EXCEPT ![p].todo = Tail(@)]
  /\ mailbox' = mailbox \o [n \in DOMAIN lines |->
       [kind |-> lines[n], scanner |-> p, req |-> Head(scanner[p].todo)]]
  /\ UNCHANGED <<caller, server, timers, installed, sent>>

ScannerAnswers(p) == Prints(p, <<"eol">>) /\ UNCHANGED limits

(* ... or a command over 1 MiB with one error line for each piece, or a    *)
(* command with a line over the port's limit.                              *)
ScannerOverLimit(p) ==
  /\ Len(limits) < MaxLimit
  /\ \/ Prints(p, <<"eol", "eol">>) /\ limits' = Append(limits, "command")
     \/ Prints(p, <<"noeol">>) /\ limits' = Append(limits, "line")

ScannerExits(p) ==
  /\ scanner[p].is = "runs"
  /\ NextScanner \in Scanner
  /\ scanner' = [scanner EXCEPT ![p] = [is |-> "gone", todo |-> <<>>]]
  /\ mailbox' = Append(mailbox, [kind |-> "exit_status", scanner |-> p])
  /\ UNCHANGED <<caller, server, timers, others>>

(* The binary is deployed where it was missing.                            *)
Install ==
  /\ ~installed
  /\ installed' = TRUE
  /\ UNCHANGED <<caller, mailbox, server, timers, scanner, sent, limits>>

HandleMessage ==
  \/ HandlePlain \/ HandleGraph \/ HandleGraphToken
  \/ HandleLine \/ HandlePartOfLine \/ HandleExit

Next ==
  \/ \E c \in Caller :
       \/ \E kind \in {"graph", "plain", "graph_token"} : Call(c, kind)
       \/ CallTimeout(c)
  \/ HandleMessage \/ HandleRestart \/ HandleRefresh \/ TokenExpires
  \/ \E p \in Scanner : ScannerAnswers(p) \/ ScannerOverLimit(p) \/ ScannerExits(p)
  \/ Install

(* The server takes its messages and timers, and a scanner that runs       *)
(* answers in the end.                                                     *)
Fairness ==
  /\ WF_vars(HandleMessage) /\ WF_vars(HandleRestart)
  /\ \A p \in Scanner : WF_vars(ScannerAnswers(p))

Spec == Init /\ [][Next]_vars
FairSpec == Spec /\ Fairness

-----------------------------------------------------------------------------
(* SAFETY                                                                  *)

(* As long as no command is over the scanner's limit, a caller is given    *)
(* the answer to its own request: counting alone pairs lines with callers, *)
(* through calls that were given up, scanners that exit and are restarted  *)
(* and lines the port cuts.                                                *)
AnswerIsMine ==
  "command" \notin ToSet(limits) =>
    \A c \in Caller : caller[c].is = "ok" => caller[c].answer = caller[c].req

Lines == {n \in DOMAIN mailbox : mailbox[n].kind \in {"eol", "noeol"}}
Printed == {mailbox[n].req : n \in Lines}

(* ... because lines and pending requests are both in the order of the     *)
(* calls, the lines that wait in the mailbox answer the oldest requests,   *)
(* and, while the scanner runs, the others are what it has to answer: also *)
(* when calls were given up and after a scanner was replaced.              *)
Paired ==
  /\ "command" \notin ToSet(limits) =>
       /\ \A m, n \in DOMAIN server.pending : m < n => server.pending[m] < server.pending[n]
       /\ \A m, n \in Lines : m < n => mailbox[m].req < mailbox[n].req
       /\ Printed \subseteq Range(server.pending)
       /\ \A r \in Printed, q \in Range(server.pending) \ Printed : r < q
       /\ server.port # 0 /\ scanner[server.port].is = "runs" =>
            Range(server.pending) = Printed \cup ToSet(scanner[server.port].todo)
  /\ server.port = 0 => DOMAIN server.pending = {}

(* There is never a second scanner beside the one whose lines are read,    *)
(* and a lost one is always about to be restarted, by one timer, unless    *)
(* the binary was missing when the server started.                         *)
OneScanner ==
  /\ \A p \in Scanner : scanner[p].is = "runs" => p = server.port
  /\ timers["restart_scanner"] =
       IF server.port = 0 /\ timers["refresh_token"] = 1 THEN 1 ELSE 0
  /\ timers["refresh_token"] = 0 => server.port = 0
  /\ \A n \in DOMAIN mailbox :
       mailbox[n].kind \in {"eol", "noeol", "exit_status"} =>
         mailbox[n].scanner = server.port

-----------------------------------------------------------------------------
(* LIVENESS: every call ends, although the server answers calls out of     *)
(* line and no caller gives up by itself.                                  *)
EveryCallEnds ==
  \A c \in Caller :
    caller[c].is = "waiting" ~> caller[c].is # "waiting" \/ NextScanner \notin Scanner
=============================================================================
