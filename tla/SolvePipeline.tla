----------------------------- MODULE SolvePipeline -----------------------------
(***************************************************************************)
(* TradingDesk.Solver.Pipeline and the dashboards (ScenarioLive) that run  *)
(* it.  A dashboard starts a run as a task with async_nolink; the run      *)
(* checks the contracts, solves, records a SolveAudit and broadcasts its   *)
(* phases to every dashboard.  AutoRunner calls the same code in its own   *)
(* process.  A result can be saved as a scenario and shown again.          *)
(*                                                                         *)
(* Data abstraction.  A result is the number of its run.  Of the events,   *)
(* those that end a solve on a dashboard are messages; the others change   *)
(* what the dashboard says of the phase only.  What the scanner and the    *)
(* solver answer is open: NetworkScanner and SolverPort say when they      *)
(* answer {:ok, _}, {:error, _} or let the caller exit.                    *)
(***************************************************************************)
EXTENDS Naturals, SequencesExt, FiniteSets

CONSTANTS
  Dashboard, (* ScenarioLive processes, one per open page                  *)
  GraphIds,  (* do contracts of the product group carry Graph ids          *)
  MaxRun     (* bound: runs                                                *)

ASSUME PipelineAssumption == GraphIds \in BOOLEAN /\ MaxRun \in Nat

VARIABLES
  dash,    (* each dashboard: is it solving, what it shows, its mailbox    *)
  run,     (* each run: its phase, its caller and how its check went       *)
  audits,  (* SolveAuditStore: run -> what was recorded                    *)
  saved,   (* the results that were saved in Scenarios.Store               *)
  asked    (* runs asked for                                               *)

vars == <<dash, run, audits, saved, asked>>

Run == 1..MaxRun
TraderRef == {"trader_solve", "trader_mc"}
CallerRef == TraderRef \cup {"auto_runner"}
Phase == {"none", "checking", "ingesting", "ready", "solving",
          "solved", "failed", "audited", "error_audited", "returns", "ended", "died"}
Message ==
  [kind : {"do_solve", "solve_done"}, ref : TraderRef, run : 0..MaxRun]
    \cup [kind : {"pipeline_error", "task"}, ref : CallerRef, run : Run]

(* listens: the dashboard process that started the run is still there.     *)
RunState == [is : Phase, ref : CallerRef, by : Dashboard \cup {"auto_runner"},
             listens : BOOLEAN, stale : BOOLEAN]
NoRun == [is |-> "none", ref |-> "auto_runner", by |-> "auto_runner",
          listens |-> FALSE, stale |-> FALSE]

DashState == [solving : BOOLEAN, shown : [TraderRef -> 0..MaxRun], mailbox : Seq(Message)]

TypeOK ==
  /\ dash \in [Dashboard -> DashState]
  /\ run \in [Run -> RunState]
  /\ audits \in [Run -> {"none", "result", "error"}]
  /\ saved \subseteq Run
  /\ asked \in 0..MaxRun

(* mount/3 *)
Mounted == [solving |-> FALSE, shown |-> [f \in TraderRef |-> 0], mailbox |-> <<>>]

Init ==
  /\ dash = [d \in Dashboard |-> Mounted]
  /\ run = [r \in Run |-> NoRun]
  /\ audits = [r \in Run |-> "none"]
  /\ saved = {} /\ asked = 0

Alive(r) == run[r].is \notin {"none", "ended", "died"}
NextRun == Cardinality({r \in Run : run[r].is # "none"}) + 1

(* PubSub.broadcast: every dashboard is subscribed.                        *)
Broadcast(m) == dash' = [d \in Dashboard |-> [dash[d] EXCEPT !.mailbox = Append(@, m)]]

-----------------------------------------------------------------------------
(* THE DASHBOARD                                                           *)

(* handle_event("confirm_solve")                                           *)
ConfirmSolve(d, ref) ==
  /\ dash' = [dash EXCEPT ![d].solving = TRUE,
                          ![d].mailbox = Append(@, [kind |-> "do_solve", ref |-> ref, run |-> 0])]
  /\ asked < MaxRun /\ asked' = asked + 1
  /\ UNCHANGED <<run, audits, saved>>

(* handle_event("reset"), handle_event("switch_product_group")             *)
Reset(d) ==
  /\ dash' = [dash EXCEPT ![d].shown = Mounted.shown]
  /\ UNCHANGED <<run, audits, saved, asked>>

(* handle_event("save_scenario"): what :result holds, not :distribution.   *)
(* An exit of its calls to the store is a Remount after this or instead.   *)
SaveScenario(d) ==
  /\ dash[d].shown["trader_solve"] # 0
  /\ saved' = saved \cup {dash[d].shown["trader_solve"]}
  /\ UNCHANGED <<dash, run, audits, asked>>

(* handle_event("load_scenario"): one of those listed, which are what the  *)
(* store had when the page was mounted or last saved one.  Which of all    *)
(* that were ever saved it is, is left open.                               *)
LoadScenario(d) ==
  /\ \E r \in saved : dash' = [dash EXCEPT ![d].shown["trader_solve"] = r]
  /\ UNCHANGED <<run, audits, saved, asked>>

FirstIs(d, kind) == dash[d].mailbox # <<>> /\ Head(dash[d].mailbox).kind = kind
Taken(d) == [dash[d] EXCEPT !.mailbox = Tail(@)]

(* handle_info(:do_solve), handle_info(:do_monte_carlo)                    *)
HandleDoSolve(d) ==
  /\ FirstIs(d, "do_solve") /\ NextRun \in Run
  /\ run' = [run EXCEPT ![NextRun] =
       [is |-> "checking", ref |-> Head(dash[d].mailbox).ref, by |-> d,
        listens |-> TRUE, stale |-> FALSE]]
  /\ dash' = [dash EXCEPT ![d] = Taken(d)]
  /\ UNCHANGED <<audits, saved, asked>>

(* handle_info({:pipeline_event, :pipeline_solve_done, _}), for the runs   *)
(* of all dashboards: they share their caller_refs.                        *)
HandleSolveDone(d) ==
  LET m == Head(dash[d].mailbox)
  IN /\ FirstIs(d, "solve_done")
     /\ dash' = [dash EXCEPT ![d] = [Taken(d) EXCEPT !.solving = FALSE,
                                                     !.shown[m.ref] = m.run]]
     /\ UNCHANGED <<run, audits, saved, asked>>

(* handle_info({:pipeline_event, :pipeline_error, _}); AutoRunner's events *)
(* meet the catch-all for pipeline events.                                 *)
HandlePipelineError(d) ==
  /\ FirstIs(d, "pipeline_error")
  /\ dash' = [dash EXCEPT ![d] =
       [Taken(d) EXCEPT !.solving = @ /\ Head(dash[d].mailbox).ref = "auto_runner"]]
  /\ UNCHANGED <<run, audits, saved, asked>>

(* The process is gone, with its mailbox, and the page mounted again.      *)
Remount(d) ==
  /\ dash' = [dash EXCEPT ![d] = Mounted]
  /\ run' = [r \in Run |-> IF run[r].by = d THEN [run[r] EXCEPT !.listens = FALSE]
                                            ELSE run[r]]
  /\ UNCHANGED <<audits, saved, asked>>

(* The task's reply, or the news of its exit: no clause of handle_info     *)
(* matches.                                                                *)
HandleTask(d) == FirstIs(d, "task") /\ Remount(d)

-----------------------------------------------------------------------------
(* THE RUN                                                                 *)

(* AutoRunner.do_run; it has one run at a time.                            *)
AutoRun ==
  /\ asked < MaxRun /\ asked' = asked + 1
  /\ \A r \in Run : run[r].by = "auto_runner" => ~Alive(r)
  /\ run' = [run EXCEPT ![NextRun] = [NoRun EXCEPT !.is = "checking"]]
  /\ UNCHANGED <<dash, audits, saved>>

Steps(r, from, to) == run[r].is = from /\ run' = [run EXCEPT ![r].is = to]

(* check_and_ingest_contracts/4: nothing to check without a scanner or     *)
(* Graph ids; else all is current, something changed or is missing, or the *)
(* scanner answers an error; then the run goes on with what there is.      *)
Check(r) ==
  /\ \/ Steps(r, "checking", "ready")
     \/ GraphIds /\ Steps(r, "checking", "ingesting")
     \/ /\ GraphIds /\ run[r].is = "checking"
        /\ run' = [run EXCEPT ![r].is = "solving", ![r].stale = TRUE]
  /\ UNCHANGED <<dash, audits>>

(* ScanCoordinator.check_existing/1, whose own hash check may fail.        *)
IngestChanges(r) ==
  /\ \/ Steps(r, "ingesting", "ready")
     \/ /\ run[r].is = "ingesting"
        /\ run' = [run EXCEPT ![r].is = "solving", ![r].stale = TRUE]
  /\ UNCHANGED <<dash, audits>>

StartSolve(r) == Steps(r, "ready", "solving") /\ UNCHANGED <<dash, audits>>

(* Port.solve or Port.monte_carlo answers.                                 *)
Solved(r) ==
  /\ Steps(r, "solving", "solved") \/ Steps(r, "solving", "failed")
  /\ UNCHANGED <<dash, audits>>

(* SolveAuditStore.record of the id, result and result_status.             *)
Record(r, status) == audits' = [audits EXCEPT ![r] = status]

(* MUTANT of WriteAudit: only failed solves are recorded.                  *)
WriteAuditOfErrors(r) ==
  /\ \/ Steps(r, "solved", "audited") /\ UNCHANGED audits
     \/ Steps(r, "failed", "error_audited") /\ Record(r, "error")
  /\ UNCHANGED dash

(* write_audit/1, before the event.                                        *)
WriteAudit(r) ==
  /\ \/ Steps(r, "solved", "audited") /\ Record(r, "result")
     \/ Steps(r, "failed", "error_audited") /\ Record(r, "error")
  /\ UNCHANGED dash

(* :pipeline_solve_done                                                    *)
BroadcastDone(r) ==
  /\ Steps(r, "audited", "returns")
  /\ IF run[r].ref \in TraderRef
     THEN Broadcast([kind |-> "solve_done", ref |-> run[r].ref, run |-> r])
     ELSE UNCHANGED dash
  /\ UNCHANGED audits

(* :pipeline_error, which a run with stale contracts does not send.        *)
BroadcastError(r) ==
  /\ Steps(r, "error_audited", "returns")
  /\ IF run[r].stale
     THEN UNCHANGED dash
     ELSE Broadcast([kind |-> "pipeline_error", ref |-> run[r].ref, run |-> r])
  /\ UNCHANGED audits

(* MUTANT of TellOwner: the run is started with start_child.               *)
TellNobody(r) == UNCHANGED dash

(* async_nolink sends the process that called it the task's result, or     *)
(* the news that it exited.                                                *)
TellOwner(r) ==
  IF run[r].listens
  THEN dash' = [dash EXCEPT ![run[r].by].mailbox =
                  Append(@, [kind |-> "task", ref |-> run[r].ref, run |-> r])]
  ELSE UNCHANGED dash

Return(r) == Steps(r, "returns", "ended") /\ TellOwner(r) /\ UNCHANGED audits

(* A GenServer.call exits, and the task with it: to LiveState, the scanner *)
(* or Contracts.Store, to the solver, or in write_audit/1 to the audit     *)
(* store, which may have recorded all the same, or to the log, after it.   *)
CallExits(r) ==
  /\ \/ /\ \E phase \in {"checking", "ingesting", "ready", "solving", "solved", "failed"} :
             Steps(r, phase, "died")
        /\ UNCHANGED audits
     \/ Steps(r, "solved", "died") /\ Record(r, "result")
     \/ Steps(r, "failed", "died") /\ Record(r, "error")
  /\ TellOwner(r)

RunStep(r) ==
  /\ \/ Check(r) \/ IngestChanges(r) \/ StartSolve(r) \/ Solved(r) \/ WriteAudit(r)
     \/ BroadcastDone(r) \/ BroadcastError(r) \/ Return(r) \/ CallExits(r)
  /\ UNCHANGED <<saved, asked>>

HandleInfo(d) ==
  HandleDoSolve(d) \/ HandleSolveDone(d) \/ HandlePipelineError(d) \/ HandleTask(d)

Next ==
  \/ \E d \in Dashboard :
       \/ \E ref \in TraderRef : ConfirmSolve(d, ref)
       \/ Reset(d) \/ SaveScenario(d) \/ LoadScenario(d)
       \/ Remount(d) \/ HandleInfo(d)
  \/ AutoRun
  \/ \E r \in Run : RunStep(r)

(* Tasks and dashboards are scheduled; calls end (SolverPort,              *)
(* NetworkScanner).  Nothing obliges a trader to do anything.              *)
Fairness ==
  /\ \A r \in Run : WF_vars(RunStep(r))
  /\ \A d \in Dashboard : WF_vars(HandleInfo(d))

Spec == Init /\ [][Next]_vars
FairSpec == Spec /\ Fairness

-----------------------------------------------------------------------------
(* SAFETY                                                                  *)

(* Every result on any dashboard is that of an audited run with a result,  *)
(* whoever started it, be it new or loaded from a scenario: what a trader  *)
(* acts on can be looked up.                                               *)
ShownIsAudited ==
  \A d \in Dashboard, f \in TraderRef :
    dash[d].shown[f] # 0 => /\ run[dash[d].shown[f]].ref = f
                            /\ audits[dash[d].shown[f]] = "result"

(* A dashboard that says it is solving has something under way that will   *)
(* end that: its request, a run that will tell it, or a message.  No exit, *)
(* error without event, or event of another dashboard's run leaves it      *)
(* solving for nothing.                                                    *)
SolvingUnderWay ==
  \A d \in Dashboard : dash[d].solving =>
    \/ dash[d].mailbox # <<>>
    \/ \E r \in Run : run[r].by = d /\ run[r].listens /\ Alive(r)

-----------------------------------------------------------------------------
(* LIVENESS: a dashboard stops solving.                                    *)
DashboardSettles == \A d \in Dashboard : dash[d].solving ~> ~dash[d].solving
=============================================================================
