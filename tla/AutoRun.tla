-------------------------------- MODULE AutoRun --------------------------------
(***************************************************************************)
(* Scenarios.AutoRunner and what drives it: the Poller writes LiveState    *)
(* and broadcasts that data was updated, DeltaConfig holds thresholds and  *)
(* cooldown, and AutoRunner, in one process, compares the live values with *)
(* those it solved last (its baseline) and runs a Monte Carlo simulation.  *)
(*                                                                         *)
(* Data abstraction.  A source has one variable, a small number.  Of time  *)
(* only the cooldown matters: `recent` says that less than                 *)
(* min_solve_interval_ms has passed since the last successful run; timers  *)
(* fire some time after they are set.  The live values are read by one     *)
(* call to decide and by another to solve.  {:delta_config, _, _} messages *)
(* do nothing in both receivers and are left out, as are failed polls,     *)
(* which change an error map only.                                         *)
(***************************************************************************)
EXTENDS Integers, Sequences

CONSTANTS
  Source,        (* the data sources whose variables the solver reads      *)
  MaxValue,      (* bound: values of a variable                            *)
  Nil,           (* nil                                                   *)
  MaxPoll,       (* bound: polls that find a new value                     *)
  MaxEvent       (* bound: polls of vessel positions and tides, changes of *)
                 (* the configuration, calls of run_now, failed runs and   *)
                 (* calls that exit                                        *)

ASSUME AutoRunAssumption ==
  /\ MaxValue \in Nat /\ MaxPoll \in Nat /\ MaxEvent \in Nat
  /\ Nil \notin [Source -> 0..MaxValue]

VARIABLES
  live,       (* LiveState: source -> value of its variable                *)
  announces,  (* the Poller has changed LiveState and not yet said so      *)
  config,     (* DeltaConfig of the product group                          *)
  runner,     (* AutoRunner: what it does, its baseline, what it solves    *)
  mailbox,    (* its mailbox                                               *)
  timers,     (* its timers -> how many are set                            *)
  recent,     (* its cooldown is not over                                  *)
  overlooked, (* since its last successful run, or its start, it was told  *)
              (* of data and left it, a run failed or the thresholds moved *)
  used        (* how much of each bound was used                           *)

runnerVars == <<live, announces, config, runner, mailbox, timers, recent, overlooked, used>>

Values == [Source -> 0..MaxValue]
Timer == {"initial_run", "scheduled_run"}
Message == Timer \cup {"data_updated", "supplementary_updated", "run_now"}
(* A threshold of 0 stands for every one that any two values reach, and    *)
(* MaxValue + 1 for those that none do, or none at all for the source.     *)
Config == [enabled : BOOLEAN, thresholds : [Source -> 0..(MaxValue + 1)]]
Bound == [polls |-> MaxPoll, events |-> MaxEvent]

RunnerTypeOK ==
  /\ live \in Values /\ announces \in BOOLEAN /\ config \in Config
  /\ runner \in [is : {"down", "idle", "decided", "running"},
                 baseline : Values \cup {Nil}, center : Values \cup {Nil}]
  /\ mailbox \in Seq(Message)
  /\ timers \in [Timer -> 0..1]
  /\ recent \in BOOLEAN /\ overlooked \in BOOLEAN
  /\ used \in [DOMAIN Bound -> Nat] /\ \A b \in DOMAIN Bound : used[b] <= Bound[b]

Down == [is |-> "down", baseline |-> Nil, center |-> Nil]

RunnerInit ==
  /\ live = [s \in Source |-> 0] /\ announces = FALSE
  /\ config \in Config
  /\ runner = Down /\ mailbox = <<>> /\ timers = [t \in Timer |-> 0]
  /\ recent = FALSE /\ overlooked = FALSE
  /\ used = [b \in DOMAIN Bound |-> 0]

Use(b) == used[b] < Bound[b] /\ used' = [used EXCEPT ![b] = @ + 1]

(* PubSub and GenServer.cast reach the process when it runs.               *)
Tell(m) == mailbox' = IF runner.is = "down" THEN mailbox ELSE Append(mailbox, m)
Queued(m) == \E n \in DOMAIN mailbox : mailbox[n] = m

-----------------------------------------------------------------------------
(* THE POLLER, LIVESTATE AND DELTACONFIG                                   *)

(* MUTANT of Poll: LiveState is read after the update only.                *)
PollComparesAfter(s, v) ==
  /\ ~announces /\ v # live[s] /\ Use("polls")
  /\ live' = [live EXCEPT ![s] = v]
  /\ UNCHANGED <<announces, config, runner, mailbox, timers, recent, overlooked>>

(* Poller.handle_info({:poll, source}): get, update, get; and broadcast if *)
(* the values differ.                                                      *)
Poll(s, v) ==
  /\ ~announces /\ v # live[s] /\ Use("polls")
  /\ live' = [live EXCEPT ![s] = v]
  /\ announces' = TRUE
  /\ UNCHANGED <<config, runner, mailbox, timers, recent, overlooked>>

Announce ==
  /\ announces
  /\ announces' = FALSE
  /\ Tell("data_updated")
  /\ UNCHANGED <<live, config, runner, timers, recent, overlooked, used>>

(* LiveState.update_supplementary, from a poll of vessels or tides.        *)
UpdateSupplementary ==
  /\ ~announces
  /\ Use("events")
  /\ Tell("supplementary_updated")
  /\ UNCHANGED <<live, announces, config, runner, timers, recent, overlooked>>

(* DeltaConfig.update and set; another min_solve_interval_ms may end the   *)
(* cooldown of an earlier run or start it again.                           *)
UpdateConfig(c) ==
  /\ c # config /\ Use("events")
  /\ config' = c
  /\ recent' \in IF runner.baseline = Nil THEN {recent} ELSE BOOLEAN
  /\ overlooked' = TRUE
  /\ UNCHANGED <<live, announces, runner, mailbox, timers>>

-----------------------------------------------------------------------------
(* AUTORUNNER                                                              *)

(* init/1: the process subscribes and sets both timers.                    *)
Start ==
  /\ runner.is = "down"
  /\ runner' = [Down EXCEPT !.is = "idle"]
  /\ timers' = [t \in Timer |-> 1]
  /\ UNCHANGED <<live, announces, config, mailbox, recent, overlooked, used>>

Dies ==
  /\ runner' = Down /\ mailbox' = <<>> /\ timers' = [t \in Timer |-> 0]
  /\ recent' = FALSE /\ overlooked' = FALSE
  /\ UNCHANGED <<live, announces, config>>

TimerFires(t) ==
  /\ timers[t] > 0
  /\ timers' = [timers EXCEPT ![t] = @ - 1]
  /\ Tell(t)
  /\ UNCHANGED <<live, announces, config, runner, recent, overlooked, used>>

RunNow ==
  /\ runner.is # "down" /\ Use("events")
  /\ Tell("run_now")
  /\ UNCHANGED <<live, announces, config, runner, timers, recent, overlooked>>

CooldownElapses ==
  /\ recent
  /\ recent' = FALSE
  /\ UNCHANGED <<live, announces, config, runner, mailbox, timers, overlooked, used>>

Abs(x) == IF x < 0 THEN -x ELSE x

(* material_change?/3                                                      *)
MaterialChange(old, new) ==
  \E s \in Source : Abs(new[s] - old[s]) >= config.thresholds[s]

Material == (runner.baseline # Nil) => MaterialChange(runner.baseline, live)

(* A threshold that any two values reach makes what was solved material;   *)
(* there is something to solve if the values also moved.                   *)
Moved == Material /\ live # runner.baseline

Takes(m) ==
  /\ runner.is = "idle" /\ mailbox # <<>> /\ Head(mailbox) = m
  /\ mailbox' = Tail(mailbox)
  /\ UNCHANGED <<live, announces, config, recent, used>>

Decide == runner' = [runner EXCEPT !.is = "decided"]

(* handle_info({:data_updated, _})                                         *)
HandleDataUpdated ==
  /\ Takes("data_updated")
  /\ \/ /\ config.enabled /\ Material /\ ~recent
        /\ Decide /\ UNCHANGED overlooked
     \/ /\ ~config.enabled \/ (Material /\ recent)
        /\ overlooked' = TRUE /\ UNCHANGED runner
     \/ /\ config.enabled /\ ~Material
        /\ UNCHANGED <<runner, overlooked>>
  /\ UNCHANGED timers

(* No clause of handle_info matches {:supplementary_updated, _}.           *)
HandleSupplementary ==
  /\ runner.is = "idle" /\ mailbox # <<>> /\ Head(mailbox) = "supplementary_updated"
  /\ Dies
  /\ UNCHANGED used

(* MUTANT of HandleInitial: it sets the fallback timer as well.            *)
HandleInitialSchedules ==
  /\ Takes("initial_run")
  /\ timers' = [timers EXCEPT !["scheduled_run"] = @ + 1]
  /\ IF config.enabled THEN Decide /\ UNCHANGED overlooked
                       ELSE overlooked' = TRUE /\ UNCHANGED runner

(* handle_info(:initial_run)                                               *)
HandleInitial ==
  /\ Takes("initial_run")
  /\ IF config.enabled THEN Decide /\ UNCHANGED overlooked
                       ELSE overlooked' = TRUE /\ UNCHANGED runner
  /\ UNCHANGED timers

(* MUTANT of HandleScheduled: the timer is set again only before a run.    *)
HandleScheduledOnlyEnabled ==
  /\ Takes("scheduled_run")
  /\ timers' = IF config.enabled THEN [timers EXCEPT !["scheduled_run"] = @ + 1] ELSE timers
  /\ IF config.enabled THEN Decide ELSE UNCHANGED runner
  /\ UNCHANGED overlooked

(* handle_info(:scheduled_run)                                             *)
HandleScheduled ==
  /\ Takes("scheduled_run")
  /\ timers' = [timers EXCEPT !["scheduled_run"] = @ + 1]
  /\ IF config.enabled THEN Decide ELSE UNCHANGED runner
  /\ UNCHANGED overlooked

(* handle_cast(:run_now)                                                   *)
HandleRunNow == Takes("run_now") /\ Decide /\ UNCHANGED <<timers, overlooked>>

(* do_run/2 reads the live values it solves ...                            *)
StartRun ==
  /\ runner.is = "decided"
  /\ runner' = [runner EXCEPT !.is = "running", !.center = live]
  /\ UNCHANGED <<live, announces, config, mailbox, timers, recent, overlooked, used>>

(* ... and makes them the baseline when the pipeline answers a result,     *)
RunSucceeds ==
  /\ runner.is = "running"
  /\ runner' = [is |-> "idle", baseline |-> runner.center, center |-> Nil]
  /\ recent' = TRUE /\ overlooked' = FALSE
  /\ UNCHANGED <<live, announces, config, mailbox, timers, used>>

(* ... keeps the old one when it answers an error,                         *)
RunFails ==
  /\ runner.is = "running" /\ Use("events")
  /\ runner' = [runner EXCEPT !.is = "idle", !.center = Nil]
  /\ overlooked' = TRUE
  /\ UNCHANGED <<live, announces, config, mailbox, timers, recent>>

(* ... and dies when a call of the pipeline exits.                         *)
RunExits == runner.is = "running" /\ Use("events") /\ Dies

(* So it does when DeltaConfig.get or LiveState.get exits, of which a      *)
(* handler calls one before it decides and do_run/2 one before it solves.  *)
CallExits ==
  /\ \/ runner.is = "idle" /\ mailbox # <<>> /\ Head(mailbox) # "supplementary_updated"
     \/ runner.is = "decided"
  /\ Use("events") /\ Dies

HandleMessage ==
  \/ HandleDataUpdated \/ HandleSupplementary
  \/ HandleInitial \/ HandleScheduled \/ HandleRunNow

RunEnds == RunSucceeds \/ RunFails \/ RunExits

RunnerNext ==
  \/ \E s \in Source, v \in 0..MaxValue : Poll(s, v)
  \/ Announce \/ UpdateSupplementary
  \/ \E c \in Config : UpdateConfig(c)
  \/ Start \/ RunNow \/ CooldownElapses
  \/ \E t \in Timer : TimerFires(t)
  \/ HandleMessage \/ StartRun \/ RunEnds \/ CallExits

(* Processes are scheduled, timers fire, time passes and runs end.         *)
Fairness ==
  /\ WF_runnerVars(Announce) /\ WF_runnerVars(Start) /\ WF_runnerVars(CooldownElapses)
  /\ \A t \in Timer : WF_runnerVars(TimerFires(t))
  /\ WF_runnerVars(HandleMessage) /\ WF_runnerVars(StartRun) /\ WF_runnerVars(RunEnds)

RunnerSpec == RunnerInit /\ [][RunnerNext]_runnerVars
FairSpec == RunnerSpec /\ Fairness

-----------------------------------------------------------------------------
(* SAFETY                                                                  *)

(* A material change is never overlooked: unless AutoRunner was told of it *)
(* and left it (disabled, or in its cooldown), a run failed or the         *)
(* configuration changed since, it will be told, or is in a run, or will   *)
(* run first thing after its start.  So neither updates during a run, nor  *)
(* broadcasts it missed while it was down, nor small steps that add up are *)
(* lost.                                                                   *)
NoDeltaOverlooked ==
  config.enabled /\ Moved /\ ~overlooked =>
    \/ runner.is # "idle"
    \/ announces \/ Queued("data_updated")
    \/ timers["initial_run"] = 1 \/ Queued("initial_run")

(* There is exactly one fallback while AutoRunner is up: the timer or its  *)
(* message, through disabling, failed runs and restarts.                   *)
FallbackArmed ==
  runner.is # "down" =>
    /\ timers["scheduled_run"] = 1 <=> ~Queued("scheduled_run")
    /\ \A m, n \in DOMAIN mailbox :
         mailbox[m] = "scheduled_run" /\ mailbox[n] = "scheduled_run" => m = n

-----------------------------------------------------------------------------
(* LIVENESS: a material change is solved, or goes away, although it may be *)
(* left in the cooldown and runs may fail, as long as AutoRunner is        *)
(* enabled and runs do not fail for ever.                                  *)
DeltasSettle == config.enabled /\ Moved ~> ~config.enabled \/ ~Moved
=============================================================================
