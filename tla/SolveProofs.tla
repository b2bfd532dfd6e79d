------------------------------ MODULE SolveProofs ------------------------------
(***************************************************************************)
(* Proofs about what starts solves, AutoRun, for any sources, values and   *)
(* numbers of events; and about what becomes of their records,             *)
(* SolveAudits, for any sets of contracts, counterparties, audits,         *)
(* starters and times, and any number of writes, faults and recoveries.    *)
(*                                                                         *)
(* AutoRun: the type invariant says that no timer is set twice, which      *)
(* needs the mailbox: the fallback timer is set when its message is taken, *)
(* and there is only one such message.                                     *)
(*                                                                         *)
(* SolveAudits: what was once stored, recorded or logged never changes,    *)
(* and everything else - tasks, rows, links, index entries - is about      *)
(* something logged or recorded (IsKnown).  The steps are sorted by what   *)
(* they do to the log, the tables and the indexes; each property needs one *)
(* of these sorts.                                                         *)
(***************************************************************************)
EXTENDS AutoRun, SolveAudits, FiniteSetTheorems, TLAPS

-----------------------------------------------------------------------------
(* AUTORUNNER                                                              *)

(* A process that is down has neither mail nor timers.                     *)
DownIsEmpty ==
  runner.is = "down" => mailbox = <<>> /\ timers = [t \in Timer |-> 0]

(* If the live values have moved since a run read them, the message that   *)
(* says so comes after the run.                                            *)
RunWillBeTold ==
  runner.is = "running" /\ runner.center # live => announces \/ Queued("data_updated")

IInv == RunnerTypeOK /\ DownIsEmpty /\ FallbackArmed

(* At most one position of the mailbox holds m.                            *)
AtMostOne(m) ==
  \A j, k \in DOMAIN mailbox : mailbox[j] = m /\ mailbox[k] = m => j = k

-----------------------------------------------------------------------------
(* What sending and taking a message do to a mailbox.                      *)

LEMMA TellUp ==
  ASSUME mailbox \in Seq(Message), NEW m \in Message, runner.is # "down", Tell(m)
  PROVE  /\ mailbox' \in Seq(Message)
         /\ Len(mailbox') = Len(mailbox) + 1
         /\ DOMAIN mailbox = 1..Len(mailbox) /\ DOMAIN mailbox' = 1..(Len(mailbox) + 1)
         /\ Len(mailbox) \in Nat
         /\ mailbox'[Len(mailbox) + 1] = m
         /\ \A n \in DOMAIN mailbox : mailbox'[n] = mailbox[n]
BY DEF Tell

LEMMA TellQueues ==
  ASSUME mailbox \in Seq(Message), NEW m \in Message, Tell(m)
  PROVE  /\ mailbox' \in Seq(Message)
         /\ \A x : Queued(x) => Queued(x)'
         /\ runner.is # "down" => Queued(m)'
<1>1. CASE runner.is = "down"
  BY <1>1 DEF Tell, Queued
<1>2. CASE runner.is # "down"
  <2>1. DOMAIN mailbox \subseteq DOMAIN mailbox' /\ Len(mailbox) + 1 \in DOMAIN mailbox'
    BY <1>2, TellUp
  <2>. QED  BY <1>2, <2>1, TellUp DEF Queued
<1>. QED  BY <1>1, <1>2

LEMMA TellOther ==
  ASSUME mailbox \in Seq(Message), NEW m \in Message, NEW x, x # m, Tell(m)
  PROVE  /\ Queued(x)' <=> Queued(x)
         /\ AtMostOne(x) => AtMostOne(x)'
<1>1. CASE runner.is = "down"
  BY <1>1 DEF Tell, Queued, AtMostOne
<1>2. CASE runner.is # "down"
  <2>1. \A n \in DOMAIN mailbox' : mailbox'[n] = x => n \in DOMAIN mailbox /\ mailbox[n] = x
    BY <1>2, TellUp
  <2>2. Queued(x)' => Queued(x)
    BY <2>1 DEF Queued
  <2>. QED  BY <2>1, <2>2, TellQueues DEF AtMostOne
<1>. QED  BY <1>1, <1>2

LEMMA TellFirst ==
  ASSUME mailbox \in Seq(Message), NEW m \in Message, ~Queued(m), Tell(m)
  PROVE  AtMostOne(m)'
<1>1. CASE runner.is = "down"
  BY <1>1 DEF Tell, Queued, AtMostOne
<1>2. CASE runner.is # "down"
  <2>1. \A n \in DOMAIN mailbox' : mailbox'[n] = m => n = Len(mailbox) + 1
    BY <1>2, TellUp DEF Queued
  <2>. QED  BY <2>1 DEF AtMostOne
<1>. QED  BY <1>1, <1>2

LEMMA TakeTail ==
  ASSUME mailbox \in Seq(Message), mailbox # <<>>, mailbox' = Tail(mailbox)
  PROVE  /\ mailbox' \in Seq(Message)
         /\ DOMAIN mailbox = 1..Len(mailbox) /\ Len(mailbox) \in Nat \ {0}
         /\ DOMAIN mailbox' = 1..(Len(mailbox) - 1)
         /\ \A n \in DOMAIN mailbox' : n + 1 \in DOMAIN mailbox /\ mailbox'[n] = mailbox[n + 1]
OBVIOUS

LEMMA TakeOther ==
  ASSUME mailbox \in Seq(Message), mailbox # <<>>, mailbox' = Tail(mailbox),
         NEW x, Head(mailbox) # x
  PROVE  /\ Queued(x)' <=> Queued(x)
         /\ AtMostOne(x) => AtMostOne(x)'
<1>1. \A n \in DOMAIN mailbox : mailbox[n] = x => n - 1 \in DOMAIN mailbox' /\ mailbox'[n - 1] = x
  BY TakeTail
<1>2. ASSUME AtMostOne(x) PROVE AtMostOne(x)'
  BY <1>2, TakeTail DEF AtMostOne
<1>3. Queued(x)' <=> Queued(x)
  BY <1>1, TakeTail DEF Queued
<1>. QED  BY <1>2, <1>3

LEMMA TakeOnly ==
  ASSUME mailbox \in Seq(Message), mailbox # <<>>, mailbox' = Tail(mailbox),
         NEW x, Head(mailbox) = x, AtMostOne(x)
  PROVE  ~Queued(x)' /\ AtMostOne(x)'
<1>1. 1 \in DOMAIN mailbox /\ mailbox[1] = x
  BY TakeTail
<1>2. \A n \in DOMAIN mailbox' : mailbox'[n] # x
  BY <1>1, TakeTail DEF AtMostOne
<1>. QED  BY <1>2 DEF Queued, AtMostOne

-----------------------------------------------------------------------------
(* The invariant of the types, the mailbox and the timers.                 *)

LEMMA CleanType ==
  /\ Down \in [is : {"down", "idle", "decided", "running"},
               baseline : Values \cup {Nil}, center : Values \cup {Nil}]
  /\ <<>> \in Seq(Message)
  /\ [t \in Timer |-> 0] \in [Timer -> 0..1]
<1>1. <<>> \in Seq(Message)
  OBVIOUS
<1>2. [t \in Timer |-> 0] \in [Timer -> 0..1]
  OBVIOUS
<1>. QED  BY <1>1, <1>2 DEF Down

LEMMA InitIInv == RunnerInit => IInv
<1>. SUFFICES ASSUME RunnerInit PROVE IInv
  OBVIOUS
<1>1. live \in Values
  BY AutoRunAssumption DEF RunnerInit, Values
<1>2. /\ used \in [DOMAIN Bound -> Nat]
      /\ \A b \in DOMAIN Bound : used[b] = 0 /\ 0 <= Bound[b]
  BY AutoRunAssumption DEF RunnerInit, Bound
<1>3. RunnerTypeOK
  BY <1>1, <1>2, CleanType DEF RunnerInit, RunnerTypeOK
<1>4. DownIsEmpty /\ FallbackArmed
  BY DEF RunnerInit, Down, DownIsEmpty, FallbackArmed
<1>. QED  BY <1>3, <1>4 DEF IInv

LEMMA UseType ==
  ASSUME RunnerTypeOK, NEW b \in DOMAIN Bound, Use(b)
  PROVE  /\ used' \in [DOMAIN Bound -> Nat]
         /\ \A c \in DOMAIN Bound : used'[c] <= Bound[c]
<1>1. Bound[b] \in Nat
  BY AutoRunAssumption DEF Bound
<1>. QED  BY <1>1 DEF RunnerTypeOK, Use

(* A step that sends AutoRunner a message and leaves its process and its   *)
(* fallback timer alone keeps the mailbox in order, unless the message is  *)
(* the fallback's.                                                         *)
LEMMA TellArmed ==
  ASSUME IInv, NEW m \in Message \ {"scheduled_run"}, Tell(m),
         runner' = runner, timers'["scheduled_run"] = timers["scheduled_run"],
         timers = [t \in Timer |-> 0] => timers' = timers
  PROVE  DownIsEmpty' /\ FallbackArmed'
<1>1. DownIsEmpty'
  BY DEF IInv, DownIsEmpty, Tell
<1>2. FallbackArmed'
  <2>1. mailbox \in Seq(Message)
    BY DEF IInv, RunnerTypeOK
  <2>2. Queued("scheduled_run")' <=> Queued("scheduled_run")
    BY <2>1, TellOther
  <2>3. AtMostOne("scheduled_run") => AtMostOne("scheduled_run")'
    BY <2>1, TellOther
  <2>. QED  BY <2>2, <2>3 DEF IInv, FallbackArmed, AtMostOne
<1>. QED  BY <1>1, <1>2

(* So does a step that takes another message than the fallback's.          *)
LEMMA TakeArmed ==
  ASSUME IInv, NEW m \in Message \ {"scheduled_run"}, Takes(m),
         UNCHANGED timers, runner'.is # "down"
  PROVE  DownIsEmpty' /\ FallbackArmed'
<1>1. mailbox \in Seq(Message) /\ mailbox # <<>> /\ mailbox' = Tail(mailbox)
  BY DEF IInv, RunnerTypeOK, Takes
<1>2. Head(mailbox) # "scheduled_run" /\ runner.is # "down"
  BY DEF Takes
<1>3. Queued("scheduled_run")' <=> Queued("scheduled_run")
  BY <1>1, <1>2, TakeOther
<1>4. AtMostOne("scheduled_run") => AtMostOne("scheduled_run")'
  BY <1>1, <1>2, TakeOther
<1>. QED  BY <1>2, <1>3, <1>4 DEF IInv, FallbackArmed, AtMostOne, DownIsEmpty

(* A step after which the process is down and its mail and timers are gone. *)
LEMMA DiesIInv ==
  ASSUME IInv, Dies,
         used' \in [DOMAIN Bound -> Nat] /\ \A b \in DOMAIN Bound : used'[b] <= Bound[b]
  PROVE  IInv'
<1>1. RunnerTypeOK'
  BY CleanType DEF IInv, RunnerTypeOK, Dies
<1>2. DownIsEmpty' /\ FallbackArmed'
  BY DEF Dies, Down, DownIsEmpty, FallbackArmed
<1>. QED  BY <1>1, <1>2 DEF IInv

LEMMA StepIInv == IInv /\ [RunnerNext]_runnerVars => IInv'
<1>. SUFFICES ASSUME IInv, [RunnerNext]_runnerVars PROVE IInv'
  OBVIOUS
<1>. USE DEF Message
<1>0. RunnerTypeOK /\ mailbox \in Seq(Message)
  BY DEF IInv, RunnerTypeOK
<1>1. ASSUME NEW s \in Source, NEW v \in 0..MaxValue, Poll(s, v) PROVE IInv'
  <2>1. RunnerTypeOK'
    <3>1. live' \in Values
      BY <1>0, <1>1 DEF RunnerTypeOK, Poll, Values
    <3>2. used' \in [DOMAIN Bound -> Nat] /\ \A b \in DOMAIN Bound : used'[b] <= Bound[b]
      BY <1>0, <1>1, UseType DEF Poll, Bound
    <3>. QED  BY <1>0, <1>1, <3>1, <3>2 DEF RunnerTypeOK, Poll
  <2>. QED  BY <1>1, <2>1 DEF IInv, Poll, DownIsEmpty, FallbackArmed, Queued
<1>2. CASE Announce
  <2>1. mailbox' \in Seq(Message)
    BY <1>0, <1>2, TellQueues DEF Announce
  <2>2. RunnerTypeOK'
    BY <1>0, <1>2, <2>1 DEF RunnerTypeOK, Announce
  <2>. QED  BY <1>2, <2>2, TellArmed DEF IInv, Announce
<1>3. CASE UpdateSupplementary
  <2>1. mailbox' \in Seq(Message)
    BY <1>0, <1>3, TellQueues DEF UpdateSupplementary
  <2>2. used' \in [DOMAIN Bound -> Nat] /\ \A b \in DOMAIN Bound : used'[b] <= Bound[b]
    BY <1>0, <1>3, UseType DEF UpdateSupplementary, Bound
  <2>3. RunnerTypeOK'
    BY <1>0, <1>3, <2>1, <2>2 DEF RunnerTypeOK, UpdateSupplementary
  <2>. QED  BY <1>3, <2>3, TellArmed DEF IInv, UpdateSupplementary
<1>4. ASSUME NEW c \in Config, UpdateConfig(c) PROVE IInv'
  <2>1. used' \in [DOMAIN Bound -> Nat] /\ \A b \in DOMAIN Bound : used'[b] <= Bound[b]
    BY <1>0, <1>4, UseType DEF UpdateConfig, Bound
  <2>2. recent' \in BOOLEAN
    BY <1>0, <1>4 DEF RunnerTypeOK, UpdateConfig
  <2>3. RunnerTypeOK'
    BY <1>0, <1>4, <2>1, <2>2 DEF RunnerTypeOK, UpdateConfig
  <2>. QED  BY <1>4, <2>3 DEF IInv, UpdateConfig, DownIsEmpty, FallbackArmed, Queued
<1>5. CASE Start
  <2>1. mailbox = <<>> /\ mailbox' = mailbox
    BY <1>5 DEF IInv, DownIsEmpty, Start
  <2>2. runner' = [is |-> "idle", baseline |-> Nil, center |-> Nil]
    BY <1>5 DEF Start, Down
  <2>3. timers' \in [Timer -> 0..1] /\ timers'["scheduled_run"] = 1
    BY <1>5 DEF Start, Timer
  <2>4. runner' \in [is : {"down", "idle", "decided", "running"},
                    baseline : Values \cup {Nil}, center : Values \cup {Nil}]
    BY <2>2
  <2>5. RunnerTypeOK'
    BY <1>0, <1>5, <2>3, <2>4 DEF RunnerTypeOK, Start
  <2>. QED  BY <2>1, <2>2, <2>3, <2>5 DEF IInv, DownIsEmpty, FallbackArmed, Queued
<1>6. CASE RunNow
  <2>1. mailbox' \in Seq(Message)
    BY <1>0, <1>6, TellQueues DEF RunNow
  <2>2. used' \in [DOMAIN Bound -> Nat] /\ \A b \in DOMAIN Bound : used'[b] <= Bound[b]
    BY <1>0, <1>6, UseType DEF RunNow, Bound
  <2>3. RunnerTypeOK'
    BY <1>0, <1>6, <2>1, <2>2 DEF RunnerTypeOK, RunNow
  <2>. QED  BY <1>6, <2>3, TellArmed DEF IInv, RunNow
<1>7. CASE CooldownElapses
  BY <1>7 DEF IInv, RunnerTypeOK, CooldownElapses, DownIsEmpty, FallbackArmed, Queued
<1>8. ASSUME NEW t \in Timer, TimerFires(t) PROVE IInv'
  <2>1. runner.is # "down" /\ runner' = runner
    BY <1>8 DEF IInv, DownIsEmpty, TimerFires
  <2>2. mailbox' \in Seq(Message)
    BY <1>0, <1>8, TellQueues DEF TimerFires
  <2>3. /\ timers' \in [Timer -> 0..1] /\ timers[t] = 1 /\ timers'[t] = 0
        /\ t # "scheduled_run" => timers'["scheduled_run"] = timers["scheduled_run"]
    BY <1>0, <1>8 DEF RunnerTypeOK, TimerFires, Timer
  <2>4. RunnerTypeOK'
    BY <1>0, <1>8, <2>2, <2>3 DEF RunnerTypeOK, TimerFires
  <2>5. DownIsEmpty' /\ FallbackArmed'
    <3>1. CASE t = "scheduled_run"
      <4>1. ~Queued("scheduled_run")
        BY <2>1, <2>3, <3>1 DEF IInv, FallbackArmed
      <4>2. Queued("scheduled_run")' /\ AtMostOne("scheduled_run")'
        BY <1>0, <1>8, <2>1, <3>1, <4>1, TellQueues, TellFirst DEF TimerFires
      <4>. QED  BY <2>1, <2>3, <3>1, <4>2 DEF FallbackArmed, AtMostOne, DownIsEmpty
    <3>2. CASE t # "scheduled_run"
      <4>1. timers # [u \in Timer |-> 0]
        BY <2>3
      <4>. QED  BY <1>8, <2>1, <2>3, <3>2, <4>1, TellArmed DEF TimerFires
    <3>. QED  BY <3>1, <3>2
  <2>. QED  BY <2>4, <2>5 DEF IInv
<1>9. CASE HandleMessage
  <2>1. ASSUME NEW m \in Message, Takes(m)
        PROVE  /\ mailbox' \in Seq(Message) /\ mailbox # <<>> /\ mailbox' = Tail(mailbox)
               /\ Head(mailbox) = m /\ runner.is = "idle"
               /\ UNCHANGED <<live, announces, config, recent, used>>
    BY <1>0, <2>1, TakeTail DEF Takes
  <2>2. ASSUME NEW m \in Message \ {"scheduled_run"}, Takes(m), UNCHANGED timers,
               overlooked' \in BOOLEAN, Decide \/ UNCHANGED runner
        PROVE  IInv'
    <3>1. runner'.is # "down" /\ RunnerTypeOK'
      BY <1>0, <2>1, <2>2 DEF RunnerTypeOK, Decide
    <3>. QED  BY <2>2, <3>1, TakeArmed DEF IInv
  <2>3. CASE HandleDataUpdated
    BY <1>0, <2>2, <2>3 DEF HandleDataUpdated, RunnerTypeOK
  <2>4. CASE HandleSupplementary
    BY <1>0, <2>4, DiesIInv DEF HandleSupplementary, RunnerTypeOK
  <2>5. CASE HandleInitial
    BY <1>0, <2>2, <2>5 DEF HandleInitial, RunnerTypeOK, Timer
  <2>6. CASE HandleScheduled
    <3>1. Takes("scheduled_run") /\ (Decide \/ UNCHANGED runner) /\ UNCHANGED overlooked
      BY <2>6 DEF HandleScheduled
    <3>2. runner'.is # "down" /\ runner.is # "down"
      BY <1>0, <2>1, <3>1 DEF RunnerTypeOK, Decide, Timer
    <3>3. Queued("scheduled_run")
      BY <1>0, <2>1, <3>1, TakeTail DEF Queued, Timer
    <3>4. timers["scheduled_run"] = 0
      BY <1>0, <3>2, <3>3 DEF IInv, FallbackArmed, RunnerTypeOK, Timer
    <3>5. timers' \in [Timer -> 0..1] /\ timers'["scheduled_run"] = 1
      BY <1>0, <2>6, <3>4 DEF HandleScheduled, RunnerTypeOK, Timer
    <3>6. RunnerTypeOK'
      BY <1>0, <2>1, <3>1, <3>5 DEF RunnerTypeOK, Decide, Timer
    <3>7. AtMostOne("scheduled_run")
      BY <3>2 DEF IInv, FallbackArmed, AtMostOne
    <3>8. ~Queued("scheduled_run")' /\ AtMostOne("scheduled_run")'
      BY <1>0, <2>1, <3>1, <3>7, TakeOnly DEF Timer
    <3>. QED  BY <3>2, <3>5, <3>6, <3>8 DEF IInv, FallbackArmed, AtMostOne, DownIsEmpty
  <2>7. CASE HandleRunNow
    BY <1>0, <2>2, <2>7 DEF HandleRunNow, RunnerTypeOK
  <2>. QED  BY <1>9, <2>3, <2>4, <2>5, <2>6, <2>7 DEF HandleMessage
<1>10. CASE StartRun
  BY <1>0, <1>10 DEF IInv, RunnerTypeOK, StartRun, DownIsEmpty, FallbackArmed, Queued
<1>11. CASE RunSucceeds
  BY <1>0, <1>11 DEF IInv, RunnerTypeOK, RunSucceeds, DownIsEmpty, FallbackArmed, Queued
<1>12. CASE RunFails
  <2>1. used' \in [DOMAIN Bound -> Nat] /\ \A b \in DOMAIN Bound : used'[b] <= Bound[b]
    BY <1>0, <1>12, UseType DEF RunFails, Bound
  <2>2. RunnerTypeOK'
    BY <1>0, <1>12, <2>1 DEF RunnerTypeOK, RunFails
  <2>. QED  BY <1>0, <1>12, <2>2
            DEF IInv, RunnerTypeOK, RunFails, DownIsEmpty, FallbackArmed, Queued
<1>13. CASE RunExits
  <2>1. used' \in [DOMAIN Bound -> Nat] /\ \A b \in DOMAIN Bound : used'[b] <= Bound[b]
    BY <1>0, <1>13, UseType DEF RunExits, Bound
  <2>. QED  BY <1>13, <2>1, DiesIInv DEF RunExits
<1>14. CASE UNCHANGED runnerVars
  BY <1>14 DEF IInv, RunnerTypeOK, runnerVars, DownIsEmpty, FallbackArmed, Queued
<1>15. CASE CallExits
  <2>1. used' \in [DOMAIN Bound -> Nat] /\ \A b \in DOMAIN Bound : used'[b] <= Bound[b]
    BY <1>0, <1>15, UseType DEF CallExits, Bound
  <2>. QED  BY <1>15, <2>1, DiesIInv DEF CallExits
<1>. QED  BY <1>1, <1>2, <1>3, <1>4, <1>5, <1>6, <1>7, <1>8, <1>9, <1>10, <1>11,
             <1>12, <1>13, <1>14, <1>15 DEF RunnerNext, RunEnds

(* Every reachable state is well typed: in particular no timer is ever set *)
(* twice, through disabling, failed runs, deaths and restarts.             *)
THEOREM AutoRunTypeCorrect == RunnerSpec => []RunnerTypeOK
<1>1. RunnerInit => IInv
  BY InitIInv
<1>2. IInv /\ [RunnerNext]_runnerVars => IInv'
  BY StepIInv
<1>3. IInv => RunnerTypeOK
  BY DEF IInv
<1>. QED  BY <1>1, <1>2, <1>3, PTL DEF RunnerSpec

(* While AutoRunner is up, its fallback is either a timer or one message   *)
(* in its mailbox, never both and never neither.                           *)
THEOREM FallbackCorrect == RunnerSpec => []FallbackArmed
<1>1. RunnerInit => IInv
  BY InitIInv
<1>2. IInv /\ [RunnerNext]_runnerVars => IInv'
  BY StepIInv
<1>3. IInv => FallbackArmed
  BY DEF IInv
<1>. QED  BY <1>1, <1>2, <1>3, PTL DEF RunnerSpec

-----------------------------------------------------------------------------
(* No material change is overlooked.                                       *)

LEMMA StepWillBeTold ==
  ASSUME RunnerTypeOK, RunnerTypeOK', RunWillBeTold, [RunnerNext]_runnerVars
  PROVE  RunWillBeTold'
<1>. USE DEF Message
<1>0. mailbox \in Seq(Message)
  BY DEF RunnerTypeOK
<1>1. ASSUME NEW s \in Source, NEW v \in 0..MaxValue, Poll(s, v) PROVE RunWillBeTold'
  BY <1>1 DEF Poll, RunWillBeTold
<1>2. CASE Announce
  BY <1>0, <1>2, TellQueues DEF Announce, RunWillBeTold
<1>3. CASE UpdateSupplementary
  BY <1>0, <1>3, TellQueues DEF UpdateSupplementary, RunWillBeTold
<1>4. ASSUME NEW c \in Config, UpdateConfig(c) PROVE RunWillBeTold'
  BY <1>4 DEF UpdateConfig, RunWillBeTold, Queued
<1>5. CASE Start
  BY <1>5 DEF Start, Down, RunWillBeTold
<1>6. CASE RunNow
  BY <1>0, <1>6, TellQueues DEF RunNow, RunWillBeTold
<1>7. CASE CooldownElapses
  BY <1>7 DEF CooldownElapses, RunWillBeTold, Queued
<1>8. ASSUME NEW t \in Timer, TimerFires(t) PROVE RunWillBeTold'
  BY <1>0, <1>8, TellQueues DEF TimerFires, RunWillBeTold
<1>9. CASE HandleMessage
  <2>1. runner'.is # "running"
    BY <1>9 DEF RunnerTypeOK, HandleMessage, HandleDataUpdated, HandleSupplementary, HandleInitial,
                HandleScheduled, HandleRunNow, Takes, Decide, Dies, Down
  <2>. QED  BY <2>1 DEF RunWillBeTold
<1>10. CASE StartRun
  BY <1>10 DEF RunnerTypeOK, StartRun, RunWillBeTold
<1>11. CASE RunEnds
  <2>1. CASE RunSucceeds
    BY <2>1 DEF RunSucceeds, RunWillBeTold
  <2>2. CASE RunFails
    BY <2>2 DEF RunnerTypeOK, RunFails, RunWillBeTold
  <2>3. CASE RunExits
    BY <2>3 DEF RunExits, Dies, Down, RunWillBeTold
  <2>. QED  BY <1>11, <2>1, <2>2, <2>3 DEF RunEnds
<1>12. CASE UNCHANGED runnerVars
  BY <1>12 DEF runnerVars, RunWillBeTold, Queued
<1>13. CASE CallExits
  BY <1>13 DEF CallExits, Dies, Down, RunWillBeTold
<1>. QED  BY <1>1, <1>2, <1>3, <1>4, <1>5, <1>6, <1>7, <1>8, <1>9, <1>10, <1>11, <1>12, <1>13
          DEF RunnerNext

LEMMA StepNotOverlooked ==
  ASSUME RunnerTypeOK, RunnerTypeOK', RunWillBeTold, NoDeltaOverlooked, [RunnerNext]_runnerVars
  PROVE  NoDeltaOverlooked'
<1>. USE DEF Message
<1>0. mailbox \in Seq(Message)
  BY DEF RunnerTypeOK
<1>1. ASSUME NEW s \in Source, NEW v \in 0..MaxValue, Poll(s, v) PROVE NoDeltaOverlooked'
  BY <1>1 DEF Poll, NoDeltaOverlooked
<1>2. CASE Announce
  <2>1. runner.is # "idle" \/ Queued("data_updated")'
    BY <1>0, <1>2, TellQueues DEF Announce
  <2>. QED  BY <1>2, <2>1 DEF Announce, NoDeltaOverlooked
<1>3. ASSUME NEW m \in Message, Tell(m), UNCHANGED <<live, announces, config, runner, overlooked>>,
             m = "initial_run" \/ timers'["initial_run"] = timers["initial_run"]
      PROVE  NoDeltaOverlooked'
  <2>1. Moved' = Moved
    BY <1>3 DEF Moved, Material, MaterialChange
  <2>2. Queued("data_updated") => Queued("data_updated")'
    BY <1>0, <1>3, TellQueues
  <2>3. Queued("initial_run") => Queued("initial_run")'
    BY <1>0, <1>3, TellQueues
  <2>4. CASE m = "initial_run"
    <3>1. runner.is # "idle" \/ Queued("initial_run")'
      BY <1>0, <1>3, <2>4, TellQueues
    <3>. QED  BY <1>3, <3>1 DEF NoDeltaOverlooked
  <2>. QED  BY <1>3, <2>1, <2>2, <2>3, <2>4 DEF NoDeltaOverlooked
<1>4. CASE UpdateSupplementary
  BY <1>3, <1>4 DEF UpdateSupplementary
<1>5. ASSUME NEW c \in Config, UpdateConfig(c) PROVE NoDeltaOverlooked'
  BY <1>5 DEF UpdateConfig, NoDeltaOverlooked
<1>6. CASE Start
  BY <1>6 DEF Start, NoDeltaOverlooked, Timer
<1>7. CASE RunNow
  BY <1>3, <1>7 DEF RunNow
<1>8. CASE CooldownElapses
  BY <1>8 DEF CooldownElapses, NoDeltaOverlooked, Moved, Material, MaterialChange, Queued
<1>9. ASSUME NEW t \in Timer, TimerFires(t) PROVE NoDeltaOverlooked'
  <2>1. t = "initial_run" \/ timers'["initial_run"] = timers["initial_run"]
    BY <1>9 DEF RunnerTypeOK, TimerFires, Timer
  <2>. QED  BY <1>3, <1>9, <2>1 DEF TimerFires
<1>10. CASE HandleMessage
  <2>1. CASE Decide
    <3>1. runner'.is # "idle"
      BY <2>1 DEF RunnerTypeOK, Decide
    <3>. QED  BY <3>1 DEF NoDeltaOverlooked
  <2>2. CASE HandleDataUpdated
    <3>1. CASE overlooked' = TRUE
      BY <3>1 DEF NoDeltaOverlooked
    <3>2. CASE config.enabled /\ ~Material /\ UNCHANGED runner
      <4>1. ~Moved'
        BY <2>2, <3>2 DEF HandleDataUpdated, Takes, Moved, Material, MaterialChange
      <4>. QED  BY <4>1 DEF NoDeltaOverlooked
    <3>. QED  BY <2>1, <2>2, <3>1, <3>2 DEF HandleDataUpdated
  <2>3. CASE HandleSupplementary
    BY <2>3 DEF HandleSupplementary, Dies, Down, NoDeltaOverlooked
  <2>4. CASE HandleInitial
    BY <2>1, <2>4 DEF HandleInitial, NoDeltaOverlooked
  <2>5. CASE HandleScheduled
    BY <2>1, <2>5 DEF HandleScheduled, Takes, NoDeltaOverlooked
  <2>6. CASE HandleRunNow
    BY <2>1, <2>6 DEF HandleRunNow
  <2>. QED  BY <1>10, <2>2, <2>3, <2>4, <2>5, <2>6 DEF HandleMessage
<1>11. CASE StartRun
  BY <1>11 DEF RunnerTypeOK, StartRun, NoDeltaOverlooked
<1>12. CASE RunSucceeds
  <2>1. runner'.baseline = runner.center /\ UNCHANGED <<live, announces, config, mailbox>>
    BY <1>12 DEF RunSucceeds
  <2>2. CASE runner.center = live
    <3>3. ~Moved'
      BY <2>1, <2>2 DEF Moved
    <3>. QED  BY <3>3 DEF NoDeltaOverlooked
  <2>3. CASE runner.center # live
    BY <1>12, <2>1, <2>3 DEF RunSucceeds, RunWillBeTold, NoDeltaOverlooked, Queued
  <2>. QED  BY <2>2, <2>3
<1>13. CASE RunFails
  BY <1>13 DEF RunFails, NoDeltaOverlooked
<1>14. CASE RunExits
  BY <1>14 DEF RunExits, Dies, Down, NoDeltaOverlooked
<1>15. CASE UNCHANGED runnerVars
  BY <1>15 DEF runnerVars, NoDeltaOverlooked, Moved, Material, MaterialChange, Queued
<1>16. CASE CallExits
  BY <1>16 DEF CallExits, Dies, Down, NoDeltaOverlooked
<1>. QED  BY <1>1, <1>2, <1>4, <1>5, <1>6, <1>7, <1>8, <1>9, <1>10, <1>11, <1>12,
             <1>13, <1>14, <1>15, <1>16 DEF RunnerNext, RunEnds

(* While AutoRunner is enabled and idle, a material change it was not told *)
(* of, that no failed run and no new configuration followed, will be       *)
(* announced or solved, whatever happened during runs and while it was     *)
(* down.                                                                   *)
THEOREM NoDeltaOverlookedCorrect == RunnerSpec => []NoDeltaOverlooked
<1>1. RunnerInit => RunWillBeTold /\ NoDeltaOverlooked
  BY DEF RunnerInit, Down, RunWillBeTold, NoDeltaOverlooked
<1>2. RunnerTypeOK /\ RunnerTypeOK' /\ RunWillBeTold /\ NoDeltaOverlooked /\ [RunnerNext]_runnerVars
        => RunWillBeTold' /\ NoDeltaOverlooked'
  BY StepWillBeTold, StepNotOverlooked
<1>. QED  BY <1>1, <1>2, AutoRunTypeCorrect, PTL DEF RunnerSpec

-----------------------------------------------------------------------------
(* THE RECORDS OF SOLVES                                                   *)

Written == Len(log["contract"]) + Len(log["audit"]) + Len(log["scenario"])
LogFits == Written <= count.writes

Counters == [writes : 0..MaxWrites, outages : 0..Faults, crashes : 0..Faults,
             lost : 0..Faults, runs : 0..MaxRuns]

-----------------------------------------------------------------------------
(* TYPES                                                                   *)

(* The log is as long as its three parts together.                         *)
LEMMA LogLength ==
  ASSUME TypeOK
  PROVE  /\ Written \in Nat
         /\ \A t \in Type : Len(log[t]) \in Nat /\ Len(log[t]) <= Written
         /\ \A t \in Type : log[t] \in Seq(Item) /\ DOMAIN log[t] = 1..Len(log[t])
<1>1. \A t \in Type : log[t] \in Seq(Item)
  BY DEF TypeOK
<1>2. \A t \in Type : Len(log[t]) \in Nat /\ DOMAIN log[t] = 1..Len(log[t])
  BY <1>1
<1>3. /\ Len(log["contract"]) \in Nat /\ Len(log["audit"]) \in Nat
      /\ Len(log["scenario"]) \in Nat
  BY <1>2 DEF Type
<1>4. PICK a \in Nat, b \in Nat, c \in Nat :
        /\ Len(log["contract"]) = a /\ Len(log["audit"]) = b
        /\ Len(log["scenario"]) = c
  BY <1>3
<1>5. Written = a + b + c
  BY <1>4 DEF Written
<1>6. Written \in Nat /\ a <= Written /\ b <= Written /\ c <= Written
  BY <1>5
<1>7. \A t \in Type : Len(log[t]) <= Written
  BY <1>4, <1>6 DEF Type
<1>. QED  BY <1>1, <1>2, <1>6, <1>7

(* What the counters are, and what one more fault makes of them.           *)
LEMMA CountersType ==
  ASSUME TypeOK
  PROVE  /\ count \in Counters
         /\ count.writes \in 0..MaxWrites /\ count.outages \in 0..Faults
         /\ count.crashes \in 0..Faults /\ count.lost \in 0..Faults
         /\ count.runs \in 0..MaxRuns
         /\ count.writes \in Nat /\ count.outages \in Nat
         /\ Faulty => /\ count.outages + 1 \in 0..Faults /\ count.crashes + 1 \in 0..Faults
                      /\ count.lost + 1 \in 0..Faults
<1>1. /\ count \in Counters
      /\ count.writes \in 0..MaxWrites /\ count.outages \in 0..Faults
      /\ count.crashes \in 0..Faults /\ count.lost \in 0..Faults
      /\ count.runs \in 0..MaxRuns
  BY DEF TypeOK, Counters
<1>2. PICK o \in 0..Faults, d \in 0..Faults, l \in 0..Faults :
        o = count.outages /\ d = count.crashes /\ l = count.lost
  BY <1>1
<1>3. ASSUME Faulty
      PROVE  o + 1 \in 0..Faults /\ d + 1 \in 0..Faults /\ l + 1 \in 0..Faults
  <2>1. o + d + l < Faults
    BY <1>2, <1>3 DEF Faulty
  <2>. QED  BY <2>1, AuditsAssumption
<1>. QED  BY <1>1, <1>2, <1>3, AuditsAssumption

(* A write counts itself and, when it fails, a lost call.                  *)
LEMMA CountsType ==
  ASSUME TypeOK, count.writes < MaxWrites,
         count' = Counts \/ (Faulty /\ count' = CountsLost)
  PROVE  /\ count' \in Counters /\ count'.writes = count.writes + 1
         /\ count'.outages = count.outages
<1>1. /\ count \in Counters /\ count.writes + 1 \in 0..MaxWrites
      /\ Faulty => count.lost + 1 \in 0..Faults
  BY CountersType, AuditsAssumption
<1>2. Counts \in Counters /\ Counts.writes = count.writes + 1
      /\ Counts.outages = count.outages /\ Counts.lost = count.lost
  BY <1>1 DEF Counters, Counts
<1>3. ASSUME Faulty
      PROVE  /\ CountsLost \in Counters /\ CountsLost.writes = count.writes + 1
             /\ CountsLost.outages = count.outages
  <2>1. CountsLost = [Counts EXCEPT !.lost = count.lost + 1]
    BY <1>2 DEF CountsLost
  <2>. QED  BY <1>1, <1>2, <1>3, <2>1 DEF Counters
<1>. QED  BY <1>2, <1>3

(* One write, whether or not it is logged and its caller outlives it.      *)
Writes(type, id) ==
  /\ type \in Type /\ id \in Item
  /\ [type |-> type, id |-> id, n |-> count.writes + 1] \in Task
  /\ \E fits \in BOOLEAN : Persist(type, id, fits) \/ PersistExits(type, id, fits)

(* What a write does to the log, the tasks and the counters.               *)
LEMMA WritesOnce ==
  ASSUME TypeOK, LogFits, NEW type, NEW id, Writes(type, id)
  PROVE  /\ log' \in [Type -> Seq(Item)] /\ odd' \subseteq Position /\ odd \subseteq odd'
         /\ log'[type] = log[type] \/ log'[type] = Append(log[type], id)
         /\ \A t \in Type \ {type} : log'[t] = log[t]
         /\ tasks' \subseteq tasks \cup {[type |-> type, id |-> id, n |-> count.writes + 1]}
         /\ tasks' \subseteq Task
         /\ count' \in Counters /\ count'.writes = count.writes + 1
         /\ count'.outages = count.outages
<1>1. PICK fits \in BOOLEAN :
        /\ type \in Type /\ id \in Item /\ count.writes < MaxWrites
        /\ [type |-> type, id |-> id, n |-> count.writes + 1] \in Task
        /\ Logs(type, id, fits) \/ LogsNot
        /\ count' = Counts \/ (Faulty /\ count' = CountsLost)
        /\ tasks' \subseteq tasks \cup {[type |-> type, id |-> id, n |-> count.writes + 1]}
  BY DEF Writes, Persist, PersistExits
<1>2. log \in [Type -> Seq(Item)] /\ tasks \subseteq Task /\ odd \subseteq Position
  BY DEF TypeOK
<1>3. Len(log[type]) + 1 \in Position
  <2>1. PICK l \in Nat, w \in Nat, k \in Nat :
          l = Len(log[type]) /\ w = Written /\ k = count.writes /\ l <= w /\ w <= k
    BY <1>1, LogLength, CountersType DEF LogFits
  <2>. QED  BY <1>1, <2>1, AuditsAssumption DEF Position
<1>4. CASE Logs(type, id, fits)
  <2>1. PICK q \in Seq(Item) : q = log[type]
    BY <1>1, <1>2
  <2>2. Append(q, id) \in Seq(Item)
    BY <1>1
  <2>3. log' = [log EXCEPT ![type] = Append(q, id)]
    BY <1>4, <2>1 DEF Logs
  <2>4. odd' \subseteq Position /\ odd \subseteq odd'
    BY <1>2, <1>3, <1>4 DEF Logs
  <2>. QED  BY <1>1, <1>2, <2>1, <2>2, <2>3, <2>4, CountsType
<1>5. CASE LogsNot
  BY <1>1, <1>2, <1>5, CountsType DEF LogsNot
<1>. QED  BY <1>1, <1>4, <1>5

(* ... entry by entry.                                                     *)
LEMMA WritesKeep ==
  ASSUME TypeOK, LogFits, NEW type, NEW id, Writes(type, id)
  PROVE  /\ \A t \in Type : Len(log'[t]) \in Nat /\ Len(log[t]) <= Len(log'[t])
         /\ \A t \in Type : DOMAIN log'[t] \subseteq Nat
         /\ \A t \in Type : \A n \in DOMAIN log[t] :
              n \in DOMAIN log'[t] /\ log'[t][n] = log[t][n]
         /\ \A t \in Type : \A n \in DOMAIN log'[t] :
              n \in DOMAIN log[t] \/ (t = type /\ log'[t][n] = id)
         /\ Written' <= Written + 1 /\ Written' \in Nat
<1>1. /\ log' \in [Type -> Seq(Item)] /\ type \in Type /\ id \in Item
      /\ log'[type] = log[type] \/ log'[type] = Append(log[type], id)
      /\ \A t \in Type \ {type} : log'[t] = log[t]
  BY WritesOnce DEF Writes
<1>2. PICK q \in Seq(Item) : q = log[type]
  BY <1>1 DEF TypeOK
<1>3. /\ Append(q, id) \in Seq(Item) /\ Len(q) \in Nat
      /\ Len(Append(q, id)) = Len(q) + 1
      /\ DOMAIN q = 1..Len(q) /\ DOMAIN Append(q, id) = 1..(Len(q) + 1)
      /\ Append(q, id)[Len(q) + 1] = id
      /\ \A n \in 1..Len(q) : Append(q, id)[n] = q[n]
  BY <1>1
<1>4. /\ Len(log'[type]) \in {Len(q), Len(q) + 1}
      /\ \A n \in DOMAIN q : n \in DOMAIN log'[type] /\ log'[type][n] = q[n]
      /\ \A n \in DOMAIN log'[type] : n \in DOMAIN q \/ log'[type][n] = id
  BY <1>1, <1>2, <1>3
<1>5. \A t \in Type : /\ Len(log[t]) \in Nat /\ Len(log'[t]) \in {Len(log[t]), Len(log[t]) + 1}
                      /\ DOMAIN log'[t] \subseteq Nat
                      /\ t # type => Len(log'[t]) = Len(log[t])
  BY <1>1, <1>2, <1>3, <1>4, LogLength
<1>6. Written' <= Written + 1 /\ Written' \in Nat
  <2>1. PICK a \in Nat, b \in Nat, c \in Nat :
          /\ Len(log["contract"]) = a /\ Len(log["audit"]) = b
          /\ Len(log["scenario"]) = c
    BY <1>5 DEF Type
  <2>2. /\ Len(log'["contract"]) \in {a, a + 1} /\ Len(log'["audit"]) \in {b, b + 1}
        /\ Len(log'["scenario"]) \in {c, c + 1}
        /\ type # "contract" => Len(log'["contract"]) = a
        /\ type # "audit" => Len(log'["audit"]) = b
        /\ type # "scenario" => Len(log'["scenario"]) = c
    BY <1>5, <2>1 DEF Type
  <2>3. PICK d \in Nat, e \in Nat, f \in Nat :
          /\ Len(log'["contract"]) = d /\ Len(log'["audit"]) = e
          /\ Len(log'["scenario"]) = f
    BY <2>2
  <2>4. Written = a + b + c /\ Written' = d + e + f
    BY <2>1, <2>3 DEF Written
  <2>5. d + e + f <= a + b + c + 1
    BY <1>1, <2>2, <2>3 DEF Type
  <2>. QED  BY <2>4, <2>5
<1>7. \A t \in Type : \A n \in DOMAIN log[t] :
        n \in DOMAIN log'[t] /\ log'[t][n] = log[t][n]
  BY <1>1, <1>2, <1>4
<1>8. \A t \in Type : \A n \in DOMAIN log'[t] :
        n \in DOMAIN log[t] \/ (t = type /\ log'[t][n] = id)
  BY <1>1, <1>2, <1>4
<1>. QED  BY <1>5, <1>6, <1>7, <1>8

(* A position of the log is a position.                                    *)
LEMMA Positions ==
  ASSUME TypeOK, LogFits, NEW t \in Type
  PROVE  DOMAIN log[t] \subseteq Position /\ Len(log[t]) \in 0..MaxWrites
<1>1. PICK l \in Nat, w \in Nat, k \in 0..MaxWrites :
        l = Len(log[t]) /\ w = Written /\ k = count.writes /\ l <= w /\ w <= k
  BY LogLength, CountersType DEF LogFits
<1>2. DOMAIN log[t] = 1..l
  BY <1>1, LogLength
<1>. QED  BY <1>1, <1>2, AuditsAssumption DEF Position

(* What the recovery becomes.                                              *)
LEMMA TurnType ==
  ASSUME TypeOK, LogFits, NEW op \in Operation, NEW type \in Type,
         NEW todo \in SUBSET DOMAIN log[type], Turn(op, type, todo)
  PROVE  recovery' \in Recovery
<1>1. /\ recovery \in Recovery /\ recovery.refused \in 0..MaxWrites
      /\ recovery.read \in [Type -> 0..MaxWrites]
  BY DEF TypeOK, Recovery
<1>2. DOMAIN log[type] \subseteq Position /\ Len(log[type]) \in 0..MaxWrites
  BY Positions
<1>3. [recovery.read EXCEPT ![type] = Len(log[type])] \in [Type -> 0..MaxWrites]
  BY <1>1, <1>2
<1>. QED  BY <1>1, <1>2, <1>3 DEF Turn, Recovery

LEMMA ToReplayLogged ==
  ASSUME NEW op, NEW type
  PROVE  ToReplay(op, type) \subseteq DOMAIN log[type]
BY DEF ToReplay, Missing

LEMMA NextOfType ==
  ASSUME NEW type \in Type
  PROVE  /\ NextOf(type) \in {"audit", "scenario"} /\ NextOf(type) \in Type
         /\ NextOf("contract") = "audit" /\ NextOf("audit") = "scenario"
BY DEF NextOf, Type

LEMMA TodoShrinks ==
  ASSUME TypeOK
  PROVE  /\ Idle \in Recovery /\ Raised \in Recovery
         /\ \A n \in Position : /\ Rest(n) \in Recovery
                                /\ [Raised EXCEPT !.refused = n] \in Recovery
<1>1. recovery \in Recovery /\ recovery.todo \subseteq Position
  BY DEF TypeOK, Recovery
<1>2. 0 \in 0..MaxWrites /\ \A n \in Position : n \in 0..MaxWrites
  BY AuditsAssumption DEF Position
<1>3. Raised \in Recovery
  BY <1>1 DEF Raised, Recovery
<1>4. Idle \in Recovery
  BY <1>2 DEF Idle, Recovery
<1>5. ASSUME NEW n \in Position  PROVE  Rest(n) \in Recovery
  BY <1>1 DEF Rest, Recovery
<1>6. ASSUME NEW n \in Position  PROVE  [Raised EXCEPT !.refused = n] \in Recovery
  BY <1>2, <1>3 DEF Recovery
<1>. QED  BY <1>3, <1>4, <1>5, <1>6

LEMMA InitType == Init => TypeOK /\ LogFits
<1>. SUFFICES ASSUME Init  PROVE  TypeOK /\ LogFits
  OBVIOUS
<1>1. ident \in [Contract -> [party : Counterparty \cup {None}, version : Nat]]
  BY DEF Init, NoIdent
<1>2. run \in [Audit -> [is : {"none", "recorded", "ended", "died"},
                      used : SUBSET Contract, at : Time \cup {None},
                      by : Starter \cup {None}, encodes : BOOLEAN]]
  BY DEF Init, NoRun
<1>3. index \in [IndexKey -> [Time -> Audit \cup {None}]]
  BY DEF Init
<1>4. log \in [Type -> Seq(Item)]
  BY DEF Init
<1>5. recovery \in Recovery
  BY AuditsAssumption DEF Init, Idle, Recovery
<1>6. count \in [writes : 0..MaxWrites, outages : 0..Faults, crashes : 0..Faults,
                lost : 0..Faults, runs : 0..MaxRuns]
  BY AuditsAssumption DEF Init
<1>7. TypeOK
  BY <1>1, <1>2, <1>3, <1>4, <1>5, <1>6 DEF Init, TypeOK
<1>8. Written = 0 /\ count.writes = 0
  BY DEF Init, Written, Type
<1>. QED  BY <1>7, <1>8 DEF LogFits

(* What an index becomes when an audit is recorded.                        *)
LEMMA RecordType ==
  ASSUME TypeOK, NEW r \in Audit, NEW audit, audit.at \in Time, Record(r, audit)
  PROVE  /\ recorded' = recorded \cup {r}
         /\ index' \in [IndexKey -> [Time -> Audit \cup {None}]]
         /\ \A k \in IndexKey, t \in Time :
              index'[k][t] = IF k \in KeysOf(audit) /\ t = audit.at
                             THEN r ELSE index[k][t]
<1>1. index \in [IndexKey -> [Time -> Audit \cup {None}]]
  BY DEF TypeOK
<1>2. index' = [k \in IndexKey |->
        IF k \in KeysOf(audit) THEN [index[k] EXCEPT ![audit.at] = r] ELSE index[k]]
  BY DEF Record
<1>3. ASSUME NEW k \in IndexKey
      PROVE  /\ index'[k] \in [Time -> Audit \cup {None}]
             /\ \A t \in Time :
                  index'[k][t] = IF k \in KeysOf(audit) /\ t = audit.at
                                 THEN r ELSE index[k][t]
  <2>1. index[k] \in [Time -> Audit \cup {None}]
    BY <1>1
  <2>2. ASSUME k \in KeysOf(audit)  PROVE  index'[k] = [index[k] EXCEPT ![audit.at] = r]
    BY <1>2, <2>2
  <2>3. ASSUME k \notin KeysOf(audit)  PROVE  index'[k] = index[k]
    BY <1>2, <2>3
  <2>. QED  BY <2>1, <2>2, <2>3
<1>4. index' \in [IndexKey -> [Time -> Audit \cup {None}]]
  BY <1>2, <1>3
<1>. QED  BY <1>3, <1>4 DEF Record

-----------------------------------------------------------------------------
(* WHAT THE RECORDS ARE ABOUT                                              *)

LogKnown ==
  /\ \A n \in DOMAIN log["contract"] :
       log["contract"][n] \in Contract /\ ident[log["contract"][n]] # NoIdent
  /\ \A n \in DOMAIN log["audit"] :
       log["audit"][n] \in Audit /\ run[log["audit"][n]].is # "none"
  /\ \A n \in DOMAIN log["scenario"] : log["scenario"][n] \in 0..count.writes

TasksKnown ==
  \A t \in tasks :
    /\ t.type = "contract" => t.id \in Contract /\ ident[t.id] # NoIdent
    /\ t.type = "audit" => t.id \in Audit /\ run[t.id].is # "none"
    /\ t.type = "scenario" => t.id \in 0..count.writes

RunsKnown ==
  /\ IsFiniteSet(store) /\ \A c \in store : ident[c] # NoIdent
  /\ \A r \in Audit : run[r].is # "none" => run[r].at \in Time /\ run[r].by \in Starter

RowsKnown ==
  /\ \A c \in contractRow : ident[c] # NoIdent
  /\ \A r \in auditRow : run[r].is # "none"
  /\ IsFiniteSet(scenarioRow)
  /\ \A row \in scenarioRow : row[1] \in 1..count.writes

TodoKnown ==
  /\ recovery.op = "none" => recovery = Idle
  /\ recovery.op # "none" => /\ recovery.type \in Type
                             /\ recovery.todo \subseteq DOMAIN log[recovery.type]
  /\ recovery.op = "restore_ets" => recovery.type = "audit"
  /\ \A t \in Type : recovery.read[t] <= Len(log[t])
  /\ recovery.refused # 0 => recovery.refused \in DOMAIN log["audit"]

Known == LogKnown /\ TasksKnown /\ RunsKnown /\ RowsKnown /\ TodoKnown

(* No step changes what was stored, recorded or logged.                    *)
Keeps ==
  /\ \A t \in Type : Len(log'[t]) \in Nat /\ Len(log[t]) <= Len(log'[t])
  /\ \A t \in Type : \A n \in DOMAIN log[t] :
       n \in DOMAIN log'[t] /\ log'[t][n] = log[t][n]
  /\ odd \subseteq odd'
  /\ \A c \in Contract : ident[c] # NoIdent => ident'[c] = ident[c]
  /\ \A r \in Audit : run[r].is # "none" =>
       /\ run'[r].is # "none" /\ run'[r].used = run[r].used
       /\ run'[r].at = run[r].at /\ run'[r].by = run[r].by
       /\ run'[r].encodes = run[r].encodes
  /\ count'.writes \in Nat /\ count'.writes >= count.writes

-----------------------------------------------------------------------------
(* THE STEPS, SORTED BY WHAT THEY DO TO THE LOG AND THE RUNS               *)

(* A contract is written: when it is ingested, or its status changes.      *)
WritesContract(c) ==
  /\ Writes("contract", c)
  /\ store' \subseteq store \cup {c}
  /\ ident' \in [Contract -> [party : Counterparty \cup {None}, version : Nat]]
  /\ ident'[c] # NoIdent /\ \A d \in Contract : ident[d] # NoIdent => ident'[d] = ident[d]
  /\ UNCHANGED <<recorded, index, run, tables, recovery>>

(* A run is recorded, and goes on or dies.                                 *)
RecordsRun(r) ==
  /\ run[r].is = "none"
  /\ run' \in [Audit -> [is : {"none", "recorded", "ended", "died"},
                         used : SUBSET Contract, at : Time \cup {None},
                         by : Starter \cup {None}, encodes : BOOLEAN]]
  /\ run'[r].is # "none" /\ run'[r].at \in Time /\ run'[r].by \in Starter
  /\ \A q \in Audit \ {r} : run'[q] = run[q]
  /\ Record(r, run'[r])
  /\ count' \in Counters /\ count'.writes = count.writes /\ count'.outages = count.outages
  /\ UNCHANGED <<store, ident, log, odd, tasks, tables, recovery>>

(* A recorded run is written, and ends or dies.                            *)
EndsRun(r) ==
  /\ Writes("audit", r)
  /\ \E is \in {"ended", "died"} : Ends(r, is)

(* A scenario is written.                                                  *)
WritesScenario(s) ==
  /\ Writes("scenario", s) /\ s \in Saved
  /\ UNCHANGED <<memory, ident, run, tables, recovery>>

(* The others, but for a crash, leave the log and the records alone.       *)
Quiet ==
  \/ \E t \in tasks : RunTask(t) \/ FailTask(t)
  \/ \E op \in Operation : Begin(op)
  \/ \E n \in Position :
       ReplayContract(n) \/ ReplayAudit(n) \/ ReplayScenario(n) \/ Rerecord(n)
  \/ NextType \/ ReplayFails

LEMMA QuietStep ==
  ASSUME Quiet
  PROVE  UNCHANGED <<log, odd, ident, run, store>> /\ tasks' \subseteq tasks
<1>1. ASSUME NEW t \in tasks, RunTask(t) \/ FailTask(t)
      PROVE  UNCHANGED <<log, odd, ident, run, store>> /\ tasks' \subseteq tasks
  BY <1>1 DEF RunTask, FailTask, memory
<1>2. ASSUME NEW op \in Operation, Begin(op)
      PROVE  UNCHANGED <<log, odd, ident, run, store>> /\ tasks' \subseteq tasks
  BY <1>2 DEF Begin, memory
<1>3. ASSUME NEW n \in Position,
             ReplayContract(n) \/ ReplayAudit(n) \/ ReplayScenario(n) \/ Rerecord(n)
      PROVE  UNCHANGED <<log, odd, ident, run, store>> /\ tasks' \subseteq tasks
  BY <1>3 DEF ReplayContract, ReplayAudit, ReplayScenario, Rerecord, memory
<1>4. ASSUME NextType \/ ReplayFails
      PROVE  UNCHANGED <<log, odd, ident, run, store>> /\ tasks' \subseteq tasks
  BY <1>4 DEF NextType, ReplayFails, memory
<1>. QED  BY <1>1, <1>2, <1>3, <1>4 DEF Quiet

(* The ids that a write is about are things of the log and of tasks.       *)
LEMMA TaskItems ==
  ASSUME TypeOK, count.writes < MaxWrites
  PROVE  /\ \A c \in Contract : /\ c \in Item
                                /\ [type |-> "contract", id |-> c, n |-> count.writes + 1] \in Task
         /\ \A r \in Audit : /\ r \in Item
                             /\ [type |-> "audit", id |-> r, n |-> count.writes + 1] \in Task
         /\ \A s \in Saved : /\ s \in Item
                             /\ [type |-> "scenario", id |-> s, n |-> count.writes + 1] \in Task
         /\ "contract" \in Type /\ "audit" \in Type /\ "scenario" \in Type
<1>1. count.writes + 1 \in 1..MaxWrites
  BY CountersType, AuditsAssumption
<1>2. Saved \subseteq Scenario \cup {Nameless}
  BY <1>1 DEF Saved, Scenario
<1>. QED  BY <1>1, <1>2 DEF Item, Task, Type, Position

LEMMA IngestsNew ==
  ASSUME TypeOK, RunsKnown, NEW c \in Contract, NEW party \in Counterparty,
         NEW fits \in BOOLEAN, Ingests(c, party, fits)
  PROVE  /\ ident' \in [Contract -> [party : Counterparty \cup {None}, version : Nat]]
         /\ ident'[c] # NoIdent
         /\ \A d \in Contract : ident[d] # NoIdent => ident'[d] = ident[d]
<1>1. PICK v : v = 1 + Cardinality({d \in store : ident[d].party = party})
  OBVIOUS
<1>2. v \in Nat /\ v # 0
  <2>1. IsFiniteSet({d \in store : ident[d].party = party})
    BY FS_Subset DEF RunsKnown
  <2>. QED  BY <1>1, <2>1, FS_CardinalityType
<1>3. PICK e : e = [party |-> party, version |-> v]
  OBVIOUS
<1>4. e \in [party : Counterparty \cup {None}, version : Nat] /\ e # NoIdent
  BY <1>2, <1>3 DEF NoIdent
<1>5. ident' = [ident EXCEPT ![c] = e] /\ ident[c] = NoIdent
  BY <1>1, <1>3 DEF Ingests
<1>. QED  BY <1>4, <1>5 DEF TypeOK

LEMMA ContractIsWritten ==
  ASSUME TypeOK, RunsKnown, NEW c \in Contract, NEW fits \in BOOLEAN,
         \/ \E party \in Counterparty :
              IngestContract(c, party, fits) \/ IngestExits(c, party, fits)
         \/ ChangeStatus(c, fits) \/ StatusExits(c, fits)
  PROVE  WritesContract(c)
<1>1. Writes("contract", c)
  <2>1. Persist("contract", c, fits) \/ PersistExits("contract", c, fits)
    BY DEF IngestContract, IngestExits, ChangeStatus, StatusExits, StoreExits
  <2>2. count.writes < MaxWrites
    BY <2>1 DEF Persist, PersistExits
  <2>. QED  BY <2>1, <2>2, TaskItems DEF Writes
<1>2. store' \subseteq store \cup {c}
  BY DEF IngestContract, IngestExits, ChangeStatus, StatusExits, StoreExits, memory
<1>3. CASE \E party \in Counterparty :
              IngestContract(c, party, fits) \/ IngestExits(c, party, fits)
  <2>1. PICK party \in Counterparty : Ingests(c, party, fits)
    BY <1>3 DEF IngestContract, IngestExits
  <2>. QED  BY <1>1, <1>2, <2>1, IngestsNew DEF WritesContract, Ingests
<1>4. CASE ChangeStatus(c, fits) \/ StatusExits(c, fits)
  <2>1. c \in store /\ UNCHANGED <<recorded, index, ident, run, tables, recovery>>
    BY <1>4 DEF ChangeStatus, StatusExits, memory
  <2>2. ident[c] # NoIdent
    BY <2>1 DEF RunsKnown
  <2>. QED  BY <1>1, <1>2, <2>1, <2>2 DEF WritesContract, TypeOK
<1>. QED  BY <1>3, <1>4

LEMMA RunIsRecorded ==
  ASSUME TypeOK, NEW r \in Audit, NEW by \in Starter,
         RecordAudit(r, by) \/ RecordExits(r, by)
  PROVE  RecordsRun(r)
<1>. DEFINE R == [is : {"none", "recorded", "ended", "died"}, used : SUBSET Contract,
                  at : Time \cup {None}, by : Starter \cup {None}, encodes : BOOLEAN]
<1>1. PICK is \in {"recorded", "died"} : Audits(r, by, is) /\ Record(r, run'[r])
  BY DEF RecordAudit, RecordExits
<1>2. PICK C \in ActiveSets, t \in Time, encodes \in BOOLEAN :
        run' = [run EXCEPT ![r] =
                  [is |-> is, used |-> C, at |-> t, by |-> by, encodes |-> encodes]]
  BY <1>1 DEF Audits
<1>3. PICK a : a = [is |-> is, used |-> C, at |-> t, by |-> by, encodes |-> encodes]
  OBVIOUS
<1>4. C \subseteq Contract
  BY DEF ActiveSets, TypeOK
<1>5. a \in R /\ a.is # "none" /\ a.at \in Time /\ a.by \in Starter
  BY <1>3, <1>4
<1>6. run \in [Audit -> R] /\ run' = [run EXCEPT ![r] = a]
  BY <1>2, <1>3 DEF TypeOK
<1>7. run' \in [Audit -> R] /\ run'[r] = a /\ \A q \in Audit \ {r} : run'[q] = run[q]
  BY <1>5, <1>6
<1>8. count' \in Counters /\ count'.writes = count.writes /\ count'.outages = count.outages
  <2>1. CASE count' = count
    BY <2>1, CountersType
  <2>2. CASE Faulty /\ count' = [count EXCEPT !.lost = @ + 1]
    BY <2>2, CountersType DEF Counters
  <2>. QED  BY <2>1, <2>2 DEF RecordAudit, RecordExits
<1>. QED  BY <1>1, <1>5, <1>7, <1>8 DEF RecordsRun, Audits

LEMMA RunIsWritten ==
  ASSUME TypeOK, NEW r \in Audit, PersistAudit(r) \/ PersistAuditExits(r)
  PROVE  EndsRun(r)
<1>1. Persist("audit", r, TRUE) \/ PersistExits("audit", r, TRUE)
  BY DEF PersistAudit, PersistAuditExits
<1>2. count.writes < MaxWrites
  BY <1>1 DEF Persist, PersistExits
<1>. QED  BY <1>1, <1>2, TaskItems DEF PersistAudit, PersistAuditExits, EndsRun, Writes

LEMMA ScenarioIsWritten ==
  ASSUME TypeOK, NEW s \in Saved, SaveScenario(s) \/ SaveExits(s)
  PROVE  WritesScenario(s)
<1>1. Persist("scenario", s, TRUE) \/ PersistExits("scenario", s, TRUE)
  BY DEF SaveScenario, SaveExits
<1>2. count.writes < MaxWrites
  BY <1>1 DEF Persist, PersistExits
<1>. QED  BY <1>1, <1>2, TaskItems DEF SaveScenario, SaveExits, WritesScenario, Writes

LEMMA StepsSorted ==
  ASSUME TypeOK, RunsKnown, Next
  PROVE  \/ Quiet
         \/ NodeCrash
         \/ \E c \in Contract : WritesContract(c)
         \/ \E r \in Audit : RecordsRun(r)
         \/ \E r \in Audit : EndsRun(r)
         \/ \E s \in Saved : WritesScenario(s)
<1>1. CASE \E c \in Contract, fits \in BOOLEAN :
             \/ \E party \in Counterparty :
                  IngestContract(c, party, fits) \/ IngestExits(c, party, fits)
             \/ ChangeStatus(c, fits) \/ StatusExits(c, fits)
  BY <1>1, ContractIsWritten
<1>2. CASE \E r \in Audit, by \in Starter : RecordAudit(r, by) \/ RecordExits(r, by)
  BY <1>2, RunIsRecorded
<1>3. CASE \E r \in Audit : PersistAudit(r) \/ PersistAuditExits(r)
  BY <1>3, RunIsWritten
<1>4. CASE \E s \in Saved : SaveScenario(s) \/ SaveExits(s)
  BY <1>4, ScenarioIsWritten
<1>. QED  BY <1>1, <1>2, <1>3, <1>4 DEF Next, Quiet

(* What an end leaves of a run.                                            *)
LEMMA EndsSame ==
  ASSUME TypeOK, NEW r \in Audit, EndsRun(r)
  PROVE  /\ run' \in [Audit -> [is : {"none", "recorded", "ended", "died"},
                                used : SUBSET Contract, at : Time \cup {None},
                                by : Starter \cup {None}, encodes : BOOLEAN]]
         /\ run[r].is # "none"
         /\ \A q \in Audit : /\ run'[q].is = "none" <=> run[q].is = "none"
                             /\ run'[q].used = run[q].used /\ run'[q].at = run[q].at
                             /\ run'[q].by = run[q].by /\ run'[q].encodes = run[q].encodes
<1>1. PICK is \in {"ended", "died"} :
        run' = [run EXCEPT ![r].is = is] /\ run[r].is = "recorded"
  BY DEF EndsRun, Ends
<1>. QED  BY <1>1 DEF TypeOK

LEMMA CrashSame ==
  ASSUME TypeOK, NodeCrash
  PROVE  /\ run' \in [Audit -> [is : {"none", "recorded", "ended", "died"},
                                used : SUBSET Contract, at : Time \cup {None},
                                by : Starter \cup {None}, encodes : BOOLEAN]]
         /\ \A q \in Audit : /\ run'[q].is = "none" <=> run[q].is = "none"
                             /\ run'[q].used = run[q].used /\ run'[q].at = run[q].at
                             /\ run'[q].by = run[q].by /\ run'[q].encodes = run[q].encodes
<1>. DEFINE R == [is : {"none", "recorded", "ended", "died"}, used : SUBSET Contract,
                  at : Time \cup {None}, by : Starter \cup {None}, encodes : BOOLEAN]
<1>1. run' = [r \in Audit |-> IF run[r].is = "recorded"
                               THEN [run[r] EXCEPT !.is = "died"] ELSE run[r]]
  BY DEF NodeCrash
<1>2. \A r \in Audit : run[r] \in R
  BY DEF TypeOK
<1>3. \A r \in Audit : /\ [run[r] EXCEPT !.is = "died"] \in R
                       /\ [run[r] EXCEPT !.is = "died"].is = "died"
                       /\ [run[r] EXCEPT !.is = "died"].used = run[r].used
                       /\ [run[r] EXCEPT !.is = "died"].at = run[r].at
                       /\ [run[r] EXCEPT !.is = "died"].by = run[r].by
                       /\ [run[r] EXCEPT !.is = "died"].encodes = run[r].encodes
  BY <1>2
<1>. QED  BY <1>1, <1>2, <1>3

(* What the counters become.                                               *)
LEMMA CountType ==
  ASSUME TypeOK, LogFits, RunsKnown, Next
  PROVE  /\ count' \in Counters /\ count'.outages >= count.outages
         /\ count'.writes >= count.writes
         /\ (\E t \in tasks : FailTask(t)) \/ ReplayFails => count'.outages # 0
<1>0. /\ count \in Counters /\ count.writes \in Nat /\ count.outages \in Nat
      /\ count.runs \in 0..MaxRuns
      /\ Faulty => /\ count.outages + 1 \in 0..Faults /\ count.crashes + 1 \in 0..Faults
  BY CountersType
<1>1. ASSUME UNCHANGED count
      PROVE  /\ count' \in Counters /\ count'.outages >= count.outages
             /\ count'.writes >= count.writes
  BY <1>0, <1>1
<1>2. ASSUME count' \in Counters, count'.writes \in {count.writes, count.writes + 1},
             count'.outages = count.outages
      PROVE  /\ count' \in Counters /\ count'.outages >= count.outages
             /\ count'.writes >= count.writes
  BY <1>0, <1>2
<1>3. ASSUME Faulty, count' = [count EXCEPT !.outages = @ + 1]
      PROVE  /\ count' \in Counters /\ count'.outages >= count.outages
             /\ count'.writes >= count.writes /\ count'.outages # 0
  <2>1. /\ count' \in Counters /\ count'.outages = count.outages + 1
        /\ count'.writes = count.writes
    BY <1>0, <1>3 DEF Counters
  <2>. QED  BY <1>0, <2>1
<1>4. ASSUME Faulty, count' = [count EXCEPT !.crashes = @ + 1]
      PROVE  count' \in Counters /\ count'.outages = count.outages /\ count'.writes = count.writes
  BY <1>0, <1>4 DEF Counters
<1>5. ASSUME count.runs < MaxRuns, count' = [count EXCEPT !.runs = @ + 1]
      PROVE  count' \in Counters /\ count'.outages = count.outages /\ count'.writes = count.writes
  <2>1. count.runs + 1 \in 0..MaxRuns
    BY <1>0, <1>5, AuditsAssumption
  <2>. QED  BY <1>0, <1>5, <2>1 DEF Counters
<1>6. ASSUME NodeCrash
      PROVE  count' \in Counters /\ count'.outages = count.outages /\ count'.writes = count.writes
  BY <1>4, <1>6 DEF NodeCrash
<1>7. ASSUME NEW op \in Operation, Begin(op)
      PROVE  count' \in Counters /\ count'.outages = count.outages /\ count'.writes = count.writes
  BY <1>5, <1>7 DEF Begin
<1>8. ASSUME ReplayFails \/ \E t \in tasks : FailTask(t)
      PROVE  /\ count' \in Counters /\ count'.outages >= count.outages
             /\ count'.writes >= count.writes /\ count'.outages # 0
  BY <1>3, <1>8 DEF ReplayFails, FailTask
<1>9. ASSUME \/ \E t \in tasks : RunTask(t)
             \/ \E n \in Position : \/ ReplayContract(n) \/ ReplayAudit(n)
                                    \/ ReplayScenario(n) \/ Rerecord(n)
             \/ NextType
      PROVE  UNCHANGED count
  BY <1>9 DEF RunTask, ReplayContract, ReplayAudit, ReplayScenario, Rerecord, NextType
<1>10. ASSUME NEW type, NEW id, Writes(type, id)
       PROVE  /\ count' \in Counters /\ count'.writes = count.writes + 1
              /\ count'.outages = count.outages
  BY <1>10, WritesOnce
<1>11. ASSUME NEW r \in Audit, RecordsRun(r)
       PROVE  count' \in Counters /\ count'.outages = count.outages /\ count'.writes = count.writes
  BY <1>11 DEF RecordsRun
<1>12. ASSUME Quiet
       PROVE  /\ count' \in Counters /\ count'.outages >= count.outages
              /\ count'.writes >= count.writes
  BY <1>1, <1>2, <1>7, <1>8, <1>9, <1>12 DEF Quiet
<1>13. ASSUME ~Quiet
       PROVE  ~ReplayFails /\ ~\E t \in tasks : FailTask(t)
  BY <1>13 DEF Quiet
<1>14. ASSUME ~Quiet
       PROVE  /\ count' \in Counters /\ count'.outages >= count.outages
              /\ count'.writes >= count.writes
  BY <1>2, <1>6, <1>10, <1>11, <1>14, StepsSorted DEF WritesContract, EndsRun, WritesScenario
<1>15. ASSUME Quiet
       PROVE  (\E t \in tasks : FailTask(t)) \/ ReplayFails => count'.outages # 0
  BY <1>8
<1>. QED  BY <1>12, <1>13, <1>14, <1>15

LEMMA NextKeeps ==
  ASSUME TypeOK, LogFits, RunsKnown, Next
  PROVE  Keeps
<1>0. /\ count'.writes \in Nat /\ count'.writes >= count.writes
  BY CountType, AuditsAssumption DEF Counters
<1>1. ASSUME UNCHANGED <<log, odd>>
      PROVE  /\ \A t \in Type : Len(log'[t]) \in Nat /\ Len(log[t]) <= Len(log'[t])
             /\ \A t \in Type : \A n \in DOMAIN log[t] :
                  n \in DOMAIN log'[t] /\ log'[t][n] = log[t][n]
             /\ odd \subseteq odd'
  BY <1>1, LogLength
<1>2. CASE Quiet
  BY <1>0, <1>1, <1>2, QuietStep DEF Keeps
<1>3. CASE NodeCrash
  BY <1>0, <1>1, <1>3, CrashSame DEF NodeCrash, Keeps
<1>4. ASSUME NEW r \in Audit, RecordsRun(r)  PROVE  Keeps
  BY <1>0, <1>1, <1>4 DEF RecordsRun, Keeps
<1>5. ASSUME NEW c \in Contract, WritesContract(c)  PROVE  Keeps
  BY <1>0, <1>5, WritesOnce, WritesKeep DEF WritesContract, Keeps
<1>6. ASSUME NEW r \in Audit, EndsRun(r)  PROVE  Keeps
  <2>1. ident' = ident
    BY <1>6 DEF EndsRun, Ends
  <2>2. Writes("audit", r)
    BY <1>6 DEF EndsRun
  <2>. QED  BY <1>0, <1>6, <2>1, <2>2, EndsSame, WritesOnce, WritesKeep DEF Keeps
<1>7. ASSUME NEW s \in Saved, WritesScenario(s)  PROVE  Keeps
  BY <1>0, <1>7, WritesOnce, WritesKeep DEF WritesScenario, Keeps
<1>. QED  BY <1>2, <1>3, <1>4, <1>5, <1>6, <1>7, StepsSorted

(* What is new in the log is what the write is about.                      *)
LEMMA LogStaysKnown ==
  ASSUME TypeOK, LogFits, RunsKnown, LogKnown, Next
  PROVE  LogKnown'
<1>0. /\ Keeps /\ "contract" \in Type /\ "audit" \in Type /\ "scenario" \in Type
      /\ count.writes \in Nat
  BY NextKeeps, CountersType DEF Type
<1>1. /\ \A n \in DOMAIN log["contract"] :
            log["contract"][n] \in Contract /\ ident'[log["contract"][n]] # NoIdent
      /\ \A n \in DOMAIN log["audit"] :
            log["audit"][n] \in Audit /\ run'[log["audit"][n]].is # "none"
      /\ \A n \in DOMAIN log["scenario"] : log["scenario"][n] \in 0..count'.writes
  BY <1>0 DEF LogKnown, Keeps
<1>2. CASE UNCHANGED log
  BY <1>1, <1>2 DEF LogKnown
<1>3. ASSUME NEW type, NEW id, Writes(type, id),
             type = "contract" => id \in Contract /\ ident'[id] # NoIdent,
             type = "audit" => id \in Audit /\ run'[id].is # "none",
             type = "scenario" => id \in 0..count'.writes
      PROVE  LogKnown'
  <2>1. \A t \in Type : \A n \in DOMAIN log'[t] :
          n \in DOMAIN log[t] \/ (t = type /\ log'[t][n] = id)
    BY <1>3, WritesKeep
  <2>2. \A t \in Type : \A n \in DOMAIN log[t] : log'[t][n] = log[t][n]
    BY <1>3, WritesKeep
  <2>. QED  BY <1>0, <1>1, <1>3, <2>1, <2>2 DEF LogKnown
<1>4. CASE Quiet
  BY <1>2, <1>4, QuietStep
<1>5. CASE NodeCrash
  BY <1>2, <1>5 DEF NodeCrash
<1>6. ASSUME NEW r \in Audit, RecordsRun(r)  PROVE  LogKnown'
  BY <1>2, <1>6 DEF RecordsRun
<1>7. ASSUME NEW c \in Contract, WritesContract(c)  PROVE  LogKnown'
  BY <1>3, <1>7 DEF WritesContract
<1>8. ASSUME NEW r \in Audit, EndsRun(r)  PROVE  LogKnown'
  <2>1. run'[r].is # "none"
    BY <1>8, EndsSame
  <2>. QED  BY <1>3, <1>8, <2>1 DEF EndsRun
<1>9. ASSUME NEW s \in Saved, WritesScenario(s)  PROVE  LogKnown'
  <2>1. Writes("scenario", s) /\ count'.writes = count.writes + 1
    BY <1>9, WritesOnce DEF WritesScenario
  <2>2. s \in 0..count'.writes
    BY <1>0, <2>1 DEF Saved, Nameless
  <2>. QED  BY <1>3, <2>1, <2>2
<1>. QED  BY <1>4, <1>5, <1>6, <1>7, <1>8, <1>9, StepsSorted

-----------------------------------------------------------------------------
(* WHAT THE STEPS DO TO THE TABLES                                         *)

StoresAudit(r) ==
  /\ run[r].is # "none" /\ run[r].used \subseteq contractRow
  /\ auditRow' = auditRow \cup {r}
  /\ link' = link \cup ({r} \X run[r].used)
  /\ UNCHANGED <<contractRow, scenarioRow>>

TableStep ==
  \/ UNCHANGED tables
  \/ \E c \in Contract : ident[c] # NoIdent /\ UpsertContract(c)
  \/ \E r \in Audit : StoresAudit(r)
  \/ \E s \in 0..count.writes : InsertScenario(s)

(* An entry to be replayed is about something that was written.            *)
LEMMA TodoIsKnown ==
  ASSUME TypeOK, LogKnown, TodoKnown, NEW n \in recovery.todo, recovery.op # "none"
  PROVE  /\ recovery.type = "contract" =>
              /\ n \in DOMAIN log["contract"] /\ log["contract"][n] \in Contract
              /\ ident[log["contract"][n]] # NoIdent
         /\ recovery.type = "audit" =>
              /\ n \in DOMAIN log["audit"] /\ log["audit"][n] \in Audit
              /\ run[log["audit"][n]].is # "none"
         /\ recovery.type = "scenario" =>
              n \in DOMAIN log["scenario"] /\ log["scenario"][n] \in 0..count.writes
BY DEF TodoKnown, LogKnown

LEMMA NextIsTableStep ==
  ASSUME TypeOK, LogKnown, TasksKnown, RunsKnown, TodoKnown, Next
  PROVE  TableStep
<1>1. ASSUME NEW t \in tasks, RunTask(t)  PROVE  TableStep
  <2>1. /\ t.type = "contract" => t.id \in Contract /\ ident[t.id] # NoIdent
        /\ t.type = "audit" => t.id \in Audit /\ run[t.id].is # "none"
        /\ t.type = "scenario" => t.id \in 0..count.writes
    BY DEF TasksKnown
  <2>2. CASE t.type = "contract" /\ UpsertContract(t.id)
    BY <2>1, <2>2 DEF TableStep
  <2>3. CASE t.type = "audit" /\ InsertAudit(t.id)
    <3>1. UNCHANGED tables \/ StoresAudit(t.id)
      BY <2>1, <2>3 DEF InsertAudit, StoresAudit, tables
    <3>. QED  BY <2>1, <2>3, <3>1 DEF TableStep
  <2>4. CASE t.type = "scenario" /\ InsertScenario(t.id)
    BY <2>1, <2>4 DEF TableStep
  <2>. QED  BY <1>1, <2>2, <2>3, <2>4 DEF RunTask
<1>2. ASSUME NEW n \in Position, ReplayContract(n)  PROVE  TableStep
  <2>1. /\ recovery.op # "none" /\ recovery.type = "contract" /\ n \in recovery.todo
        /\ UNCHANGED tables \/ UpsertContract(log["contract"][n])
    BY <1>2 DEF ReplayContract, Replaying, IsNext, UpsertContract, tables
  <2>. QED  BY <2>1, TodoIsKnown DEF TableStep
<1>3. ASSUME NEW n \in Position, ReplayAudit(n)  PROVE  TableStep
  <2>1. recovery.op # "none" /\ recovery.type = "audit" /\ n \in recovery.todo
    BY <1>3 DEF ReplayAudit, Replaying, IsNext
  <2>2. log["audit"][n] \in Audit /\ run[log["audit"][n]].is # "none"
    BY <2>1, TodoIsKnown
  <2>3. UNCHANGED tables \/ StoresAudit(log["audit"][n])
    BY <1>3, <2>2 DEF ReplayAudit, StoresAudit, tables
  <2>. QED  BY <2>2, <2>3 DEF TableStep
<1>4. ASSUME NEW n \in Position, ReplayScenario(n)  PROVE  TableStep
  <2>1. /\ recovery.op # "none" /\ recovery.type = "scenario" /\ n \in recovery.todo
        /\ InsertScenario(log["scenario"][n])
    BY <1>4 DEF ReplayScenario, Replaying, IsNext
  <2>. QED  BY <2>1, TodoIsKnown DEF TableStep
<1>5. ASSUME \/ \E t \in tasks : FailTask(t)
             \/ \E op \in Operation : Begin(op)
             \/ \E n \in Position : Rerecord(n)
             \/ NextType \/ ReplayFails \/ NodeCrash
      PROVE  TableStep
  BY <1>5 DEF FailTask, Begin, Rerecord, NextType, ReplayFails, NodeCrash, TableStep
<1>6. ASSUME \/ \E c \in Contract : WritesContract(c)
             \/ \E r \in Audit : RecordsRun(r)
             \/ \E r \in Audit : EndsRun(r)
             \/ \E s \in Saved : WritesScenario(s)
      PROVE  TableStep
  BY <1>6 DEF WritesContract, RecordsRun, EndsRun, Ends, WritesScenario, TableStep
<1>. QED  BY <1>1, <1>2, <1>3, <1>4, <1>5, <1>6, StepsSorted DEF Quiet

(* Rows stay, and are about what is known.                                 *)
LEMMA RowsStayKnown ==
  ASSUME TypeOK, RowsKnown, Keeps, TableStep
  PROVE  /\ RowsKnown'
         /\ contractRow' \subseteq Contract /\ auditRow' \subseteq Audit
         /\ link' \subseteq Audit \X Contract
         /\ scenarioRow' \subseteq Scenario \X (Nat \ {0})
         /\ contractRow \subseteq contractRow' /\ auditRow \subseteq auditRow'
         /\ scenarioRow \subseteq scenarioRow'
<1>0. /\ contractRow \subseteq Contract /\ auditRow \subseteq Audit
      /\ link \subseteq Audit \X Contract
      /\ scenarioRow \subseteq Scenario \X (Nat \ {0})
      /\ \A r \in Audit : run[r].used \subseteq Contract
  BY DEF TypeOK
<1>1. 1..count.writes \subseteq 1..count'.writes /\ 1..count.writes \subseteq Scenario
  <2>1. PICK w \in 0..MaxWrites, v \in Nat : w = count.writes /\ v = count'.writes /\ v >= w
    BY CountersType DEF Keeps
  <2>. QED  BY <2>1, AuditsAssumption DEF Scenario
<1>2. CASE UNCHANGED tables
  BY <1>0, <1>1, <1>2 DEF tables, RowsKnown, Keeps
<1>3. ASSUME NEW c \in Contract, ident[c] # NoIdent, UpsertContract(c)
      PROVE  /\ contractRow \subseteq contractRow'
             /\ contractRow' \subseteq contractRow \cup {c}
             /\ UNCHANGED <<auditRow, link, scenarioRow>>
  BY <1>3 DEF UpsertContract
<1>4. CASE \E c \in Contract : ident[c] # NoIdent /\ UpsertContract(c)
  BY <1>0, <1>1, <1>3, <1>4 DEF RowsKnown, Keeps
<1>5. ASSUME NEW r \in Audit, StoresAudit(r)
      PROVE  /\ RowsKnown' /\ auditRow' \subseteq Audit /\ auditRow \subseteq auditRow'
             /\ link' \subseteq Audit \X Contract
             /\ UNCHANGED <<contractRow, scenarioRow>>
  BY <1>0, <1>1, <1>5 DEF StoresAudit, RowsKnown, Keeps
<1>6. ASSUME NEW s \in 0..count.writes, InsertScenario(s)
      PROVE  /\ RowsKnown'
             /\ scenarioRow' \subseteq Scenario \X (Nat \ {0})
             /\ scenarioRow \subseteq scenarioRow'
             /\ UNCHANGED <<contractRow, auditRow, link>>
  <2>1. CASE s = Nameless
    BY <1>0, <1>1, <1>6, <2>1 DEF InsertScenario, RowsKnown, Keeps
  <2>2. CASE s # Nameless
    <3>1. IsFiniteSet(Copies(s))
      BY FS_Subset DEF Copies, RowsKnown
    <3>2. PICK k \in Nat : k = Cardinality(Copies(s))
      BY <3>1, FS_CardinalityType
    <3>3. /\ scenarioRow' = scenarioRow \cup {<<s, k + 1>>}
          /\ UNCHANGED <<contractRow, auditRow, link>>
      BY <1>6, <2>2, <3>2 DEF InsertScenario
    <3>4. IsFiniteSet(scenarioRow')
      BY <3>3, FS_AddElement DEF RowsKnown
    <3>5. s \in 1..count.writes
      BY <2>2, CountersType DEF Nameless
    <3>6. scenarioRow' \subseteq Scenario \X (Nat \ {0})
      BY <1>0, <1>1, <3>2, <3>3, <3>5
    <3>7. \A row \in scenarioRow' : row[1] \in 1..count'.writes
      BY <1>1, <3>3, <3>5 DEF RowsKnown
    <3>8. /\ \A c \in contractRow' : ident'[c] # NoIdent
          /\ \A r \in auditRow' : run'[r].is # "none"
      BY <1>0, <3>3 DEF RowsKnown, Keeps
    <3>. QED  BY <3>3, <3>4, <3>6, <3>7, <3>8 DEF RowsKnown
  <2>. QED  BY <2>1, <2>2
<1>. QED  BY <1>0, <1>2, <1>4, <1>5, <1>6 DEF TableStep

(* A task is about what is written.                                        *)
LEMMA TasksStayKnown ==
  ASSUME TypeOK, LogFits, RunsKnown, TasksKnown, Next
  PROVE  TasksKnown' /\ tasks' \subseteq Task
<1>0. /\ Keeps /\ tasks \subseteq Task /\ count.writes \in Nat
      /\ 0..count.writes \subseteq 0..count'.writes
  <2>1. PICK w \in Nat, v \in Nat : w = count.writes /\ v = count'.writes /\ v >= w
    BY NextKeeps, CountersType DEF Keeps
  <2>. QED  BY <2>1, NextKeeps DEF TypeOK
<1>1. \A t \in tasks :
        /\ t.type = "contract" => t.id \in Contract /\ ident'[t.id] # NoIdent
        /\ t.type = "audit" => t.id \in Audit /\ run'[t.id].is # "none"
        /\ t.type = "scenario" => t.id \in 0..count'.writes
  BY <1>0 DEF TasksKnown, Keeps
<1>2. CASE tasks' \subseteq tasks
  BY <1>0, <1>1, <1>2 DEF TasksKnown
<1>3. ASSUME NEW type, NEW id, Writes(type, id),
             type = "contract" => id \in Contract /\ ident'[id] # NoIdent,
             type = "audit" => id \in Audit /\ run'[id].is # "none",
             type = "scenario" => id \in 0..count'.writes
      PROVE  TasksKnown' /\ tasks' \subseteq Task
  <2>1. PICK new : new = [type |-> type, id |-> id, n |-> count.writes + 1]
    OBVIOUS
  <2>2. tasks' \subseteq tasks \cup {new} /\ tasks' \subseteq Task
    BY <1>3, <2>1, WritesOnce
  <2>3. new.type = type /\ new.id = id
    BY <2>1
  <2>. QED  BY <1>1, <1>3, <2>2, <2>3 DEF TasksKnown
<1>4. CASE Quiet
  BY <1>2, <1>4, QuietStep
<1>5. CASE NodeCrash \/ \E r \in Audit : RecordsRun(r)
  BY <1>2, <1>5 DEF NodeCrash, RecordsRun
<1>6. ASSUME NEW c \in Contract, WritesContract(c)  PROVE  TasksKnown' /\ tasks' \subseteq Task
  BY <1>3, <1>6 DEF WritesContract
<1>7. ASSUME NEW r \in Audit, EndsRun(r)  PROVE  TasksKnown' /\ tasks' \subseteq Task
  <2>1. run'[r].is # "none"
    BY <1>7, EndsSame
  <2>. QED  BY <1>3, <1>7, <2>1 DEF EndsRun
<1>8. ASSUME NEW s \in Saved, WritesScenario(s)  PROVE  TasksKnown' /\ tasks' \subseteq Task
  <2>1. Writes("scenario", s) /\ count'.writes = count.writes + 1
    BY <1>8, WritesOnce DEF WritesScenario
  <2>2. s \in 0..count'.writes
    BY <1>0, <2>1 DEF Saved, Nameless
  <2>. QED  BY <1>3, <2>1, <2>2
<1>. QED  BY <1>4, <1>5, <1>6, <1>7, <1>8, StepsSorted

LEMMA RunsStayKnown ==
  ASSUME TypeOK, LogFits, RunsKnown, Next
  PROVE  RunsKnown'
<1>0. Keeps /\ store \subseteq Contract
  BY NextKeeps DEF TypeOK
<1>1. \A c \in store : ident'[c] # NoIdent
  BY <1>0 DEF RunsKnown, Keeps
<1>2. ASSUME UNCHANGED <<run, store>>  PROVE  RunsKnown'
  BY <1>1, <1>2 DEF RunsKnown
<1>3. CASE Quiet
  BY <1>2, <1>3, QuietStep
<1>4. CASE NodeCrash
  <2>1. IsFiniteSet(store') /\ store' = {}
    BY <1>4, FS_EmptySet DEF NodeCrash
  <2>. QED  BY <1>4, <2>1, CrashSame DEF RunsKnown
<1>5. ASSUME NEW r \in Audit, RecordsRun(r)  PROVE  RunsKnown'
  <2>1. /\ store' = store /\ run'[r].at \in Time /\ run'[r].by \in Starter
        /\ \A q \in Audit \ {r} : run'[q] = run[q]
    BY <1>5 DEF RecordsRun
  <2>. QED  BY <1>1, <2>1 DEF RunsKnown
<1>6. ASSUME NEW c \in Contract, WritesContract(c)  PROVE  RunsKnown'
  <2>1. store' \subseteq store \cup {c} /\ run' = run /\ ident'[c] # NoIdent
    BY <1>6 DEF WritesContract
  <2>2. IsFiniteSet(store \cup {c})
    BY FS_AddElement DEF RunsKnown
  <2>3. IsFiniteSet(store')
    BY <2>1, <2>2, FS_Subset
  <2>. QED  BY <1>1, <2>1, <2>3 DEF RunsKnown
<1>7. ASSUME NEW r \in Audit, EndsRun(r)  PROVE  RunsKnown'
  <2>1. store' = store
    BY <1>7 DEF EndsRun, Ends, memory
  <2>. QED  BY <1>1, <1>7, <2>1, EndsSame DEF RunsKnown
<1>8. ASSUME NEW s \in Saved, WritesScenario(s)  PROVE  RunsKnown'
  BY <1>2, <1>8 DEF WritesScenario, memory
<1>. QED  BY <1>3, <1>4, <1>5, <1>6, <1>7, <1>8, StepsSorted

-----------------------------------------------------------------------------
(* WHAT IS UNDER WAY                                                       *)

(* What Turn sets the recovery to.                                         *)
LEMMA TurnKnown ==
  ASSUME TypeOK, NEW op, NEW type \in Type, NEW todo, Turn(op, type, todo)
  PROVE  /\ recovery'.op = op /\ recovery'.type = type /\ recovery'.todo = todo
         /\ recovery'.refused = recovery.refused
         /\ recovery'.read[type] = Len(log[type])
         /\ \A t \in Type \ {type} : recovery'.read[t] = recovery.read[t]
<1>1. recovery.read \in [Type -> 0..MaxWrites]
  BY DEF TypeOK, Recovery
<1>. QED  BY <1>1 DEF Turn

(* What the steps of a replay leave of the recovery.                       *)
LEMMA RestKnown ==
  ASSUME TypeOK, NEW n
  PROVE  /\ Rest(n).op = recovery.op /\ Rest(n).type = recovery.type
         /\ Rest(n).read = recovery.read /\ Rest(n).refused = recovery.refused
         /\ Rest(n).todo = recovery.todo \ {n}
         /\ Raised.op = recovery.op /\ Raised.type = recovery.type
         /\ Raised.read = recovery.read /\ Raised.refused = recovery.refused
         /\ Raised.todo = {}
         /\ [Raised EXCEPT !.refused = n].op = recovery.op
         /\ [Raised EXCEPT !.refused = n].type = recovery.type
         /\ [Raised EXCEPT !.refused = n].read = recovery.read
         /\ [Raised EXCEPT !.refused = n].refused = n
         /\ [Raised EXCEPT !.refused = n].todo = {}
<1>1. recovery \in Recovery
  BY DEF TypeOK
<1>. QED  BY <1>1 DEF Recovery, Rest, Raised

(* A recovery goes on to a type, goes through it, or ends.                 *)
RecoveryStep ==
  \/ UNCHANGED recovery
  \/ recovery' = Idle
  \/ \E op \in Operation, type \in Type, todo \in SUBSET Position :
       /\ Turn(op, type, todo) /\ todo \subseteq DOMAIN log[type]
       /\ op = "restore_ets" => type = "audit"
  \/ recovery.op # "none" /\ recovery' = Raised
  \/ \E n \in Position :
       /\ recovery.op # "none"
       /\ \/ recovery' = Rest(n)
          \/ /\ recovery' = [Raised EXCEPT !.refused = n]
             /\ recovery.type = "audit" /\ n \in recovery.todo

LEMMA NextIsRecoveryStep ==
  ASSUME TypeOK, LogFits, RunsKnown, TodoKnown, Next
  PROVE  RecoveryStep
<1>0. /\ recovery \in Recovery
      /\ "contract" \in Type /\ "audit" \in Type /\ "scenario" \in Type
  BY DEF TypeOK, Type
<1>1. ASSUME NEW op \in Operation, NEW type \in Type, NEW todo, Turn(op, type, todo),
             todo \subseteq DOMAIN log[type], op = "restore_ets" => type = "audit"
      PROVE  RecoveryStep
  <2>1. todo \in SUBSET Position
    BY <1>1, Positions
  <2>. QED  BY <1>1, <2>1 DEF RecoveryStep
<1>2. ASSUME NEW op \in Operation, NEW type \in Type, Turn(op, type, ToReplay(op, type)),
             op = "restore_ets" => type = "audit"
      PROVE  RecoveryStep
  BY <1>1, <1>2, ToReplayLogged
<1>3. ASSUME NEW op \in Operation, Begin(op)  PROVE  RecoveryStep
  BY <1>0, <1>2, <1>3 DEF Begin
<1>4. CASE NextType
  <2>1. recovery.op \in Operation
    BY <1>0, <1>4 DEF NextType, Recovery
  <2>2. CASE recovery' = Idle
    BY <2>2 DEF RecoveryStep
  <2>3. CASE /\ recovery.op # "restore_ets"
             /\ Turn(recovery.op, NextOf(recovery.type),
                     ToReplay(recovery.op, NextOf(recovery.type)))
    <3>1. NextOf(recovery.type) \in Type
      BY <1>0 DEF NextOf
    <3>. QED  BY <1>2, <2>1, <2>3, <3>1
  <2>. QED  BY <1>4, <2>2, <2>3 DEF NextType
<1>5. CASE ReplayFails
  <2>1. CASE recovery' = Idle
    BY <2>1 DEF RecoveryStep
  <2>2. CASE (\E type \in Type : Replaying(type)) /\ recovery' = Raised
    BY <2>2 DEF RecoveryStep, Replaying
  <2>3. CASE Turn("fill_gaps", "scenario", DOMAIN log["scenario"])
    BY <1>0, <1>1, <2>3 DEF Operation
  <2>. QED  BY <1>5, <2>1, <2>2, <2>3 DEF ReplayFails
<1>6. ASSUME NEW n \in Position, ReplayContract(n)  PROVE  RecoveryStep
  <2>1. recovery.op # "none" /\ (recovery' = Raised \/ recovery' = Rest(n))
    BY <1>6 DEF ReplayContract, Replaying
  <2>. QED  BY <2>1 DEF RecoveryStep
<1>7. ASSUME NEW n \in Position, ReplayAudit(n)  PROVE  RecoveryStep
  <2>1. /\ recovery.op # "none" /\ recovery.type = "audit" /\ n \in recovery.todo
        /\ recovery' = Rest(n) \/ recovery' = [Raised EXCEPT !.refused = n]
    BY <1>7 DEF ReplayAudit, Replaying, IsNext
  <2>. QED  BY <2>1 DEF RecoveryStep
<1>8. ASSUME NEW n \in Position, ReplayScenario(n) \/ Rerecord(n)  PROVE  RecoveryStep
  <2>1. recovery.op # "none" /\ recovery' = Rest(n)
    BY <1>8 DEF ReplayScenario, Rerecord, Replaying
  <2>. QED  BY <2>1 DEF RecoveryStep
<1>9. ASSUME NEW t \in tasks, RunTask(t) \/ FailTask(t)  PROVE  RecoveryStep
  BY <1>9 DEF RunTask, FailTask, RecoveryStep
<1>10. CASE NodeCrash
  BY <1>10 DEF NodeCrash, RecoveryStep
<1>11. ASSUME \/ \E c \in Contract : WritesContract(c)
              \/ \E r \in Audit : RecordsRun(r)
              \/ \E r \in Audit : EndsRun(r)
              \/ \E s \in Saved : WritesScenario(s)
       PROVE  RecoveryStep
  BY <1>11 DEF WritesContract, RecordsRun, EndsRun, Ends, WritesScenario, RecoveryStep
<1>. QED  BY <1>3, <1>4, <1>5, <1>6, <1>7, <1>8, <1>9, <1>10, <1>11, StepsSorted DEF Quiet

LEMMA RecoveryType ==
  ASSUME TypeOK, LogFits, RecoveryStep
  PROVE  recovery' \in Recovery
<1>1. CASE UNCHANGED recovery
  BY <1>1 DEF TypeOK
<1>2. ASSUME NEW op \in Operation, NEW type \in Type, NEW todo \in SUBSET Position,
             Turn(op, type, todo), todo \subseteq DOMAIN log[type]
      PROVE  recovery' \in Recovery
  BY <1>2, TurnType
<1>. QED  BY <1>1, <1>2, TodoShrinks DEF RecoveryStep

LEMMA TodoStaysKnown ==
  ASSUME TypeOK, TodoKnown, Keeps, RecoveryStep
  PROVE  TodoKnown'
<1>0. /\ recovery \in Recovery /\ \A t \in Type : recovery.read[t] \in Nat
      /\ \A t \in Type : Len(log[t]) \in Nat
  BY LogLength DEF TypeOK, Recovery
<1>1. PICK new : new = recovery'
  OBVIOUS
<1>2. \A t \in Type : DOMAIN log[t] \subseteq DOMAIN log'[t]
  BY DEF Keeps
<1>3. \A t \in Type, m \in Nat : m <= Len(log[t]) => m <= Len(log'[t])
  BY <1>0 DEF Keeps
<1>4. ASSUME new.op # "none" => /\ new.type \in Type
                                /\ new.todo \subseteq DOMAIN log[new.type],
             new.op = "none" => new = Idle,
             new.op = "restore_ets" => new.type = "audit",
             \A t \in Type : new.read[t] \in Nat /\ new.read[t] <= Len(log[t]),
             new.refused # 0 => new.refused \in DOMAIN log["audit"]
      PROVE  TodoKnown'
  <2>1. "audit" \in Type
    BY DEF Type
  <2>. QED  BY <1>1, <1>2, <1>3, <1>4, <2>1 DEF TodoKnown
<1>5. CASE UNCHANGED recovery
  BY <1>0, <1>1, <1>4, <1>5 DEF TodoKnown
<1>6. CASE recovery' = Idle
  <2>1. Idle.op = "none" /\ Idle.refused = 0 /\ \A t \in Type : Idle.read[t] = 0
    BY DEF Idle
  <2>. QED  BY <1>0, <1>1, <1>4, <1>6, <2>1
<1>7. ASSUME NEW op \in Operation, NEW type \in Type, NEW todo \in SUBSET Position,
             Turn(op, type, todo), todo \subseteq DOMAIN log[type],
             op = "restore_ets" => type = "audit"
      PROVE  TodoKnown'
  <2>1. /\ new.op = op /\ new.type = type /\ new.refused = recovery.refused
        /\ new.todo \subseteq DOMAIN log[type]
        /\ new.read[type] = Len(log[type])
        /\ \A t \in Type \ {type} : new.read[t] = recovery.read[t]
    BY <1>1, <1>7, TurnKnown
  <2>2. \A t \in Type : new.read[t] \in Nat /\ new.read[t] <= Len(log[t])
    BY <1>0, <2>1 DEF TodoKnown
  <2>3. op # "none"
    BY DEF Operation
  <2>. QED  BY <1>4, <1>7, <2>1, <2>2, <2>3 DEF TodoKnown
<1>8. ASSUME recovery.op # "none", new.op = recovery.op, new.type = recovery.type,
             new.read = recovery.read, new.todo \subseteq recovery.todo,
             \/ new.refused = recovery.refused
             \/ new.refused \in recovery.todo /\ recovery.type = "audit"
      PROVE  TodoKnown'
  BY <1>0, <1>4, <1>8 DEF TodoKnown
<1>9. CASE recovery.op # "none" /\ recovery' = Raised
  BY <1>1, <1>8, <1>9, RestKnown
<1>10. ASSUME NEW n \in Position, recovery.op # "none", recovery' = Rest(n)
       PROVE  TodoKnown'
  BY <1>1, <1>8, <1>10, RestKnown
<1>11. ASSUME NEW n \in Position, recovery.op # "none",
              recovery' = [Raised EXCEPT !.refused = n],
              recovery.type = "audit", n \in recovery.todo
       PROVE  TodoKnown'
  BY <1>1, <1>8, <1>11, RestKnown
<1>. QED  BY <1>5, <1>6, <1>7, <1>9, <1>10, <1>11 DEF RecoveryStep

-----------------------------------------------------------------------------
(* THE INVARIANT OF THE RECORDS                                            *)

LEMMA RunType ==
  ASSUME TypeOK, RunsKnown, Next
  PROVE  run' \in [Audit -> [is : {"none", "recorded", "ended", "died"},
                             used : SUBSET Contract, at : Time \cup {None},
                             by : Starter \cup {None}, encodes : BOOLEAN]]
<1>1. CASE UNCHANGED run
  BY <1>1 DEF TypeOK
<1>2. ASSUME \/ Quiet \/ \E c \in Contract : WritesContract(c)
             \/ \E s \in Saved : WritesScenario(s)
      PROVE  UNCHANGED run
  BY <1>2, QuietStep DEF WritesContract, WritesScenario
<1>. QED  BY <1>1, <1>2, StepsSorted, EndsSame, CrashSame DEF RecordsRun

(* What the steps do to SolveAuditStore's tables.                          *)
IndexStep ==
  \/ UNCHANGED <<recorded, index>>
  \/ recorded' = {} /\ index' = [k \in IndexKey |-> [t \in Time |-> None]]
  \/ \E r \in Audit : /\ run'[r].is # "none" /\ run'[r].at \in Time
                      /\ Record(r, run'[r])

LEMMA NextIsIndexStep ==
  ASSUME TypeOK, LogKnown, RunsKnown, TodoKnown, Next
  PROVE  IndexStep
<1>1. ASSUME NEW r \in Audit, RecordsRun(r)  PROVE  IndexStep
  BY <1>1 DEF RecordsRun, IndexStep
<1>2. ASSUME NEW n \in Position, Rerecord(n)  PROVE  IndexStep
  <2>1. /\ recovery.op = "restore_ets" /\ n \in recovery.todo /\ run' = run
        /\ Record(log["audit"][n], run[log["audit"][n]])
    BY <1>2 DEF Rerecord, IsNext
  <2>2. log["audit"][n] \in Audit /\ run[log["audit"][n]].is # "none"
    BY <2>1, TodoIsKnown DEF TodoKnown
  <2>. QED  BY <2>1, <2>2 DEF IndexStep, RunsKnown
<1>3. CASE NodeCrash
  BY <1>3 DEF NodeCrash, IndexStep
<1>4. ASSUME \/ \E t \in tasks : RunTask(t) \/ FailTask(t)
             \/ \E op \in Operation : Begin(op)
             \/ \E n \in Position : ReplayContract(n) \/ ReplayAudit(n) \/ ReplayScenario(n)
             \/ NextType \/ ReplayFails
      PROVE  IndexStep
  BY <1>4 DEF RunTask, FailTask, Begin, ReplayContract, ReplayAudit, ReplayScenario,
              NextType, ReplayFails, memory, IndexStep
<1>5. ASSUME \/ \E c \in Contract : WritesContract(c)
             \/ \E r \in Audit : EndsRun(r)
             \/ \E s \in Saved : WritesScenario(s)
      PROVE  IndexStep
  BY <1>5 DEF WritesContract, EndsRun, Ends, WritesScenario, memory, IndexStep
<1>. QED  BY <1>1, <1>2, <1>3, <1>4, <1>5, StepsSorted DEF Quiet

LEMMA StoreType ==
  ASSUME TypeOK, RunsKnown, Next
  PROVE  /\ store' \subseteq Contract
         /\ ident' \in [Contract -> [party : Counterparty \cup {None}, version : Nat]]
<1>0. /\ store \subseteq Contract
      /\ ident \in [Contract -> [party : Counterparty \cup {None}, version : Nat]]
  BY DEF TypeOK
<1>1. CASE NodeCrash
  BY <1>0, <1>1 DEF NodeCrash
<1>2. ASSUME NEW c \in Contract, WritesContract(c)
      PROVE  /\ store' \subseteq Contract
             /\ ident' \in [Contract -> [party : Counterparty \cup {None}, version : Nat]]
  BY <1>0, <1>2 DEF WritesContract
<1>3. ASSUME \/ Quiet \/ \E s \in Saved : WritesScenario(s)
             \/ \E r \in Audit : RecordsRun(r) \/ EndsRun(r)
      PROVE  UNCHANGED <<store, ident>>
  BY <1>3, QuietStep DEF WritesScenario, RecordsRun, EndsRun, Ends, memory
<1>. QED  BY <1>0, <1>1, <1>2, <1>3, StepsSorted

LEMMA LogType ==
  ASSUME TypeOK, LogFits, RunsKnown, Next
  PROVE  log' \in [Type -> Seq(Item)] /\ odd' \subseteq Position /\ LogFits'
<1>1. ASSUME UNCHANGED <<log, odd>>
      PROVE  log' \in [Type -> Seq(Item)] /\ odd' \subseteq Position /\ LogFits'
  <2>1. Written' = Written
    BY <1>1 DEF Written
  <2>2. PICK w \in Nat, k \in Nat, l \in Nat :
          w = Written /\ k = count.writes /\ l = count'.writes /\ w <= k /\ k <= l
    BY LogLength, CountersType, NextKeeps DEF Keeps, LogFits
  <2>. QED  BY <1>1, <2>1, <2>2 DEF TypeOK, LogFits
<1>2. ASSUME NEW type, NEW id, Writes(type, id)
      PROVE  log' \in [Type -> Seq(Item)] /\ odd' \subseteq Position /\ LogFits'
  <2>1. PICK w \in Nat, v \in Nat, k \in Nat :
          w = Written /\ v = Written' /\ k = count.writes /\ w <= k /\ v <= w + 1
    BY <1>2, LogLength, CountersType, WritesKeep DEF LogFits
  <2>. QED  BY <1>2, <2>1, WritesOnce DEF LogFits
<1>3. ASSUME \/ Quiet \/ NodeCrash \/ \E r \in Audit : RecordsRun(r)
      PROVE  UNCHANGED <<log, odd>>
  BY <1>3, QuietStep DEF NodeCrash, RecordsRun
<1>. QED  BY <1>1, <1>2, <1>3, StepsSorted DEF WritesContract, EndsRun, WritesScenario

LEMMA InitKnown == Init => Known
<1>. SUFFICES ASSUME Init  PROVE  Known
  OBVIOUS
<1>1. DOMAIN log["contract"] = {} /\ DOMAIN log["audit"] = {} /\ DOMAIN log["scenario"] = {}
  BY DEF Init, Type
<1>2. \A r \in Audit : run[r].is = "none"
  BY DEF Init, NoRun
<1>3. IsFiniteSet({})
  BY FS_EmptySet
<1>4. TodoKnown
  <2>1. recovery = Idle /\ Idle.op = "none" /\ Idle.refused = 0
    BY DEF Init, Idle
  <2>2. \A t \in Type : Len(log[t]) = 0 /\ Idle.read[t] = 0
    BY DEF Init, Idle
  <2>. QED  BY <2>1, <2>2 DEF TodoKnown
<1>5. LogKnown
  BY <1>1 DEF LogKnown
<1>6. RunsKnown
  BY <1>2, <1>3 DEF Init, RunsKnown
<1>. QED  BY <1>3, <1>4, <1>5, <1>6 DEF Init, Known, TasksKnown, RowsKnown

Records == TypeOK /\ LogFits /\ Known

LEMMA RecordsKept == Records /\ [Next]_vars => Records'
<1>. SUFFICES ASSUME Records, [Next]_vars  PROVE  Records'
  OBVIOUS
<1>1. CASE UNCHANGED vars
  <2>1. UNCHANGED <<store, ident, run, recorded, index, log, odd, tasks, contractRow,
                    auditRow, link, scenarioRow, recovery, count>>
    BY <1>1 DEF vars, memory, tables
  <2>2. TypeOK' /\ LogFits'
    BY <2>1 DEF Records, TypeOK, LogFits, Written
  <2>3. LogKnown' /\ TasksKnown' /\ RunsKnown' /\ RowsKnown' /\ TodoKnown'
    BY <2>1 DEF Records, Known, LogKnown, TasksKnown, RunsKnown, RowsKnown, TodoKnown
  <2>. QED  BY <2>2, <2>3 DEF Records, Known
<1>2. CASE Next
  <2>1. /\ TypeOK /\ LogFits /\ LogKnown /\ TasksKnown /\ RunsKnown /\ RowsKnown
        /\ TodoKnown
    BY DEF Records, Known
  <2>2. Keeps /\ TableStep /\ IndexStep /\ RecoveryStep
    BY <1>2, <2>1, NextKeeps, NextIsTableStep, NextIsIndexStep, NextIsRecoveryStep
  <2>3. LogKnown' /\ TasksKnown' /\ RunsKnown' /\ TodoKnown'
    BY <1>2, <2>1, <2>2, LogStaysKnown, TasksStayKnown, RunsStayKnown, TodoStaysKnown
  <2>4. /\ RowsKnown'
        /\ contractRow' \subseteq Contract /\ auditRow' \subseteq Audit
        /\ link' \subseteq Audit \X Contract
        /\ scenarioRow' \subseteq Scenario \X (Nat \ {0})
    BY <2>1, <2>2, RowsStayKnown
  <2>5. recorded' \subseteq Audit /\ index' \in [IndexKey -> [Time -> Audit \cup {None}]]
    <3>1. recorded \subseteq Audit /\ index \in [IndexKey -> [Time -> Audit \cup {None}]]
      BY <2>1 DEF TypeOK
    <3>2. ASSUME NEW r \in Audit, run'[r].at \in Time, Record(r, run'[r])
          PROVE  recorded' \subseteq Audit /\ index' \in [IndexKey -> [Time -> Audit \cup {None}]]
      BY <2>1, <3>1, <3>2, RecordType
    <3>. QED  BY <2>2, <3>1, <3>2 DEF IndexStep
  <2>6. TypeOK'
    <3>1. /\ store' \subseteq Contract
          /\ ident' \in [Contract -> [party : Counterparty \cup {None}, version : Nat]]
      BY <1>2, <2>1, StoreType
    <3>2. run' \in [Audit -> [is : {"none", "recorded", "ended", "died"},
                       used : SUBSET Contract, at : Time \cup {None},
                       by : Starter \cup {None}, encodes : BOOLEAN]]
      BY <1>2, <2>1, RunType
    <3>3. log' \in [Type -> Seq(Item)] /\ odd' \subseteq Position /\ tasks' \subseteq Task
      BY <1>2, <2>1, LogType, TasksStayKnown
    <3>4. recovery' \in Recovery /\ count' \in Counters
      BY <1>2, <2>1, <2>2, RecoveryType, CountType
    <3>. QED  BY <2>4, <2>5, <3>1, <3>2, <3>3, <3>4 DEF TypeOK, Counters
  <2>. QED  BY <1>2, <2>1, <2>3, <2>4, <2>6, LogType DEF Records, Known
<1>. QED  BY <1>1, <1>2

(* Every variable of the way of an audit keeps its type, whatever the      *)
(* constants are.                                                          *)
THEOREM AuditsTypeCorrect == Spec => []TypeOK
<1>1. Init => Records
  BY InitType, InitKnown DEF Records
<1>2. Records => TypeOK
  BY DEF Records
<1>. QED  BY <1>1, <1>2, RecordsKept, PTL DEF Spec

(* What is in a table, an index, a task or the log is about something that *)
(* was stored, recorded or logged, in every reachable state.               *)
THEOREM RecordsCorrect == Spec => []Records
<1>1. Init => Records
  BY InitType, InitKnown DEF Records
<1>. QED  BY <1>1, RecordsKept, PTL DEF Spec

-----------------------------------------------------------------------------
(* AN AUDIT AND ITS LINKS                                                  *)

(* The links of each stored audit are those of the contracts it used.      *)
LinksExact ==
  /\ \A r \in auditRow, c \in Contract : <<r, c>> \in link <=> c \in run[r].used
  /\ \A r \in Audit, c \in Contract : <<r, c>> \in link => r \in auditRow /\ c \in contractRow

LEMMA LinksExactSuffices ==
  ASSUME TypeOK, LinksExact
  PROVE  LinksWhole
<1>0. /\ link \subseteq Audit \X Contract /\ auditRow \subseteq Audit
      /\ \A r \in Audit : run[r].used \subseteq Contract
  BY DEF TypeOK
<1>1. ASSUME NEW r \in auditRow
      PROVE  {p[2] : p \in {l \in link : l[1] = r}} = run[r].used
  <2>1. ASSUME NEW c \in {p[2] : p \in {l \in link : l[1] = r}}  PROVE  c \in run[r].used
    <3>1. PICK p \in link : p[1] = r /\ p[2] = c
      BY <2>1
    <3>2. c \in Contract /\ p = <<r, c>>
      BY <1>0, <3>1
    <3>. QED  BY <3>1, <3>2 DEF LinksExact
  <2>2. ASSUME NEW c \in run[r].used  PROVE  c \in {p[2] : p \in {l \in link : l[1] = r}}
    <3>1. <<r, c>> \in link
      BY <1>0, <2>2 DEF LinksExact
    <3>2. PICK p \in link : p = <<r, c>>
      BY <3>1
    <3>3. p[1] = r /\ p[2] = c
      BY <3>2
    <3>. QED  BY <3>3
  <2>. QED  BY <2>1, <2>2
<1>2. ASSUME NEW l \in link  PROVE  l[1] \in auditRow /\ l[2] \in contractRow
  <2>1. l[1] \in Audit /\ l[2] \in Contract /\ l = <<l[1], l[2]>>
    BY <1>0
  <2>. QED  BY <2>1 DEF LinksExact
<1>. QED  BY <1>1, <1>2 DEF LinksWhole

LEMMA LinksStayExact ==
  ASSUME Records, LinksExact, Next
  PROVE  LinksExact'
<1>0. /\ TypeOK /\ LogFits /\ Keeps /\ TableStep
      /\ auditRow \subseteq Audit /\ \A r \in auditRow : run[r].is # "none"
      /\ contractRow \subseteq contractRow' /\ auditRow \subseteq auditRow'
  BY NextKeeps, NextIsTableStep, RowsStayKnown DEF Records, Known, RowsKnown, TypeOK
<1>1. \A r \in Audit : run[r].is # "none" => run'[r].used = run[r].used
  BY <1>0 DEF Keeps
<1>2. CASE UNCHANGED <<auditRow, link>>
  BY <1>0, <1>1, <1>2 DEF LinksExact
<1>3. ASSUME NEW r \in Audit, StoresAudit(r)  PROVE  LinksExact'
  <2>1. /\ run[r].is # "none" /\ run[r].used \subseteq contractRow
        /\ auditRow' = auditRow \cup {r} /\ contractRow' = contractRow
        /\ link' = link \cup ({r} \X run[r].used)
    BY <1>3 DEF StoresAudit
  <2>2. \A q \in Audit, c \in Contract :
          <<q, c>> \in link' <=> <<q, c>> \in link \/ (q = r /\ c \in run[r].used)
    BY <2>1
  <2>3. ASSUME NEW q \in auditRow', NEW c \in Contract
        PROVE  <<q, c>> \in link' <=> c \in run'[q].used
    <3>1. CASE q = r
      BY <1>0, <1>1, <2>1, <2>2, <3>1 DEF LinksExact
    <3>2. CASE q # r
      BY <1>0, <1>1, <2>1, <2>2, <3>2 DEF LinksExact
    <3>. QED  BY <3>1, <3>2
  <2>4. ASSUME NEW q \in Audit, NEW c \in Contract, <<q, c>> \in link'
        PROVE  q \in auditRow' /\ c \in contractRow'
    BY <2>1, <2>2, <2>4 DEF LinksExact
  <2>. QED  BY <2>3, <2>4 DEF LinksExact
<1>. QED  BY <1>0, <1>2, <1>3 DEF TableStep, tables, UpsertContract, InsertScenario

LEMMA LinksExactStutter == LinksExact /\ UNCHANGED vars => LinksExact'
BY DEF LinksExact, vars, tables

(* An audit in Postgres has all the links of the contracts it used and no  *)
(* other, and each leads to a row: whatever the order of tasks and replays *)
(* and whichever of them fails, for any number of contracts and audits.    *)
THEOREM AuditLinksWhole == Spec => []LinksWhole
<1>1. Init => LinksExact
  BY DEF Init, LinksExact
<1>2. Records /\ LinksExact /\ [Next]_vars => LinksExact'
  BY LinksStayExact, LinksExactStutter
<1>3. Records /\ LinksExact => LinksWhole
  BY LinksExactSuffices DEF Records
<1>. QED  BY <1>1, <1>2, <1>3, RecordsCorrect, PTL DEF Spec

-----------------------------------------------------------------------------
(* THE INDEXES                                                             *)

IndexExact ==
  /\ \A r \in recorded : run[r].is # "none"
  /\ IndexFaithful

(* The keys of an audit do not change.                                     *)
LEMMA KeysKept ==
  ASSUME Keeps
  PROVE  \A r \in Audit : run[r].is # "none" =>
           KeysOf(run'[r]) = KeysOf(run[r]) /\ run'[r].at = run[r].at
BY DEF Keeps, KeysOf

LEMMA KeysAreKeys ==
  ASSUME TypeOK, RunsKnown, NEW r \in Audit, run[r].is # "none"
  PROVE  KeysOf(run[r]) \subseteq IndexKey /\ run[r].at \in Time
BY DEF TypeOK, RunsKnown, KeysOf, IndexKey

LEMMA IndexStaysExact ==
  ASSUME Records, IndexExact, Next
  PROVE  IndexExact'
<1>0. /\ TypeOK /\ RunsKnown /\ Keeps /\ IndexStep
      /\ recorded \subseteq Audit /\ \A r \in recorded : run[r].is # "none"
      /\ index \in [IndexKey -> [Time -> Audit \cup {None}]]
      /\ TypeOK' /\ RunsKnown' /\ None \notin Audit
  BY NextKeeps, NextIsIndexStep, RecordsKept, AuditsAssumption
  DEF Records, Known, TypeOK, IndexExact
<1>1. \A r \in Audit : run[r].is # "none" =>
        /\ run'[r].is # "none"
        /\ KeysOf(run'[r]) = KeysOf(run[r]) /\ run'[r].at = run[r].at
  BY <1>0, KeysKept DEF Keeps
<1>2. \A r \in Audit : run[r].is # "none" =>
        KeysOf(run[r]) \subseteq IndexKey /\ run[r].at \in Time
  BY <1>0, KeysAreKeys
<1>3. CASE UNCHANGED <<recorded, index>>
  BY <1>0, <1>1, <1>3 DEF IndexExact, IndexFaithful
<1>4. CASE recorded' = {} /\ index' = [k \in IndexKey |-> [t \in Time |-> None]]
  BY <1>4 DEF IndexExact, IndexFaithful
<1>5. ASSUME NEW r \in Audit, run'[r].is # "none", run'[r].at \in Time,
             Record(r, run'[r])
      PROVE  IndexExact'
  <2>0. PICK at \in Time : at = run'[r].at
    BY <1>5
  <2>. DEFINE K == KeysOf(run'[r])
  <2>1. K = KeysOf(run'[r]) /\ at = run'[r].at
    BY <2>0
  <2>2. /\ recorded' = recorded \cup {r}
        /\ \A k \in IndexKey, t \in Time :
             index'[k][t] = IF k \in K /\ t = at THEN r ELSE index[k][t]
    BY <1>0, <1>5, <2>1, RecordType
  <2>3. \A k \in IndexKey, t \in Time : index[k][t] # None =>
          /\ index[k][t] \in recorded
          /\ k \in KeysOf(run'[index[k][t]]) /\ run'[index[k][t]].at = t
    BY <1>0, <1>1 DEF IndexExact, IndexFaithful
  <2>4. \A k \in IndexKey, t \in Time : index'[k][t] # None =>
          /\ index'[k][t] \in recorded'
          /\ k \in KeysOf(run'[index'[k][t]]) /\ run'[index'[k][t]].at = t
    BY <2>1, <2>2, <2>3
  <2>5. ASSUME NEW q \in recorded', NEW k \in KeysOf(run'[q])
        PROVE  index'[k][run'[q].at] # None
    <3>1. CASE q = r
      <4>1. k \in K /\ k \in IndexKey /\ run'[q].at = at
        <5>1. KeysOf(run'[r]) \subseteq IndexKey
          BY <1>0, <1>5 DEF TypeOK, RunsKnown, KeysOf, IndexKey
        <5>. QED  BY <2>1, <2>5, <3>1, <5>1
      <4>. QED  BY <1>0, <2>2, <4>1
    <3>2. CASE q # r
      <4>1. /\ q \in recorded /\ k \in KeysOf(run[q]) /\ run'[q].at = run[q].at
            /\ k \in IndexKey /\ run[q].at \in Time
        BY <1>0, <1>1, <1>2, <2>2, <2>5, <3>2
      <4>2. index[k][run[q].at] # None
        BY <4>1 DEF IndexExact, IndexFaithful
      <4>. QED  BY <1>0, <2>2, <4>1, <4>2
    <3>. QED  BY <3>1, <3>2
  <2>6. \A q \in recorded' : run'[q].is # "none"
    BY <1>0, <1>1, <1>5, <2>2
  <2>. QED  BY <2>4, <2>5, <2>6 DEF IndexExact, IndexFaithful
<1>. QED  BY <1>0, <1>3, <1>4, <1>5 DEF IndexStep

LEMMA IndexExactStutter == IndexExact /\ UNCHANGED vars => IndexExact'
BY DEF IndexExact, IndexFaithful, vars, memory

(* A query finds under each key and time one recorded audit of that key    *)
(* and time, and misses none except for another of the same key and time;  *)
(* also after a restart and after audits were recorded again.              *)
THEOREM AuditIndexFaithful == Spec => []IndexFaithful
<1>1. Init => IndexExact
  BY DEF Init, IndexExact, IndexFaithful
<1>2. Records /\ IndexExact /\ [Next]_vars => IndexExact'
  BY IndexStaysExact, IndexExactStutter
<1>3. IndexExact => IndexFaithful
  BY DEF IndexExact
<1>. QED  BY <1>1, <1>2, <1>3, RecordsCorrect, PTL DEF Spec

-----------------------------------------------------------------------------
(* RECOVERY: CONTRACTS AND AUDITS                                          *)

(* An entry at or before n ends the replay of contracts.                   *)
Blocked(n) == \E m \in 1..n : Raises(m)

(* A contract that a replay of contracts has behind it has a row, unless   *)
(* the replay ended there or before.                                       *)
ContractsFilled ==
  Replay =>
    \A n \in 1..recovery.read["contract"] :
      \/ log["contract"][n] \in contractRow
      \/ recovery.type = "contract" /\ n \in recovery.todo
      \/ Blocked(n)

(* A refusal ends the replay of audits.                                    *)
RefusedOnce ==
  recovery.refused # 0 =>
    recovery.type # "contract" /\ (recovery.type = "audit" => recovery.todo = {})

Filled == ContractsFilled /\ AuditsFilled /\ RefusalHasReason /\ RefusedOnce

(* An entry that ends a replay once does so for ever.                      *)
LEMMA RaisesStays ==
  ASSUME Records, Next, NEW n \in DOMAIN log["contract"], Raises(n)
  PROVE  Raises(n)'
<1>0. /\ TypeOK /\ Keeps /\ TableStep /\ LogKnown /\ RowsKnown
      /\ contractRow \subseteq Contract /\ "contract" \in Type
  BY NextKeeps, NextIsTableStep DEF Records, Known, TypeOK, Type
<1>1. contractRow \subseteq contractRow' /\ odd \subseteq odd'
  BY <1>0, RowsStayKnown DEF Keeps
<1>2. CASE n \in odd
  BY <1>1, <1>2 DEF Raises
<1>3. CASE log["contract"][n] \notin contractRow /\ Refused(log["contract"][n])
  <2>2. PICK c : c = log["contract"][n]
    OBVIOUS
  <2>3. c \in Contract /\ ident[c] # NoIdent /\ c \notin contractRow /\ Refused(c)
    BY <1>0, <1>3, <2>2 DEF LogKnown
  <2>4. PICK d \in contractRow : d # c /\ ident[d] = ident[c]
    BY <2>3 DEF Refused
  <2>5. ident[d] # NoIdent /\ d \in Contract
    BY <1>0, <2>4 DEF RowsKnown
  <2>6. ident'[d] = ident'[c] /\ d \in contractRow'
    BY <1>0, <1>1, <2>3, <2>4, <2>5 DEF Keeps
  <2>7. c \notin contractRow'
    <3>1. ASSUME NEW e \in Contract, UpsertContract(e)  PROVE  c \notin contractRow'
      <4>1. CASE e = c
        BY <2>3, <3>1, <4>1 DEF UpsertContract
      <4>2. CASE e # c
        BY <2>3, <3>1, <4>2 DEF UpsertContract
      <4>. QED  BY <4>1, <4>2
    <3>2. ASSUME UNCHANGED contractRow  PROVE  c \notin contractRow'
      BY <2>3, <3>2
    <3>. QED  BY <1>0, <3>1, <3>2 DEF TableStep, tables, StoresAudit, InsertScenario
  <2>8. log'["contract"][n] = c
    BY <1>0, <2>2 DEF Keeps
  <2>9. Refused(c)'
    BY <2>4, <2>6 DEF Refused
  <2>. QED  BY <2>7, <2>8, <2>9 DEF Raises, Refused
<1>. QED  BY <1>2, <1>3 DEF Raises

(* The facts that the steps of a recovery share.                           *)
LEMMA NothingIsLost ==
  ASSUME Records, Next
  PROVE  /\ contractRow \subseteq contractRow' /\ auditRow \subseteq auditRow'
         /\ scenarioRow \subseteq scenarioRow'
         /\ count'.outages = 0 => count.outages = 0
         /\ (\E t \in tasks : FailTask(t)) \/ ReplayFails => count'.outages # 0
         /\ \A t \in Type : /\ recovery.read[t] \in Nat
                            /\ 1..recovery.read[t] \subseteq DOMAIN log[t]
         /\ \A t \in Type : \A n \in DOMAIN log[t] :
              n \in DOMAIN log'[t] /\ log'[t][n] = log[t][n]
<1>0. /\ TypeOK /\ LogFits /\ Keeps /\ TableStep /\ RowsKnown /\ TodoKnown
      /\ RunsKnown /\ recovery \in Recovery
  BY NextKeeps, NextIsTableStep DEF Records, Known, TypeOK
<1>1. /\ contractRow \subseteq contractRow' /\ auditRow \subseteq auditRow'
      /\ scenarioRow \subseteq scenarioRow'
  BY <1>0, RowsStayKnown
<1>2. /\ count'.outages = 0 => count.outages = 0
      /\ (\E t \in tasks : FailTask(t)) \/ ReplayFails => count'.outages # 0
  <2>1. /\ count.outages \in Nat /\ count' \in Counters
        /\ count'.outages >= count.outages
        /\ (\E t \in tasks : FailTask(t)) \/ ReplayFails => count'.outages # 0
    BY <1>0, CountType, CountersType
  <2>2. count'.outages \in 0..Faults
    BY <2>1 DEF Counters
  <2>. QED  BY <2>1, <2>2, AuditsAssumption
<1>3. ASSUME NEW t \in Type
      PROVE  /\ recovery.read[t] \in Nat
             /\ 1..recovery.read[t] \subseteq DOMAIN log[t]
             /\ \A n \in DOMAIN log[t] : n \in DOMAIN log'[t] /\ log'[t][n] = log[t][n]
  <2>1. Len(log[t]) \in Nat /\ DOMAIN log[t] = 1..Len(log[t])
    BY <1>0, LogLength
  <2>2. recovery.read[t] \in Nat /\ recovery.read[t] <= Len(log[t])
    BY <1>0, AuditsAssumption DEF Recovery, TodoKnown
  <2>. QED  BY <1>0, <2>1, <2>2 DEF Keeps
<1>. QED  BY <1>1, <1>2, <1>3

ContractDone(n) == log["contract"][n] \in contractRow \/ Blocked(n)
AuditDone(n) == log["audit"][n] \in auditRow

LEMMA BlockedStays ==
  ASSUME Records, Next, NEW n \in 1..recovery.read["contract"], Blocked(n)
  PROVE  Blocked(n)'
<1>1. PICK m \in 1..n : Raises(m)
  BY DEF Blocked
<1>2. recovery.read["contract"] \in Nat /\ 1..recovery.read["contract"] \subseteq DOMAIN log["contract"]
  BY NothingIsLost DEF Type
<1>3. m \in DOMAIN log["contract"]
  BY <1>2
<1>4. Raises(m)'
  BY <1>1, <1>3, RaisesStays
<1>. QED  BY <1>4 DEF Blocked

LEMMA DoneStays ==
  ASSUME Records, Next
  PROVE  /\ \A n \in 1..recovery.read["contract"] : ContractDone(n) => ContractDone(n)'
         /\ \A n \in 1..recovery.read["audit"] : AuditDone(n) => AuditDone(n)'
<1>1. /\ contractRow \subseteq contractRow' /\ auditRow \subseteq auditRow'
      /\ 1..recovery.read["contract"] \subseteq DOMAIN log["contract"]
      /\ 1..recovery.read["audit"] \subseteq DOMAIN log["audit"]
      /\ \A n \in DOMAIN log["contract"] : log'["contract"][n] = log["contract"][n]
      /\ \A n \in DOMAIN log["audit"] : log'["audit"][n] = log["audit"][n]
  BY NothingIsLost DEF Type
<1>2. \A n \in 1..recovery.read["contract"] : Blocked(n) => Blocked(n)'
  BY BlockedStays
<1>. QED  BY <1>1, <1>2 DEF ContractDone, AuditDone

(* What a refusal rests on stays, as long as the replay does.              *)
LEMMA ReasonStays ==
  ASSUME Records, Next, RefusalHasReason,
         recovery'.refused = recovery.refused,
         recovery'.read["contract"] = recovery.read["contract"]
  PROVE  RefusalHasReason'
<1>. SUFFICES ASSUME recovery.refused # 0, count'.outages = 0
              PROVE  \/ ~run'[log'["audit"][recovery.refused]].encodes
                     \/ \E c \in run'[log'["audit"][recovery.refused]].used :
                          \A n \in 1..recovery.read["contract"] :
                            log'["contract"][n] = c => Blocked(n)'
  BY DEF RefusalHasReason, Blocked
<1>1. /\ count.outages = 0 /\ "contract" \in Type /\ "audit" \in Type
      /\ 1..recovery.read["contract"] \subseteq DOMAIN log["contract"]
      /\ \A t \in Type : \A n \in DOMAIN log[t] :
              n \in DOMAIN log'[t] /\ log'[t][n] = log[t][n]
  BY NothingIsLost DEF Type
<1>2. /\ recovery.refused \in DOMAIN log["audit"]
      /\ log["audit"][recovery.refused] \in Audit
      /\ run[log["audit"][recovery.refused]].is # "none"
  BY DEF Records, Known, TodoKnown, LogKnown
<1>3. /\ run'[log'["audit"][recovery.refused]].used = run[log["audit"][recovery.refused]].used
      /\ run'[log'["audit"][recovery.refused]].encodes
           = run[log["audit"][recovery.refused]].encodes
  BY <1>1, <1>2, NextKeeps DEF Records, Known, Keeps
<1>4. CASE ~run[log["audit"][recovery.refused]].encodes
  BY <1>3, <1>4
<1>5. ASSUME NEW c \in run[log["audit"][recovery.refused]].used,
             \A n \in 1..recovery.read["contract"] : log["contract"][n] = c => Blocked(n)
      PROVE  \A n \in 1..recovery.read["contract"] : log'["contract"][n] = c => Blocked(n)'
  BY <1>1, <1>5, BlockedStays
<1>. QED  BY <1>1, <1>3, <1>4, <1>5 DEF RefusalHasReason, Blocked

LEMMA ContractsStayFilled ==
  ASSUME Records, Next, ContractsFilled,
         recovery'.op = recovery.op,
         recovery'.read["contract"] = recovery.read["contract"],
         \A n \in recovery.todo : recovery.type = "contract" =>
           (recovery'.type = "contract" /\ n \in recovery'.todo) \/ ContractDone(n)'
               \/ count'.outages # 0
  PROVE  ContractsFilled'
<1>. SUFFICES ASSUME Replay', NEW n \in 1..recovery.read["contract"]
              PROVE  \/ ContractDone(n)'
                     \/ recovery'.type = "contract" /\ n \in recovery'.todo
  BY DEF ContractsFilled, ContractDone
<1>1. Replay /\ count'.outages = 0
  BY NothingIsLost DEF Replay
<1>2. ContractDone(n) \/ (recovery.type = "contract" /\ n \in recovery.todo)
  BY <1>1 DEF ContractsFilled, ContractDone
<1>. QED  BY <1>1, <1>2, DoneStays

LEMMA AuditsStayFilled ==
  ASSUME Records, Next, AuditsFilled,
         recovery'.op = recovery.op,
         recovery'.read["audit"] = recovery.read["audit"],
         recovery.refused # 0 => recovery'.refused = recovery.refused,
         \A n \in recovery.todo : recovery.type = "audit" =>
           \/ recovery'.type = "audit" /\ n \in recovery'.todo
           \/ AuditDone(n)'
           \/ recovery'.refused # 0 /\ n >= recovery'.refused
           \/ count'.outages # 0
  PROVE  AuditsFilled'
<1>. SUFFICES ASSUME Replay', NEW n \in 1..recovery.read["audit"]
              PROVE  \/ AuditDone(n)'
                     \/ recovery'.type = "audit" /\ n \in recovery'.todo
                     \/ recovery'.refused # 0 /\ n >= recovery'.refused
  BY DEF AuditsFilled, AuditDone
<1>1. Replay /\ count'.outages = 0
  BY NothingIsLost DEF Replay
<1>2. \/ AuditDone(n)
      \/ recovery.type = "audit" /\ n \in recovery.todo
      \/ recovery.refused # 0 /\ n >= recovery.refused
  BY <1>1 DEF AuditsFilled, AuditDone
<1>. QED  BY <1>1, <1>2, DoneStays

(* Nothing is claimed of an idle recovery.                                 *)
LEMMA IdleIsFilled ==
  ASSUME recovery' = Idle
  PROVE  Filled'
BY DEF Idle, Filled, ContractsFilled, AuditsFilled, RefusalHasReason, RefusedOnce, Replay

LEMMA SameStaysFilled ==
  ASSUME Records, Next, Filled, UNCHANGED recovery
  PROVE  Filled'
<1>1. ContractsFilled'
  BY ContractsStayFilled DEF Filled
<1>2. AuditsFilled'
  BY AuditsStayFilled DEF Filled
<1>3. RefusalHasReason'
  BY ReasonStays DEF Filled
<1>. QED  BY <1>1, <1>2, <1>3 DEF Filled, RefusedOnce

(* Contracts come first, and all that have no row are to be replayed.      *)
LEMMA BeginIsFilled ==
  ASSUME Records, Next, NEW op \in Operation, Begin(op)
  PROVE  Filled'
<1>1. /\ TypeOK /\ recovery = Idle /\ UNCHANGED <<log, contractRow>>
      /\ "contract" \in Type /\ "audit" \in Type
  BY DEF Records, Begin, tables, Type
<1>2. CASE op = "restore_ets"
  <2>1. recovery'.op = "restore_ets" /\ recovery'.refused = 0
    BY <1>1, <1>2, TurnKnown DEF Begin, Idle
  <2>. QED  BY <2>1 DEF Filled, ContractsFilled, AuditsFilled, RefusalHasReason,
                        RefusedOnce, Replay
<1>3. CASE op # "restore_ets"
  <2>1. /\ recovery'.op = op /\ recovery'.type = "contract" /\ recovery'.refused = 0
        /\ recovery'.todo = ToReplay(op, "contract")
        /\ recovery'.read["contract"] = Len(log["contract"])
        /\ recovery'.read["audit"] = 0
    <3>1. Turn(op, "contract", ToReplay(op, "contract"))
      BY <1>3 DEF Begin
    <3>2. recovery.refused = 0 /\ recovery.read["audit"] = 0
      BY <1>1 DEF Idle
    <3>3. "audit" \in Type \ {"contract"}
      BY <1>1
    <3>. QED  BY <1>1, <3>1, <3>2, <3>3, TurnKnown
  <2>2. DOMAIN log["contract"] = 1..Len(log["contract"])
    BY <1>1, LogLength
  <2>3. \A n \in 1..Len(log["contract"]) :
          log["contract"][n] \in contractRow \/ n \in recovery'.todo
    BY <2>1, <2>2 DEF ToReplay, Missing
  <2>4. ContractsFilled'
    BY <1>1, <2>1, <2>3 DEF ContractsFilled
  <2>. QED  BY <2>1, <2>4 DEF Filled, AuditsFilled, RefusalHasReason, RefusedOnce
<1>. QED  BY <1>2, <1>3

(* Then audits, and at last scenarios, when nothing of a type is left.     *)
LEMMA NextTypeIsFilled ==
  ASSUME Records, Filled, Next, NextType
  PROVE  Filled'
<1>1. /\ TypeOK /\ recovery.todo = {} /\ UNCHANGED <<log, auditRow>>
      /\ recovery.op \in Operation
      /\ "contract" \in Type /\ "audit" \in Type /\ "scenario" \in Type
  BY DEF Records, NextType, tables, TypeOK, Recovery, Type
<1>2. ASSUME recovery.type = "contract",
             Turn(recovery.op, "audit", ToReplay(recovery.op, "audit"))
      PROVE  Filled'
  <2>1. /\ recovery'.op = recovery.op /\ recovery'.type = "audit"
        /\ recovery'.refused = recovery.refused
        /\ recovery'.todo = ToReplay(recovery.op, "audit")
        /\ recovery'.read["audit"] = Len(log["audit"])
        /\ recovery'.read["contract"] = recovery.read["contract"]
    BY <1>1, <1>2, TurnKnown DEF Type
  <2>2. recovery.refused = 0
    BY <1>2 DEF Filled, RefusedOnce
  <2>3. DOMAIN log["audit"] = 1..Len(log["audit"])
    BY <1>1, LogLength
  <2>4. \A n \in 1..Len(log["audit"]) :
          log["audit"][n] \in auditRow \/ n \in recovery'.todo
    BY <2>1, <2>3 DEF ToReplay, Missing
  <2>5. AuditsFilled'
    BY <1>1, <2>1, <2>4 DEF AuditsFilled
  <2>6. ContractsFilled'
    BY <1>1, <2>1, ContractsStayFilled DEF Filled
  <2>. QED  BY <2>1, <2>2, <2>5, <2>6 DEF Filled, RefusalHasReason, RefusedOnce
<1>3. ASSUME recovery.type = "audit",
             Turn(recovery.op, "scenario", ToReplay(recovery.op, "scenario"))
      PROVE  Filled'
  <2>1. /\ recovery'.op = recovery.op /\ recovery'.type = "scenario"
        /\ recovery'.refused = recovery.refused
        /\ recovery'.read["audit"] = recovery.read["audit"]
        /\ recovery'.read["contract"] = recovery.read["contract"]
    BY <1>1, <1>3, TurnKnown DEF Type
  <2>2. ContractsFilled'
    BY <1>1, <2>1, ContractsStayFilled DEF Filled
  <2>3. AuditsFilled'
    BY <1>1, <2>1, AuditsStayFilled DEF Filled
  <2>4. RefusalHasReason'
    BY <2>1, ReasonStays DEF Filled
  <2>. QED  BY <2>1, <2>2, <2>3, <2>4 DEF Filled, RefusedOnce
<1>4. recovery.type \in {"contract", "audit"} \/ recovery' = Idle
  BY <1>1 DEF NextType, Records, Known, TodoKnown, Type
<1>. QED  BY <1>2, <1>3, <1>4, IdleIsFilled, NextOfType DEF NextType, Type

LEMMA ReplayContractFills ==
  ASSUME Records, Filled, Next, NEW n \in Position, ReplayContract(n)
  PROVE  Filled'
<1>0. /\ TypeOK /\ n \in recovery.todo /\ recovery.type = "contract"
      /\ log' = log /\ recovery.op # "none" /\ \A m \in recovery.todo : n <= m
      /\ \/ recovery' = Raised /\ Raises(n)
         \/ recovery' = Rest(n) /\ log["contract"][n] \in contractRow'
  BY DEF Records, ReplayContract, Replaying, IsNext, Raises
<1>1. /\ n \in DOMAIN log["contract"] /\ recovery.refused = 0
      /\ recovery.todo \subseteq Position
  BY <1>0 DEF Records, Known, TodoKnown, Filled, RefusedOnce, TypeOK, Recovery
<1>2. /\ recovery'.op = recovery.op /\ recovery'.read = recovery.read
      /\ recovery'.refused = recovery.refused /\ recovery'.type = recovery.type
  BY <1>0, RestKnown
<1>3. \A m \in recovery.todo : m \in recovery'.todo \/ ContractDone(m)'
  <2>1. CASE recovery' = Raised /\ Raises(n)
    <3>1. Raises(n)'
      BY <1>1, <2>1, RaisesStays
    <3>2. \A m \in recovery.todo : n \in 1..m
      BY <1>0, <1>1 DEF Position
    <3>. QED  BY <3>1, <3>2 DEF ContractDone, Blocked
  <2>2. CASE recovery' = Rest(n) /\ log["contract"][n] \in contractRow'
    <3>1. recovery'.todo = recovery.todo \ {n}
      BY <1>0, <2>2, RestKnown
    <3>. QED  BY <1>0, <2>2, <3>1 DEF ContractDone
  <2>. QED  BY <1>0, <2>1, <2>2
<1>4. ContractsFilled'
  BY <1>0, <1>2, <1>3, ContractsStayFilled DEF Filled
<1>5. AuditsFilled'
  BY <1>0, <1>2, AuditsStayFilled DEF Filled
<1>. QED  BY <1>1, <1>2, <1>4, <1>5 DEF Filled, RefusalHasReason, RefusedOnce

(* If a contract that an audit used has no row after the contracts, the    *)
(* replay could not reach it.                                              *)
LEMMA RefusedForAReason ==
  ASSUME ContractsFilled, Replay, recovery.type # "contract",
         NEW r \in Audit, ~(run[r].used \subseteq contractRow)
  PROVE  \E c \in run[r].used : \A n \in 1..recovery.read["contract"] :
           log["contract"][n] = c => Blocked(n)
<1>1. PICK c \in run[r].used : c \notin contractRow
  OBVIOUS
<1>. QED  BY <1>1 DEF ContractsFilled

LEMMA ReplayAuditFills ==
  ASSUME Records, Filled, Next, NEW n \in Position, ReplayAudit(n)
  PROVE  Filled'
<1>. DEFINE r == log["audit"][n]
            blocked == \/ ~run[r].encodes \/ ~(run[r].used \subseteq contractRow)
<1>0. /\ TypeOK /\ n \in recovery.todo /\ recovery.type = "audit"
      /\ UNCHANGED <<log, run, ident, contractRow, count>>
      /\ recovery.op \in {"fill_gaps", "restore_postgres"}
      /\ \A m \in recovery.todo : n <= m
  BY DEF Records, ReplayAudit, Replaying, IsNext
<1>1. /\ n \in DOMAIN log["audit"] /\ r \in Audit /\ run[r].is # "none"
      /\ recovery.refused = 0 /\ recovery.todo \subseteq Position
      /\ n # 0
  BY <1>0 DEF Records, Known, TodoKnown, LogKnown, Filled, RefusedOnce,
              TypeOK, Recovery, Position
<1>2. \/ /\ recovery' = Rest(n) /\ r \in auditRow'
      \/ /\ recovery' = [Raised EXCEPT !.refused = n] /\ blocked
  BY <1>1 DEF ReplayAudit
<1>3. /\ recovery'.op = recovery.op /\ recovery'.read = recovery.read
      /\ recovery'.type = recovery.type
  <2>1. recovery' = Rest(n) \/ recovery' = [Raised EXCEPT !.refused = n]
    BY <1>2
  <2>2. CASE recovery' = Rest(n)
    BY <1>0, <2>2, RestKnown
  <2>3. CASE recovery' = [Raised EXCEPT !.refused = n]
    BY <1>0, <2>3, RestKnown
  <2>. QED  BY <2>1, <2>2, <2>3
<1>4. CASE recovery' = Rest(n) /\ r \in auditRow'
  <2>1. recovery'.todo = recovery.todo \ {n} /\ recovery'.refused = recovery.refused
    BY <1>0, <1>4, RestKnown
  <2>2. AuditDone(n)'
    BY <1>0, <1>4 DEF AuditDone
  <2>3. AuditsFilled'
    BY <1>0, <1>1, <1>3, <2>1, <2>2, AuditsStayFilled DEF Filled
  <2>4. ContractsFilled'
    BY <1>0, <1>3, ContractsStayFilled DEF Filled
  <2>. QED  BY <1>1, <2>1, <2>3, <2>4 DEF Filled, RefusalHasReason, RefusedOnce
<1>5. CASE recovery' = [Raised EXCEPT !.refused = n] /\ blocked
  <2>1. recovery'.todo = {} /\ recovery'.refused = n
    BY <1>0, <1>5, RestKnown
  <2>2. \A m \in recovery.todo : m >= n
    BY <1>0, <1>1 DEF Position
  <2>3. AuditsFilled'
    BY <1>0, <1>1, <1>3, <2>1, <2>2, AuditsStayFilled DEF Filled
  <2>4. ContractsFilled'
    BY <1>0, <1>3, ContractsStayFilled DEF Filled
  <2>5. RefusalHasReason'
    <3>. SUFFICES ASSUME count'.outages = 0
                  PROVE  \/ ~run[r].encodes
                         \/ \E c \in run[r].used :
                              \A m \in 1..recovery.read["contract"] :
                                log["contract"][m] = c => Blocked(m)'
      BY <1>0, <1>3, <2>1 DEF RefusalHasReason, Blocked
    <3>1. Replay
      BY <1>0 DEF Replay
    <3>2. CASE ~run[r].encodes
      BY <3>2
    <3>3. CASE ~(run[r].used \subseteq contractRow)
      <4>1. PICK c \in run[r].used : \A m \in 1..recovery.read["contract"] :
                log["contract"][m] = c => Blocked(m)
        BY <1>0, <1>1, <3>1, <3>3, RefusedForAReason DEF Filled
      <4>2. \A m \in 1..recovery.read["contract"] : Blocked(m) => Blocked(m)'
        BY BlockedStays
      <4>. QED  BY <4>1, <4>2
    <3>. QED  BY <1>5, <3>2, <3>3
  <2>. QED  BY <1>0, <1>3, <2>1, <2>3, <2>4, <2>5 DEF Filled, RefusedOnce
<1>. QED  BY <1>2, <1>4, <1>5

(* The other steps of a recovery: a scenario, an audit recorded again, and *)
(* a replay that does not reach Postgres.                                  *)
LEMMA OtherStepsFill ==
  ASSUME Records, Filled, Next,
         \/ \E n \in Position : ReplayScenario(n) \/ Rerecord(n)
         \/ ReplayFails
  PROVE  Filled'
<1>0. TypeOK /\ "scenario" \in Type
  BY DEF Records, Type
<1>1. ASSUME NEW n \in Position, Rerecord(n)  PROVE  Filled'
  <2>1. recovery.op = "restore_ets" /\ recovery' = Rest(n) /\ recovery.type = "audit"
    BY <1>1 DEF Rerecord, Records, Known, TodoKnown
  <2>2. /\ recovery'.op = recovery.op /\ recovery'.type = "audit"
        /\ recovery'.read = recovery.read /\ recovery'.refused = recovery.refused
        /\ recovery'.todo = recovery.todo \ {n}
    BY <1>0, <2>1, RestKnown
  <2>3. RefusalHasReason'
    BY <2>2, ReasonStays DEF Filled
  <2>. QED  BY <2>1, <2>2, <2>3 DEF Filled, ContractsFilled, AuditsFilled, RefusedOnce, Replay
<1>2. ASSUME NEW n \in Position, ReplayScenario(n)  PROVE  Filled'
  <2>1. recovery.type = "scenario" /\ recovery' = Rest(n)
    BY <1>2 DEF ReplayScenario, Replaying
  <2>2. /\ recovery'.op = recovery.op /\ recovery'.type = "scenario"
        /\ recovery'.read = recovery.read /\ recovery'.refused = recovery.refused
    BY <1>0, <2>1, RestKnown
  <2>3. ContractsFilled'
    BY <2>1, <2>2, ContractsStayFilled DEF Filled
  <2>4. AuditsFilled'
    BY <2>1, <2>2, AuditsStayFilled DEF Filled
  <2>5. RefusalHasReason'
    BY <2>2, ReasonStays DEF Filled
  <2>. QED  BY <2>2, <2>3, <2>4, <2>5 DEF Filled, RefusedOnce
<1>3. CASE ReplayFails
  <2>1. count'.outages # 0
    BY <1>3, NothingIsLost
  <2>2. ContractsFilled' /\ AuditsFilled' /\ RefusalHasReason'
    BY <2>1 DEF ContractsFilled, AuditsFilled, RefusalHasReason, Replay
  <2>3. CASE recovery' = Idle
    BY <2>3, IdleIsFilled
  <2>4. CASE recovery' = Raised
    <3>1. /\ recovery'.type = recovery.type /\ recovery'.todo = {}
          /\ recovery'.refused = recovery.refused
      BY <1>0, <2>4, RestKnown
    <3>. QED  BY <2>2, <3>1 DEF Filled, RefusedOnce
  <2>5. CASE Turn("fill_gaps", "scenario", DOMAIN log["scenario"])
    <3>1. recovery'.type = "scenario"
      BY <1>0, <2>5, TurnKnown
    <3>. QED  BY <2>2, <3>1 DEF Filled, RefusedOnce
  <2>. QED  BY <1>3, <2>3, <2>4, <2>5 DEF ReplayFails
<1>. QED  BY <1>1, <1>2, <1>3

(* Tasks and writes leave what is under way alone.                         *)
LEMMA RecoveryGoesOn ==
  ASSUME \/ \E t \in tasks : RunTask(t) \/ FailTask(t)
         \/ \E c \in Contract : WritesContract(c)
         \/ \E r \in Audit : RecordsRun(r)
         \/ \E r \in Audit : EndsRun(r)
         \/ \E s \in Saved : WritesScenario(s)
  PROVE  UNCHANGED recovery
BY DEF RunTask, FailTask, WritesContract, RecordsRun, EndsRun, Ends, WritesScenario

LEMMA NextIsFilled ==
  ASSUME Records, Filled, Next
  PROVE  Filled'
<1>1. ASSUME NodeCrash  PROVE  recovery' = Idle
  BY <1>1 DEF NodeCrash
<1>2. TypeOK /\ RunsKnown
  BY DEF Records, Known
<1>. QED  BY <1>1, <1>2, RecoveryGoesOn, SameStaysFilled, IdleIsFilled, BeginIsFilled,
             NextTypeIsFilled, ReplayContractFills, ReplayAuditFills, OtherStepsFill,
             StepsSorted DEF Quiet

LEMMA FilledStutter == Filled /\ UNCHANGED vars => Filled'
<1>1. ASSUME UNCHANGED vars
      PROVE  UNCHANGED <<ident, run, log, odd, contractRow, auditRow, recovery, count>>
  BY <1>1 DEF vars, tables
<1>. QED  BY <1>1 DEF Filled, ContractsFilled, AuditsFilled, RefusalHasReason, RefusedOnce,
                      Replay, Blocked, Raises, Refused

LEMMA FilledAlways == Spec => []Filled
<1>1. Init => Filled
  BY DEF Init, Idle, Filled, ContractsFilled, AuditsFilled, RefusalHasReason, RefusedOnce,
         Replay
<1>2. Records /\ Filled /\ [Next]_vars => Filled'
  BY NextIsFilled, FilledStutter
<1>. QED  BY <1>1, <1>2, RecordsCorrect, PTL DEF Spec

(* While Postgres is reachable, a replay stores every audit it read up to  *)
(* the first it is refused.                                                *)
THEOREM ReplayFillsAudits == Spec => []AuditsFilled
<1>1. Filled => AuditsFilled
  BY DEF Filled
<1>. QED  BY <1>1, FilledAlways, PTL

(* An audit is refused only if its result has no JSON form, or it used a   *)
(* contract each of whose entries the replay had read comes at or after    *)
(* one that ends the replay of contracts (which there may be none of).     *)
THEOREM RefusalsHaveReason == Spec => []RefusalHasReason
<1>1. Filled => RefusalHasReason
  BY DEF Filled
<1>. QED  BY <1>1, FilledAlways, PTL

-----------------------------------------------------------------------------
(* RECOVERY: SCENARIOS                                                     *)

(* Some scenario has more than one row; some row is of a scenario that is  *)
(* not in the log.                                                         *)
TwoCopies == \E row, other \in scenarioRow : row # other /\ row[1] = other[1]
Stray == \E row \in scenarioRow : \A m \in DOMAIN log["scenario"] : log["scenario"][m] # row[1]

(* As many rows as entries, no two of one, none of another: each has its   *)
(* row.                                                                    *)
LEMMA EnoughRows ==
  ASSUME Records, ~(Rows < Len(log["scenario"])), ~TwoCopies, ~Stray,
         NEW n \in DOMAIN log["scenario"]
  PROVE  Copies(log["scenario"][n]) # {}
<1>. SUFFICES ASSUME Copies(log["scenario"][n]) = {}  PROVE  FALSE
  OBVIOUS
<1>. DEFINE others == DOMAIN log["scenario"] \ {n}
            of == [row \in scenarioRow |->
                     CHOOSE m \in DOMAIN log["scenario"] : log["scenario"][m] = row[1]]
<1>1. IsFiniteSet(scenarioRow)
  BY DEF Records, Known, RowsKnown
<1>2. PICK l \in Nat : l = Len(log["scenario"]) /\ DOMAIN log["scenario"] = 1..l
  BY LogLength DEF Records, Type
<1>3. IsFiniteSet(1..l) /\ Cardinality(1..l) = l
  <2>1. 1 \in Int /\ l \in Int
    OBVIOUS
  <2>2. IsFiniteSet(1..l) /\ Cardinality(1..l) = IF 1 > l THEN 0 ELSE l - 1 + 1
    BY <2>1, FS_Interval
  <2>. QED  BY <2>2
<1>4. IsFiniteSet(others) /\ Cardinality(others) = l - 1
  BY <1>2, <1>3, FS_RemoveElement
<1>5. Cardinality(scenarioRow) \in Nat /\ Cardinality(scenarioRow) >= l
  BY <1>1, <1>2, FS_CardinalityType DEF Rows
<1>6. Cardinality(others) < Cardinality(scenarioRow)
  BY <1>2, <1>4, <1>5
<1>7. \A row \in scenarioRow : /\ of[row] \in DOMAIN log["scenario"]
                               /\ log["scenario"][of[row]] = row[1]
  <2>. SUFFICES ASSUME NEW row \in scenarioRow
                PROVE  /\ of[row] \in DOMAIN log["scenario"]
                       /\ log["scenario"][of[row]] = row[1]
    OBVIOUS
  <2>1. \E m \in DOMAIN log["scenario"] : log["scenario"][m] = row[1]
    BY DEF Stray
  <2>2. of[row] = CHOOSE m \in DOMAIN log["scenario"] : log["scenario"][m] = row[1]
    OBVIOUS
  <2>. QED  BY <2>1, <2>2
<1>8. of \in [scenarioRow -> others]
  BY <1>7 DEF Copies
<1>. HIDE DEF others, of
<1>9. PICK x, y \in scenarioRow : x # y /\ of[x] = of[y]
  BY <1>1, <1>4, <1>6, <1>8, FS_PigeonHole
<1>. QED  BY <1>7, <1>9 DEF TwoCopies

(* Rows are only added, and no scenario is logged but when it is saved.    *)
LEMMA CopiesStay ==
  ASSUME Records, Next
  PROVE  /\ TwoCopies => TwoCopies'
         /\ \A n \in 1..recovery.read["scenario"] :
              /\ log'["scenario"][n] = log["scenario"][n]
              /\ Copies(log["scenario"][n]) # {} => Copies(log["scenario"][n])' # {}
<1>1. /\ scenarioRow \subseteq scenarioRow'
      /\ 1..recovery.read["scenario"] \subseteq DOMAIN log["scenario"]
      /\ \A n \in DOMAIN log["scenario"] : log'["scenario"][n] = log["scenario"][n]
  BY NothingIsLost DEF Type
<1>. QED  BY <1>1 DEF TwoCopies, Copies

LEMMA StrayStays ==
  ASSUME Records, Next, Stray
  PROVE  Stray'
<1>0. /\ TypeOK /\ LogFits /\ RunsKnown /\ RowsKnown /\ "scenario" \in Type
      /\ scenarioRow \subseteq scenarioRow' /\ count.writes \in Nat
  BY NothingIsLost, CountersType DEF Records, Known, Type
<1>1. PICK row \in scenarioRow : \A m \in DOMAIN log["scenario"] : log["scenario"][m] # row[1]
  BY DEF Stray
<1>2. row[1] \in 1..count.writes /\ row[1] \notin Saved
  BY <1>0 DEF RowsKnown, Saved, Nameless
<1>3. CASE log' = log
  BY <1>0, <1>1, <1>3 DEF Stray
<1>4. ASSUME NEW type, NEW id, Writes(type, id), type = "scenario" => id \in Saved
      PROVE  Stray'
  <2>1. \A m \in DOMAIN log'["scenario"] :
          m \in DOMAIN log["scenario"] \/ log'["scenario"][m] \in Saved
    BY <1>0, <1>4, WritesKeep
  <2>2. \A m \in DOMAIN log["scenario"] : log'["scenario"][m] = log["scenario"][m]
    BY <1>0, <1>4, WritesKeep
  <2>. QED  BY <1>0, <1>1, <1>2, <2>1, <2>2 DEF Stray
<1>5. ASSUME \/ Quiet \/ NodeCrash \/ \E r \in Audit : RecordsRun(r)
      PROVE  log' = log
  BY <1>5, QuietStep DEF NodeCrash, RecordsRun
<1>. QED  BY <1>0, <1>3, <1>4, <1>5, StepsSorted DEF WritesContract, EndsRun, WritesScenario

(* What is no gap after a recovery of scenarios.                           *)
ScenarioDone(n) ==
  \/ log["scenario"][n] = Nameless \/ Copies(log["scenario"][n]) # {}
  \/ TwoCopies \/ Stray

LEMMA ScenarioDoneStays ==
  ASSUME Records, Next, NEW n \in 1..recovery.read["scenario"], ScenarioDone(n)
  PROVE  ScenarioDone(n)'
<1>1. /\ log'["scenario"][n] = log["scenario"][n]
      /\ Copies(log["scenario"][n]) # {} => Copies(log["scenario"][n])' # {}
      /\ TwoCopies => TwoCopies'
  BY CopiesStay
<1>2. Stray => Stray'
  BY StrayStays
<1>. QED  BY <1>1, <1>2 DEF ScenarioDone, Copies

LEMMA ScenariosStayFilled ==
  ASSUME Records, ScenariosFilled, Next
  PROVE  ScenariosFilled'
<1>0. /\ TypeOK /\ RunsKnown /\ (count'.outages = 0 => count.outages = 0)
      /\ "contract" \in Type /\ "audit" \in Type /\ "scenario" \in Type
  BY NothingIsLost DEF Records, Known, Type
<1>1. ASSUME recovery'.op = recovery.op, recovery'.type = recovery.type,
             recovery'.read = recovery.read,
             \A n \in recovery.todo : recovery.type = "scenario" =>
                n \in recovery'.todo \/ ScenarioDone(n)' \/ count'.outages # 0
      PROVE  ScenariosFilled'
  <2>. SUFFICES ASSUME Replay', recovery.op = "fill_gaps", recovery.type = "scenario",
                       NEW n \in 1..recovery.read["scenario"]
                PROVE  ScenarioDone(n)' \/ n \in recovery'.todo
    BY <1>1 DEF ScenariosFilled, ScenarioDone, TwoCopies, Stray
  <2>1. Replay /\ count'.outages = 0
    BY <1>0, <1>1 DEF Replay
  <2>2. ScenarioDone(n) \/ n \in recovery.todo
    BY <2>1 DEF ScenariosFilled, ScenarioDone, TwoCopies, Stray
  <2>. QED  BY <1>1, <2>1, <2>2, ScenarioDoneStays
<1>2. CASE UNCHANGED recovery
  BY <1>1, <1>2
<1>3. ASSUME recovery'.op # "fill_gaps" \/ recovery'.type # "scenario"
      PROVE  ScenariosFilled'
  BY <1>3 DEF ScenariosFilled
<1>4. CASE NodeCrash \/ recovery' = Idle
  BY <1>3, <1>4 DEF NodeCrash, Idle
<1>5. ASSUME NEW op \in Operation, Begin(op)  PROVE  ScenariosFilled'
  <2>1. recovery'.type # "scenario"
    BY <1>0, <1>5, TurnKnown DEF Begin
  <2>. QED  BY <1>3, <2>1
<1>6. CASE NextType
  <2>1. recovery.op \in Operation /\ recovery.type \in Type
    BY <1>0, <1>6 DEF NextType, TypeOK, Recovery, Records, Known, TodoKnown
  <2>2. CASE Turn(recovery.op, "audit", ToReplay(recovery.op, "audit"))
    <3>1. recovery'.type = "audit"
      BY <1>0, <2>1, <2>2, TurnKnown
    <3>. QED  BY <1>3, <3>1
  <2>3. CASE /\ Turn(recovery.op, "scenario", ToReplay(recovery.op, "scenario"))
             /\ recovery.op = "fill_gaps"
    <3>1. /\ recovery'.todo = Missing("scenario")
          /\ recovery'.read["scenario"] = Len(log["scenario"])
      BY <1>0, <2>1, <2>3, TurnKnown DEF ToReplay
    <3>2. UNCHANGED <<log, scenarioRow>>
      BY <1>6 DEF NextType, tables
    <3>3. DOMAIN log["scenario"] = 1..Len(log["scenario"])
      BY <1>0, LogLength
    <3>4. CASE Rows < Len(log["scenario"])
      <4>1. Missing("scenario") = DOMAIN log["scenario"]
        BY <3>4 DEF Missing
      <4>. QED  BY <3>1, <3>3, <4>1 DEF ScenariosFilled
    <3>5. CASE ~(Rows < Len(log["scenario"])) /\ ~TwoCopies /\ ~Stray
      <4>1. \A n \in DOMAIN log["scenario"] : Copies(log["scenario"][n]) # {}
        BY <3>5, EnoughRows
      <4>. QED  BY <3>1, <3>2, <3>3, <4>1 DEF ScenariosFilled, Copies
    <3>6. CASE TwoCopies \/ Stray
      BY <3>2, <3>6 DEF ScenariosFilled, TwoCopies, Stray
    <3>. QED  BY <3>4, <3>5, <3>6
  <2>4. CASE /\ Turn(recovery.op, "scenario", ToReplay(recovery.op, "scenario"))
             /\ recovery.op # "fill_gaps"
    <3>1. recovery'.op # "fill_gaps"
      BY <1>0, <2>1, <2>4, TurnKnown
    <3>. QED  BY <1>3, <3>1
  <2>5. NextOf(recovery.type) \in {"audit", "scenario"}
    BY <2>1, NextOfType
  <2>. QED  BY <1>4, <1>6, <2>2, <2>3, <2>4, <2>5 DEF NextType
<1>7. ASSUME NEW n \in Position, ReplayContract(n) \/ ReplayAudit(n) \/ Rerecord(n)
      PROVE  ScenariosFilled'
  <2>1. /\ recovery.type # "scenario"
        /\ \/ recovery' = Rest(n) \/ recovery' = Raised
           \/ recovery' = [Raised EXCEPT !.refused = n]
    BY <1>7 DEF ReplayContract, ReplayAudit, Rerecord, Replaying, Records, Known, TodoKnown
  <2>2. recovery'.type = recovery.type
    <3>1. CASE recovery' = Rest(n)
      BY <1>0, <3>1, RestKnown
    <3>2. CASE recovery' = Raised
      BY <1>0, <3>2, RestKnown
    <3>3. CASE recovery' = [Raised EXCEPT !.refused = n]
      BY <1>0, <3>3, RestKnown
    <3>. QED  BY <2>1, <3>1, <3>2, <3>3
  <2>. QED  BY <1>3, <2>1, <2>2
<1>8. ASSUME NEW n \in Position, ReplayScenario(n)  PROVE  ScenariosFilled'
  <2>1. recovery' = Rest(n) /\ InsertScenario(log["scenario"][n]) /\ log' = log
    BY <1>8 DEF ReplayScenario
  <2>2. /\ recovery'.op = recovery.op /\ recovery'.type = recovery.type
        /\ recovery'.read = recovery.read /\ recovery'.todo = recovery.todo \ {n}
    BY <1>0, <2>1, RestKnown
  <2>3. log["scenario"][n] = Nameless \/ Copies(log["scenario"][n])' # {}
    <3>1. PICK row : row = <<log["scenario"][n], Cardinality(Copies(log["scenario"][n])) + 1>>
      OBVIOUS
    <3>2. row[1] = log["scenario"][n]
      BY <3>1
    <3>3. log["scenario"][n] = Nameless \/ row \in scenarioRow'
      BY <2>1, <3>1 DEF InsertScenario
    <3>. QED  BY <2>1, <3>2, <3>3 DEF Copies
  <2>4. ScenarioDone(n)'
    BY <2>1, <2>3 DEF ScenarioDone, Copies
  <2>. QED  BY <1>1, <2>2, <2>4
<1>9. CASE ReplayFails
  <2>1. count'.outages # 0
    BY <1>9, NothingIsLost
  <2>. QED  BY <2>1 DEF ScenariosFilled, Replay
<1>. QED  BY <1>0, <1>2, <1>4, <1>5, <1>6, <1>7, <1>8, <1>9, RecoveryGoesOn, StepsSorted
          DEF Quiet

LEMMA ScenariosFilledStutter == ScenariosFilled /\ UNCHANGED vars => ScenariosFilled'
<1>1. ASSUME UNCHANGED vars  PROVE  UNCHANGED <<log, scenarioRow, recovery, count>>
  BY <1>1 DEF vars, tables
<1>. QED  BY <1>1 DEF ScenariosFilled, Replay, Copies

(* fill_gaps leaves no scenario it read without a row, unless its name is  *)
(* blank, some scenario has two rows, or a row is of one the log failed to *)
(* take: comparing numbers is enough but for these.                        *)
THEOREM FillGapsFillsScenarios == Spec => []ScenariosFilled
<1>1. Init => ScenariosFilled
  BY DEF Init, Idle, ScenariosFilled, Replay
<1>2. Records /\ ScenariosFilled /\ [Next]_vars => ScenariosFilled'
  BY ScenariosStayFilled, ScenariosFilledStutter
<1>. QED  BY <1>1, <1>2, RecordsCorrect, PTL DEF Spec
=============================================================================
