-------------------------- MODULE SolvePipelineProofs --------------------------
(***************************************************************************)
(* Proofs about SolvePipeline, for any dashboards and number of runs.      *)
(* What a dashboard shows or waits for depends on what is in its mailbox,  *)
(* so that the invariant is about messages: one that announces a result    *)
(* tells of an audited run, and a dashboard that solves has a message that *)
(* ends this, or a run that will send it one.                              *)
(***************************************************************************)
EXTENDS SolvePipeline, FiniteSetTheorems, TLAPS

(* The message x is in the mailbox of d.                                   *)
Holds(d, x) == \E n \in DOMAIN dash[d].mailbox : dash[d].mailbox[n] = x

(* What the announcement x of a result says is so.                         *)
Told(x) == x.run \in Run /\ run[x.run].ref = x.ref /\ audits[x.run] = "result"

(* A dashboard that takes x does not solve afterwards, or starts a run.    *)
Ends(x) == x.kind \in {"do_solve", "solve_done", "task"} \/ x.ref # "auto_runner"

(* Runs are numbered in the order they are started.                        *)
Numbered == \E k \in 0..MaxRun : {r \in Run : run[r].is # "none"} = 1..k

AuditsMatch ==
  \A r \in Run :
    /\ audits[r] # "none" =>
         run[r].is \in {"audited", "error_audited", "returns", "ended", "died"}
    /\ run[r].is = "audited" => audits[r] = "result"

(* What a scenario holds came from a dashboard.                            *)
SavedIsAudited ==
  \A r \in saved : run[r].ref = "trader_solve" /\ audits[r] = "result"

DoneIsAudited ==
  \A d \in Dashboard : \A x \in Message :
    Holds(d, x) /\ x.kind = "solve_done" => Told(x)

Awaits(d) ==
  \/ \E x \in Message : Holds(d, x) /\ Ends(x)
  \/ \E r \in Run : run[r].by = d /\ run[r].listens /\ Alive(r)

SolvingWillEnd == \A d \in Dashboard : dash[d].solving => Awaits(d)

IInv ==
  /\ TypeOK /\ Numbered /\ AuditsMatch
  /\ ShownIsAudited /\ SavedIsAudited /\ DoneIsAudited /\ SolvingWillEnd

-----------------------------------------------------------------------------
(* What sending and taking a message do to a dashboard.                    *)

Sends(d, m) == dash'[d] = [dash[d] EXCEPT !.mailbox = Append(@, m)]
Takes(d) == dash'[d].mailbox = Tail(dash[d].mailbox)

LEMMA SendKeeps ==
  ASSUME NEW d \in Dashboard, NEW m \in Message, dash[d] \in DashState, Sends(d, m)
  PROVE  /\ dash'[d] \in DashState
         /\ dash'[d].solving = dash[d].solving /\ dash'[d].shown = dash[d].shown
         /\ Holds(d, m)'
         /\ \A x : Holds(d, x) => Holds(d, x)'
         /\ \A x : Holds(d, x)' => Holds(d, x) \/ x = m
<1>. DEFINE box == dash[d].mailbox
            new == dash'[d].mailbox
<1>1. /\ dash'[d] \in DashState /\ new = Append(box, m)
      /\ dash'[d].solving = dash[d].solving /\ dash'[d].shown = dash[d].shown
  <2>1. PICK a \in BOOLEAN, b \in [TraderRef -> 0..MaxRun], c \in Seq(Message) :
          dash[d] = [solving |-> a, shown |-> b, mailbox |-> c]
    BY DEF DashState
  <2>2. dash'[d] = [solving |-> a, shown |-> b, mailbox |-> Append(c, m)]
    <3>1. dash'[d] = [[solving |-> a, shown |-> b, mailbox |-> c] EXCEPT !.mailbox = Append(c, m)]
      BY <2>1 DEF Sends
    <3>. QED  BY <3>1
  <2>3. Append(c, m) \in Seq(Message)
    OBVIOUS
  <2>. QED  BY <2>1, <2>2, <2>3 DEF DashState
<1>2. /\ box \in Seq(Message) /\ DOMAIN box = 1..Len(box) /\ Len(box) \in Nat
      /\ DOMAIN new = 1..(Len(box) + 1) /\ new[Len(box) + 1] = m
      /\ \A n \in DOMAIN box : new[n] = box[n]
  BY <1>1 DEF DashState
<1>3. Len(box) + 1 \in DOMAIN new /\ DOMAIN box \subseteq DOMAIN new
  BY <1>2
<1>4. \A n \in DOMAIN new : n \in DOMAIN box \/ n = Len(box) + 1
  BY <1>2
<1>5. Holds(d, m)'
  BY <1>2, <1>3 DEF Holds
<1>6. ASSUME NEW x, Holds(d, x) PROVE Holds(d, x)'
  BY <1>2, <1>3, <1>6 DEF Holds
<1>7. ASSUME NEW x, Holds(d, x)' PROVE Holds(d, x) \/ x = m
  BY <1>2, <1>4, <1>7 DEF Holds
<1>. QED  BY <1>1, <1>5, <1>6, <1>7

LEMMA TakeKeeps ==
  ASSUME NEW d \in Dashboard, dash[d] \in DashState, dash[d].mailbox # <<>>, Takes(d)
  PROVE  /\ Head(dash[d].mailbox) \in Message /\ Holds(d, Head(dash[d].mailbox))
         /\ Tail(dash[d].mailbox) \in Seq(Message)
         /\ \A x : Holds(d, x)' => Holds(d, x)
         /\ \A x : Holds(d, x) => Holds(d, x)' \/ x = Head(dash[d].mailbox)
<1>. DEFINE box == dash[d].mailbox
            new == dash'[d].mailbox
<1>1. box \in Seq(Message) /\ box # <<>> /\ new = Tail(box)
  BY DEF Takes, DashState
<1>. HIDE DEF box, new
<1>2. /\ DOMAIN box = 1..Len(box) /\ Len(box) \in Nat \ {0}
      /\ DOMAIN new = 1..(Len(box) - 1) /\ new \in Seq(Message)
      /\ \A n \in DOMAIN new : n + 1 \in DOMAIN box /\ new[n] = box[n + 1]
      /\ Head(box) = box[1] /\ 1 \in DOMAIN box /\ box[1] \in Message
  BY <1>1
<1>3. \A n \in DOMAIN box : n = 1 \/ (n - 1 \in DOMAIN new /\ new[n - 1] = box[n])
  BY <1>2
<1>4. ASSUME NEW x, Holds(d, x)' PROVE Holds(d, x)
  BY <1>2, <1>4 DEF Holds, box, new
<1>5. ASSUME NEW x, Holds(d, x) PROVE Holds(d, x)' \/ x = Head(box)
  <2>1. PICK n \in DOMAIN box : box[n] = x
    BY <1>5 DEF Holds, box
  <2>2. CASE n = 1
    BY <1>2, <2>1, <2>2
  <2>3. CASE n # 1
    BY <1>3, <2>1, <2>3 DEF Holds, new
  <2>. QED  BY <2>2, <2>3
<1>6. Holds(d, Head(box))
  BY <1>2 DEF Holds, box
<1>. QED  BY <1>1, <1>2, <1>4, <1>5, <1>6 DEF box

(* The number of a new run is not taken.                                   *)
LEMMA NextIsNew ==
  ASSUME Numbered, NextRun \in Run
  PROVE  /\ run[NextRun].is = "none"
         /\ \E k \in 0..(MaxRun - 1) :
              {r \in Run : run[r].is # "none"} = 1..k /\ NextRun = k + 1
<1>1. PICK k \in 0..MaxRun : {r \in Run : run[r].is # "none"} = 1..k
  BY DEF Numbered
<1>2. k \in Nat /\ MaxRun \in Nat
  BY PipelineAssumption
<1>3. Cardinality(1..k) = k
  BY <1>2, FS_Interval
<1>4. NextRun = k + 1
  BY <1>1, <1>3 DEF NextRun
<1>5. k + 1 \notin 1..k /\ k \in 0..(MaxRun - 1)
  BY <1>2, <1>4 DEF Run
<1>. QED  BY <1>1, <1>4, <1>5

-----------------------------------------------------------------------------

LEMMA InitIInv == Init => IInv
<1>. SUFFICES ASSUME Init PROVE IInv
  OBVIOUS
<1>0. MaxRun \in Nat
  BY PipelineAssumption
<1>1. Mounted \in DashState
  BY <1>0 DEF Mounted, DashState
<1>2. NoRun \in RunState
  BY DEF NoRun, RunState, Phase, CallerRef, TraderRef
<1>3. TypeOK
  BY <1>0, <1>1, <1>2 DEF Init, TypeOK
<1>4. Numbered
  <2>1. {r \in Run : run[r].is # "none"} = 1..0
    BY DEF Init, NoRun
  <2>. QED  BY <1>0, <2>1 DEF Numbered
<1>5. AuditsMatch
  BY DEF Init, AuditsMatch, NoRun
<1>6. ShownIsAudited
  BY DEF Init, ShownIsAudited, Mounted
<1>7. DoneIsAudited
  BY DEF Init, DoneIsAudited, Holds, Mounted
<1>8. SolvingWillEnd
  BY DEF Init, SolvingWillEnd, Mounted
<1>9. SavedIsAudited
  BY DEF Init, SavedIsAudited
<1>. QED  BY <1>3, <1>4, <1>5, <1>6, <1>7, <1>8, <1>9 DEF IInv

-----------------------------------------------------------------------------
(* A run's step moves the run on, records nothing else than its audit, and *)
(* sends a dashboard at most one message, which is true; a run that ends   *)
(* sends one to the dashboard that waits for it.                           *)

Moves(r, from, to) ==
  /\ run[r].is = from /\ run'[r].is = to
  /\ run' \in [Run -> RunState]
  /\ run'[r].ref = run[r].ref /\ run'[r].by = run[r].by /\ run'[r].listens = run[r].listens
  /\ \A q \in Run \ {r} : run'[q] = run[q]

LEMMA StepsMoves ==
  ASSUME run \in [Run -> RunState], NEW r \in Run, NEW from, NEW to \in Phase,
         Steps(r, from, to)
  PROVE  Moves(r, from, to)
<1>1. PICK i \in Phase, f \in CallerRef, b \in Dashboard \cup {"auto_runner"},
           l \in BOOLEAN, s \in BOOLEAN :
        run[r] = [is |-> i, ref |-> f, by |-> b, listens |-> l, stale |-> s]
  BY DEF RunState
<1>2. run'[r] = [is |-> to, ref |-> f, by |-> b, listens |-> l, stale |-> s]
  <2>1. run'[r] = [run[r] EXCEPT !.is = to]
    BY DEF Steps
  <2>2. run'[r] = [[is |-> i, ref |-> f, by |-> b, listens |-> l, stale |-> s] EXCEPT !.is = to]
    BY <1>1, <2>1
  <2>. QED  BY <2>2
<1>3. /\ run' = [q \in Run |-> IF q = r THEN run'[r] ELSE run[q]]
      /\ run'[r] \in RunState
  BY <1>2 DEF Steps, RunState
<1>4. run' \in [Run -> RunState] /\ \A q \in Run \ {r} : run'[q] = run[q]
  BY <1>3
<1>. QED  BY <1>1, <1>2, <1>4 DEF Moves, Steps

LEMMA StaleMoves ==
  ASSUME run \in [Run -> RunState], NEW r \in Run, NEW from,
         run[r].is = from,
         run' = [run EXCEPT ![r].is = "solving", ![r].stale = TRUE]
  PROVE  Moves(r, from, "solving")
<1>1. PICK i \in Phase, f \in CallerRef, b \in Dashboard \cup {"auto_runner"},
           l \in BOOLEAN, s \in BOOLEAN :
        run[r] = [is |-> i, ref |-> f, by |-> b, listens |-> l, stale |-> s]
  BY DEF RunState
<1>2. run'[r] = [is |-> "solving", ref |-> f, by |-> b, listens |-> l, stale |-> TRUE]
  <2>1. run'[r] = [run[r] EXCEPT !.is = "solving", !.stale = TRUE]
    OBVIOUS
  <2>2. run'[r] = [[is |-> i, ref |-> f, by |-> b, listens |-> l, stale |-> s]
                     EXCEPT !.is = "solving", !.stale = TRUE]
    BY <1>1, <2>1
  <2>. QED  BY <2>2
<1>3. /\ run' = [q \in Run |-> IF q = r THEN run'[r] ELSE run[q]]
      /\ run'[r] \in RunState
  BY <1>2 DEF RunState, Phase
<1>4. run' \in [Run -> RunState] /\ \A q \in Run \ {r} : run'[q] = run[q]
  BY <1>3
<1>. QED  BY <1>1, <1>2, <1>4 DEF Moves

Ended == {"ended", "died"}

Effect(r) ==
  /\ \E from \in Phase \ ({"none"} \cup Ended), to \in Phase \ {"none"} :
       /\ Moves(r, from, to)
       /\ \/ to \notin Ended
          \/ run[r].listens /\ run[r].by \in Dashboard =>
               \E m \in Message : Sends(run[r].by, m) /\ Ends(m)
  /\ audits' \in [Run -> {"none", "result", "error"}]
  /\ \A q \in Run : audits[q] = "result" => audits'[q] = "result"
  /\ AuditsMatch'
  /\ dash' = [d \in Dashboard |-> dash'[d]]
  /\ \A d \in Dashboard :
       \/ dash'[d] = dash[d]
       \/ \E m \in Message : Sends(d, m) /\ (m.kind = "solve_done" => Told(m)')
  /\ saved' = saved /\ asked' = asked

LEMMA QuietEffect ==
  ASSUME IInv, NEW r \in Run, UNCHANGED <<dash, audits, saved, asked>>,
         NEW from \in {"checking", "ingesting", "ready", "solving"},
         NEW to \in {"ingesting", "ready", "solving", "solved", "failed"},
         Moves(r, from, to)
  PROVE  Effect(r)
<1>1. AuditsMatch'
  BY DEF IInv, AuditsMatch, Moves
<1>2. from \in Phase \ ({"none"} \cup Ended) /\ to \in Phase \ ({"none"} \cup Ended)
  BY DEF Phase, Ended
<1>. QED  BY <1>1, <1>2 DEF Effect, IInv, TypeOK

LEMMA RecordEffect ==
  ASSUME IInv, NEW r \in Run, WriteAudit(r), UNCHANGED <<saved, asked>>
  PROVE  Effect(r)
<1>1. /\ run \in [Run -> RunState] /\ dash \in [Dashboard -> DashState]
      /\ audits \in [Run -> {"none", "result", "error"}] /\ AuditsMatch
  BY DEF IInv, TypeOK
<1>2. PICK from \in {"solved", "failed"}, to \in {"audited", "error_audited"} :
        /\ Moves(r, from, to)
        /\ audits' = [audits EXCEPT ![r] = IF to = "audited" THEN "result" ELSE "error"]
  <2>1. {"audited", "error_audited"} \subseteq Phase
    BY DEF Phase
  <2>. QED  BY <1>1, <2>1, StepsMoves DEF WriteAudit, Record
<1>3. audits[r] = "none"
  BY <1>1, <1>2 DEF AuditsMatch, Moves
<1>4. AuditsMatch'
  BY <1>1, <1>2 DEF AuditsMatch, Moves
<1>5. from \in Phase \ ({"none"} \cup Ended) /\ to \in Phase \ ({"none"} \cup Ended)
  BY DEF Phase, Ended
<1>6. dash' = dash
  BY DEF WriteAudit
<1>7. /\ audits' \in [Run -> {"none", "result", "error"}]
      /\ \A q \in Run : audits[q] = "result" => audits'[q] = "result"
  BY <1>1, <1>2, <1>3
<1>8. \E f \in Phase \ ({"none"} \cup Ended), t \in Phase \ {"none"} :
        Moves(r, f, t) /\ t \notin Ended
  BY <1>2, <1>5
<1>. QED  BY <1>1, <1>4, <1>6, <1>7, <1>8 DEF Effect

(* Broadcasts: the audit is there before the result is announced.          *)
LEMMA BroadcastEffect ==
  ASSUME IInv, NEW r \in Run, BroadcastDone(r) \/ BroadcastError(r), UNCHANGED <<saved, asked>>
  PROVE  Effect(r)
<1>1. /\ run \in [Run -> RunState] /\ dash \in [Dashboard -> DashState]
      /\ audits \in [Run -> {"none", "result", "error"}] /\ AuditsMatch
      /\ run[r].ref \in CallerRef
  BY DEF IInv, TypeOK, RunState
<1>2. PICK from \in {"audited", "error_audited"} :
        Moves(r, from, "returns") /\ (BroadcastDone(r) => from = "audited")
  <2>1. "returns" \in Phase
    BY DEF Phase
  <2>. QED  BY <1>1, <2>1, StepsMoves DEF BroadcastDone, BroadcastError, Moves
<1>3. audits' = audits
  BY DEF BroadcastDone, BroadcastError
<1>4. AuditsMatch'
  BY <1>1, <1>2, <1>3 DEF AuditsMatch, Moves
<1>5. from \in Phase \ ({"none"} \cup Ended) /\ "returns" \in Phase \ ({"none"} \cup Ended)
  BY DEF Phase, Ended
<1>6. ASSUME NEW m \in Message, m.kind = "solve_done" => Told(m)', Broadcast(m)
      PROVE  /\ dash' = [d \in Dashboard |-> dash'[d]]
             /\ \A d \in Dashboard : Sends(d, m) /\ (m.kind = "solve_done" => Told(m)')
  BY <1>6 DEF Broadcast, Sends
<1>e. \E f \in Phase \ ({"none"} \cup Ended), t \in Phase \ {"none"} :
        Moves(r, f, t) /\ t \notin Ended
  BY <1>2, <1>5
<1>7. CASE dash' = dash
  BY <1>1, <1>3, <1>4, <1>7, <1>e DEF Effect
<1>8. CASE /\ BroadcastDone(r) /\ run[r].ref \in TraderRef
           /\ Broadcast([kind |-> "solve_done", ref |-> run[r].ref, run |-> r])
  <2>. PICK f \in TraderRef : f = run[r].ref
    BY <1>8
  <2>. DEFINE m == [kind |-> "solve_done", ref |-> f, run |-> r]
  <2>1. m \in Message
    BY <1>8, PipelineAssumption DEF Message, Run
  <2>2. Told(m)'
    BY <1>1, <1>2, <1>3, <1>8 DEF Told, Moves, AuditsMatch
  <2>3. /\ dash' = [d \in Dashboard |-> dash'[d]]
        /\ \A d \in Dashboard : Sends(d, m) /\ (m.kind = "solve_done" => Told(m)')
    BY <1>6, <1>8, <2>1, <2>2
  <2>. HIDE DEF m
  <2>. QED  BY <1>1, <1>3, <1>4, <1>e, <2>1, <2>3 DEF Effect
<1>9. CASE Broadcast([kind |-> "pipeline_error", ref |-> run[r].ref, run |-> r])
  <2>. DEFINE m == [kind |-> "pipeline_error", ref |-> run[r].ref, run |-> r]
  <2>1. m \in Message /\ m.kind # "solve_done"
    BY <1>1 DEF Message
  <2>2. /\ dash' = [d \in Dashboard |-> dash'[d]]
        /\ \A d \in Dashboard : Sends(d, m) /\ (m.kind = "solve_done" => Told(m)')
    BY <1>6, <1>9, <2>1
  <2>. HIDE DEF m
  <2>. QED  BY <1>1, <1>3, <1>4, <1>e, <2>1, <2>2 DEF Effect
<1>. QED  BY <1>7, <1>8, <1>9 DEF BroadcastDone, BroadcastError

(* The end of a run, which its dashboard is told of while it listens.      *)
LEMMA EndEffect ==
  ASSUME IInv, NEW r \in Run, Return(r) \/ CallExits(r), UNCHANGED <<saved, asked>>
  PROVE  Effect(r)
<1>1. /\ run \in [Run -> RunState] /\ dash \in [Dashboard -> DashState]
      /\ audits \in [Run -> {"none", "result", "error"}] /\ AuditsMatch
      /\ run[r].ref \in CallerRef
  BY DEF IInv, TypeOK, RunState
<1>2. PICK from \in {"checking", "ingesting", "ready", "solving", "solved", "failed", "returns"},
           to \in Ended :
        Moves(r, from, to) /\ (from = "returns" <=> to = "ended")
  <2>1. Ended \subseteq Phase
    BY DEF Phase, Ended
  <2>. QED  BY <1>1, <2>1, StepsMoves DEF Return, CallExits, Ended
<1>3. TellOwner(r)
  BY DEF Return, CallExits
<1>a. \/ audits' = audits
      \/ /\ from # "returns"
         /\ \E status \in {"result", "error"} : audits' = [audits EXCEPT ![r] = status]
  <2>1. CASE Return(r)
    BY <2>1 DEF Return
  <2>2. CASE CallExits(r)
    BY <1>2, <2>2 DEF CallExits, Record, Moves, Steps
  <2>. QED  BY <2>1, <2>2
<1>b. from \notin {"audited", "error_audited", "ended", "died"}
  OBVIOUS
<1>c. from # "returns" => audits[r] = "none" /\ to = "died"
  BY <1>1, <1>2 DEF AuditsMatch, Moves, Ended
<1>4. AuditsMatch'
  BY <1>1, <1>2, <1>a, <1>c DEF AuditsMatch, Moves, Ended
<1>d. /\ audits' \in [Run -> {"none", "result", "error"}]
      /\ \A q \in Run : audits[q] = "result" => audits'[q] = "result"
  BY <1>1, <1>a, <1>c
<1>5. from \in Phase \ ({"none"} \cup Ended) /\ to \in Phase \ {"none"}
  BY DEF Phase, Ended
<1>. DEFINE m == [kind |-> "task", ref |-> run[r].ref, run |-> r]
<1>6. m \in Message /\ m.kind # "solve_done" /\ Ends(m)
  BY <1>1 DEF Message, Ends
<1>. HIDE DEF m
<1>7. /\ dash' = [d \in Dashboard |-> dash'[d]]
      /\ \A d \in Dashboard : dash'[d] = dash[d] \/ Sends(d, m)
      /\ run[r].listens /\ run[r].by \in Dashboard => Sends(run[r].by, m)
  BY <1>1, <1>3 DEF TellOwner, Sends, m
<1>8. \A d \in Dashboard :
        \/ dash'[d] = dash[d]
        \/ \E x \in Message : Sends(d, x) /\ (x.kind = "solve_done" => Told(x)')
  BY <1>6, <1>7
<1>9. \E f \in Phase \ ({"none"} \cup Ended), t \in Phase \ {"none"} :
        /\ Moves(r, f, t)
        /\ \/ t \notin Ended
           \/ run[r].listens /\ run[r].by \in Dashboard =>
                \E x \in Message : Sends(run[r].by, x) /\ Ends(x)
  BY <1>2, <1>5, <1>6, <1>7
<1>. QED  BY <1>4, <1>7, <1>8, <1>9, <1>d DEF Effect

LEMMA RunStepEffect ==
  ASSUME IInv, NEW r \in Run, RunStep(r)
  PROVE  Effect(r)
<1>1. run \in [Run -> RunState] /\ saved' = saved /\ asked' = asked
  BY DEF IInv, TypeOK, RunStep
<1>2. {"ingesting", "ready", "solving", "solved", "failed"} \subseteq Phase
  BY DEF Phase
<1>3. ASSUME Check(r) \/ IngestChanges(r) \/ StartSolve(r) \/ Solved(r)
      PROVE  /\ UNCHANGED <<dash, audits>>
             /\ \E from \in {"checking", "ingesting", "ready", "solving"},
                   to \in {"ingesting", "ready", "solving", "solved", "failed"} :
                  Moves(r, from, to)
  BY <1>1, <1>2, <1>3, StepsMoves, StaleMoves DEF Check, IngestChanges, StartSolve, Solved
<1>4. CASE Check(r) \/ IngestChanges(r) \/ StartSolve(r) \/ Solved(r)
  BY <1>1, <1>3, <1>4, QuietEffect
<1>5. CASE WriteAudit(r)
  BY <1>1, <1>5, RecordEffect
<1>6. CASE BroadcastDone(r) \/ BroadcastError(r)
  BY <1>1, <1>6, BroadcastEffect
<1>7. CASE Return(r) \/ CallExits(r)
  BY <1>1, <1>7, EndEffect
<1>. QED  BY <1>4, <1>5, <1>6, <1>7 DEF RunStep

LEMMA EffectKeeps ==
  ASSUME IInv, NEW r \in Run, Effect(r)
  PROVE  IInv'
<1>1. /\ run \in [Run -> RunState] /\ dash \in [Dashboard -> DashState]
      /\ audits \in [Run -> {"none", "result", "error"}]
      /\ Numbered /\ ShownIsAudited /\ SavedIsAudited /\ DoneIsAudited /\ SolvingWillEnd
      /\ saved \subseteq Run /\ asked \in 0..MaxRun
  BY DEF IInv, TypeOK
<1>2. PICK from \in Phase \ ({"none"} \cup Ended), to \in Phase \ {"none"} :
        /\ Moves(r, from, to)
        /\ \/ to \notin Ended
           \/ run[r].listens /\ run[r].by \in Dashboard =>
                \E m \in Message : Sends(run[r].by, m) /\ Ends(m)
  BY DEF Effect
<1>3. \A q \in Run : /\ run'[q].ref = run[q].ref /\ run'[q].by = run[q].by
                     /\ run'[q].listens = run[q].listens
                     /\ run'[q].is = "none" <=> run[q].is = "none"
                     /\ q # r => run'[q].is = run[q].is
  BY <1>2 DEF Moves
<1>4. \A d \in Dashboard :
        /\ dash'[d] \in DashState
        /\ dash'[d].solving = dash[d].solving /\ dash'[d].shown = dash[d].shown
        /\ \A x \in Message : Holds(d, x) => Holds(d, x)'
        /\ \A x \in Message : Holds(d, x)' =>
             Holds(d, x) \/ (x.kind = "solve_done" => Told(x)')
  <2>. SUFFICES ASSUME NEW d \in Dashboard
                PROVE  /\ dash'[d] \in DashState
                       /\ dash'[d].solving = dash[d].solving /\ dash'[d].shown = dash[d].shown
                       /\ \A x \in Message : Holds(d, x) => Holds(d, x)'
                       /\ \A x \in Message : Holds(d, x)' =>
                            Holds(d, x) \/ (x.kind = "solve_done" => Told(x)')
    OBVIOUS
  <2>1. CASE dash'[d] = dash[d]
    BY <1>1, <2>1 DEF Holds
  <2>2. ASSUME NEW m \in Message, Sends(d, m), m.kind = "solve_done" => Told(m)'
        PROVE  /\ dash'[d] \in DashState
               /\ dash'[d].solving = dash[d].solving /\ dash'[d].shown = dash[d].shown
               /\ \A x \in Message : Holds(d, x) => Holds(d, x)'
               /\ \A x \in Message : Holds(d, x)' =>
                    Holds(d, x) \/ (x.kind = "solve_done" => Told(x)')
    BY <1>1, <2>2, SendKeeps
  <2>. QED  BY <2>1, <2>2 DEF Effect
<1>5. TypeOK'
  <2>1. /\ run' \in [Run -> RunState] /\ audits' \in [Run -> {"none", "result", "error"}]
        /\ saved' \subseteq Run /\ asked' \in 0..MaxRun
    BY <1>1, <1>2 DEF Moves, Effect
  <2>2. dash' = [d \in Dashboard |-> dash'[d]]
    BY DEF Effect
  <2>3. dash' \in [Dashboard -> DashState]
    BY <1>4, <2>2
  <2>. QED  BY <2>1, <2>3 DEF TypeOK
<1>6. Numbered'
  <2>1. {q \in Run : run'[q].is # "none"} = {q \in Run : run[q].is # "none"}
    BY <1>3
  <2>. QED  BY <1>1, <2>1 DEF Numbered
<1>7. AuditsMatch'
  BY DEF Effect
<1>8. ShownIsAudited'
  <2>1. \A d \in Dashboard, f \in TraderRef : dash[d].shown[f] \in 0..MaxRun
    BY <1>1 DEF DashState
  <2>2. ASSUME NEW d \in Dashboard, NEW f \in TraderRef, dash'[d].shown[f] # 0
        PROVE  /\ run'[dash'[d].shown[f]].ref = f
               /\ audits'[dash'[d].shown[f]] = "result"
    <3>1. dash'[d].shown[f] = dash[d].shown[f] /\ dash[d].shown[f] \in Run
      BY <1>4, <2>1, <2>2, PipelineAssumption DEF Run
    <3>. QED  BY <1>1, <1>3, <2>2, <3>1 DEF ShownIsAudited, Effect
  <2>. QED  BY <2>2 DEF ShownIsAudited
<1>9. DoneIsAudited'
  <2>1. \A x \in Message : Told(x) => Told(x)'
    BY <1>3 DEF Told, Effect
  <2>. QED  BY <1>1, <1>4, <2>1 DEF DoneIsAudited
<1>10. SolvingWillEnd'
  <2>. SUFFICES ASSUME NEW d \in Dashboard, dash'[d].solving PROVE Awaits(d)'
    BY DEF SolvingWillEnd
  <2>1. Awaits(d)
    BY <1>1, <1>4 DEF SolvingWillEnd
  <2>2. CASE \E x \in Message : Holds(d, x) /\ Ends(x)
    BY <1>4, <2>2 DEF Awaits, Ends
  <2>3. ASSUME NEW q \in Run, run[q].by = d, run[q].listens, Alive(q)
        PROVE  Awaits(d)'
    <3>1. CASE q # r \/ to \notin Ended
      <4>1. run'[q].is = run[q].is \/ run'[q].is = to
        BY <1>2, <1>3 DEF Moves
      <4>2. Alive(q)'
        BY <1>2, <1>3, <2>3, <3>1, <4>1 DEF Alive, Ended, Moves
      <4>. QED  BY <1>3, <2>3, <4>2 DEF Awaits
    <3>2. CASE q = r /\ to \in Ended
      <4>1. PICK m \in Message : Sends(d, m) /\ Ends(m)
        BY <1>2, <2>3, <3>2
      <4>2. Holds(d, m)'
        BY <1>1, <4>1, SendKeeps
      <4>. QED  BY <4>1, <4>2 DEF Awaits, Ends
    <3>. QED  BY <3>1, <3>2
  <2>. QED  BY <2>1, <2>2, <2>3 DEF Awaits
<1>11. SavedIsAudited'
  BY <1>1, <1>3 DEF SavedIsAudited, Effect
<1>. QED  BY <1>5, <1>6, <1>7, <1>8, <1>9, <1>10, <1>11 DEF IInv

-----------------------------------------------------------------------------
(* A dashboard's step changes itself only, takes or requests messages, and *)
(* starts a run under a new number or leaves the runs alone.               *)

RunsKept(d) ==
  \A q \in Run : run[q].is # "none" =>
    /\ run'[q].is = run[q].is /\ run'[q].ref = run[q].ref /\ run'[q].by = run[q].by
    /\ run[q].by # d => run'[q].listens = run[q].listens

ShownOf(shown) ==
  \A f \in TraderRef : shown[f] # 0 => run[shown[f]].ref = f /\ audits[shown[f]] = "result"

LEMMA DashboardKeeps ==
  ASSUME IInv, NEW d \in Dashboard, NEW new \in DashState,
         dash' = [dash EXCEPT ![d] = new], audits' = audits, asked' \in 0..MaxRun,
         saved' = saved,
         run' \in [Run -> RunState], Numbered', AuditsMatch', RunsKept(d),
         ShownOf(new.shown),
         \A x \in Message : Holds(d, x)' => x.kind = "do_solve" \/ Holds(d, x),
         new.solving => Awaits(d)'
  PROVE  IInv'
<1>1. /\ run \in [Run -> RunState] /\ dash \in [Dashboard -> DashState]
      /\ audits \in [Run -> {"none", "result", "error"}] /\ AuditsMatch
      /\ ShownIsAudited /\ SavedIsAudited /\ DoneIsAudited /\ SolvingWillEnd
      /\ saved \subseteq Run
  BY DEF IInv, TypeOK
<1>2. dash'[d] = new /\ \A e \in Dashboard \ {d} : dash'[e] = dash[e]
  BY <1>1
<1>3. TypeOK'
  BY <1>1 DEF TypeOK
<1>4. \A q \in Run : audits[q] = "result" =>
        run'[q].ref = run[q].ref /\ audits'[q] = "result"
  <2>1. \A q \in Run : audits[q] = "result" => run[q].is # "none"
    BY <1>1 DEF AuditsMatch
  <2>. QED  BY <2>1 DEF RunsKept
<1>5. ShownIsAudited'
  <2>1. ASSUME NEW e \in Dashboard PROVE dash'[e] \in DashState /\ ShownOf(dash'[e].shown)
    BY <1>1, <1>2 DEF ShownOf, ShownIsAudited
  <2>2. ASSUME NEW e \in Dashboard, NEW f \in TraderRef, dash'[e].shown[f] # 0
        PROVE  run'[dash'[e].shown[f]].ref = f /\ audits'[dash'[e].shown[f]] = "result"
    <3>1. dash'[e].shown[f] \in Run
      BY <2>1, <2>2, PipelineAssumption DEF DashState, Run
    <3>. QED  BY <1>4, <2>1, <2>2, <3>1 DEF ShownOf
  <2>. QED  BY <2>2 DEF ShownIsAudited
<1>6. DoneIsAudited'
  <2>1. \A x \in Message : Told(x) => Told(x)'
    BY <1>4 DEF Told
  <2>2. \A e \in Dashboard \ {d}, x \in Message : Holds(e, x)' <=> Holds(e, x)
    BY <1>2 DEF Holds
  <2>. QED  BY <1>1, <2>1, <2>2 DEF DoneIsAudited
<1>7. SolvingWillEnd'
  <2>1. ASSUME NEW e \in Dashboard \ {d}, Awaits(e) PROVE Awaits(e)'
    <3>1. CASE \E x \in Message : Holds(e, x) /\ Ends(x)
      BY <1>2, <3>1 DEF Awaits, Holds, Ends
    <3>2. CASE \E r \in Run : run[r].by = e /\ run[r].listens /\ Alive(r)
      BY <3>2 DEF Awaits, Alive, RunsKept
    <3>. QED  BY <2>1, <3>1, <3>2 DEF Awaits
  <2>. QED  BY <1>1, <1>2, <2>1 DEF SolvingWillEnd
<1>8. SavedIsAudited'
  BY <1>1, <1>4 DEF SavedIsAudited
<1>. QED  BY <1>3, <1>5, <1>6, <1>7, <1>8 DEF IInv

LEMMA NewRun ==
  ASSUME IInv, NextRun \in Run, NEW s \in RunState, s.is = "checking",
         run' = [run EXCEPT ![NextRun] = s], audits' = audits, NEW d
  PROVE  /\ run' \in [Run -> RunState] /\ Numbered' /\ AuditsMatch' /\ RunsKept(d)
         /\ run'[NextRun] = s
         /\ \A q \in Run : run[q].is # "none" => run'[q] = run[q]
<1>1. run \in [Run -> RunState] /\ Numbered /\ AuditsMatch
  BY DEF IInv, TypeOK
<1>2. PICK n \in Run : n = NextRun
  OBVIOUS
<1>3. /\ run'[n] = s /\ run' \in [Run -> RunState]
      /\ \A q \in Run \ {n} : run'[q] = run[q]
  BY <1>1, <1>2
<1>4. PICK k \in 0..(MaxRun - 1) :
        /\ {r \in Run : run[r].is # "none"} = 1..k /\ n = k + 1 /\ run[n].is = "none"
  BY <1>1, <1>2, NextIsNew
<1>5. Numbered'
  <2>1. {r \in Run : run'[r].is # "none"} = {r \in Run : run[r].is # "none"} \cup {n}
    BY <1>3
  <2>2. (1..k) \cup {k + 1} = 1..(k + 1) /\ k + 1 \in 0..MaxRun
    BY PipelineAssumption
  <2>. QED  BY <1>4, <2>1, <2>2 DEF Numbered
<1>6. AuditsMatch'
  BY <1>1, <1>3, <1>4 DEF AuditsMatch
<1>7. RunsKept(d)
  BY <1>3, <1>4 DEF RunsKept
<1>. QED  BY <1>2, <1>3, <1>4, <1>5, <1>6, <1>7

LEMMA ConfirmKeeps ==
  ASSUME IInv, NEW d \in Dashboard, NEW ref \in TraderRef, ConfirmSolve(d, ref)
  PROVE  IInv'
<1>. DEFINE old == dash[d]
            m == [kind |-> "do_solve", ref |-> ref, run |-> 0]
            new == [[old EXCEPT !.solving = TRUE] EXCEPT !.mailbox = Append(@, m)]
<1>1. m \in Message /\ Ends(m) /\ m.kind = "do_solve"
  BY PipelineAssumption DEF Message, Ends
<1>. HIDE DEF m
<1>2. dash \in [Dashboard -> DashState] /\ old \in DashState
  BY DEF IInv, TypeOK
<1>3. dash' = [dash EXCEPT ![d] = new]
  BY <1>2 DEF ConfirmSolve, m
<1>. HIDE DEF old
<1>4. /\ Append(old.mailbox, m) \in Seq(Message)
      /\ new \in DashState /\ new.shown = old.shown
      /\ new.mailbox = Append(old.mailbox, m)
  <2>1. Append(old.mailbox, m) \in Seq(Message)
    BY <1>1, <1>2 DEF DashState
  <2>. QED  BY <1>2, <2>1 DEF DashState
<1>. HIDE DEF new
<1>5. dash'[d] = new
  BY <1>2, <1>3
<1>6. /\ \A x : Holds(d, x)' => Holds(d, x) \/ x = m
      /\ Holds(d, m)'
  <2>. DEFINE c == old.mailbox
  <2>1. c \in Seq(Message)
    BY <1>2 DEF DashState
  <2>2. DOMAIN Append(c, m) = 1..(Len(c) + 1) /\ DOMAIN c = 1..Len(c) /\ Len(c) \in Nat
    BY <2>1
  <2>3. Append(c, m)[Len(c) + 1] = m /\ \A n \in 1..Len(c) : Append(c, m)[n] = c[n]
    BY <2>1
  <2>4. dash'[d].mailbox = Append(c, m) /\ dash[d].mailbox = c
    BY <1>4, <1>5 DEF old
  <2>. HIDE DEF c
  <2>5. ASSUME NEW x, Holds(d, x)' PROVE Holds(d, x) \/ x = m
    <3>1. PICK n \in 1..(Len(c) + 1) : Append(c, m)[n] = x
      BY <2>2, <2>4, <2>5 DEF Holds
    <3>2. n \in 1..Len(c) \/ n = Len(c) + 1
      BY <2>2
    <3>. QED  BY <2>2, <2>3, <2>4, <3>1, <3>2 DEF Holds
  <2>6. Holds(d, m)'
    <3>1. Len(c) + 1 \in 1..(Len(c) + 1)
      BY <2>2
    <3>. QED  BY <2>2, <2>3, <2>4, <3>1 DEF Holds
  <2>. QED  BY <2>5, <2>6
<1>7. /\ run' = run /\ audits' = audits /\ saved' = saved
      /\ asked' \in 0..MaxRun /\ run' \in [Run -> RunState]
  BY PipelineAssumption DEF ConfirmSolve, IInv, TypeOK
<1>8. RunsKept(d) /\ ShownOf(new.shown) /\ Numbered' /\ AuditsMatch'
  BY <1>4, <1>7 DEF old, RunsKept, ShownOf, ShownIsAudited, Numbered, AuditsMatch, IInv
<1>9. Awaits(d)'
  BY <1>1, <1>6 DEF Awaits, Ends
<1>. QED  BY <1>1, <1>3, <1>4, <1>6, <1>7, <1>8, <1>9, DashboardKeeps

LEMMA ResetKeeps ==
  ASSUME IInv, NEW d \in Dashboard, Reset(d)
  PROVE  IInv'
<1>. DEFINE zero == [f \in TraderRef |-> 0]
            new == [dash[d] EXCEPT !.shown = zero]
<1>1. dash \in [Dashboard -> DashState] /\ dash[d] \in DashState
  BY DEF IInv, TypeOK
<1>2. zero \in [TraderRef -> 0..MaxRun] /\ dash' = [dash EXCEPT ![d] = new] /\ dash'[d] = new
  BY <1>1, PipelineAssumption DEF Reset, Mounted
<1>3. /\ new \in DashState /\ new.shown = zero
      /\ new.solving = dash[d].solving /\ new.mailbox = dash[d].mailbox
  BY <1>1, <1>2 DEF DashState
<1>4. /\ run' = run /\ audits' = audits /\ saved' = saved
       /\ asked' \in 0..MaxRun /\ run' \in [Run -> RunState]
  BY DEF Reset, IInv, TypeOK
<1>5. RunsKept(d) /\ ShownOf(new.shown) /\ Numbered' /\ AuditsMatch'
  BY <1>3, <1>4 DEF RunsKept, ShownOf, Numbered, AuditsMatch, IInv
<1>6. \A x : Holds(d, x)' <=> Holds(d, x)
  BY <1>2, <1>3 DEF Holds
<1>7. dash[d].solving => Awaits(d)'
  BY <1>4, <1>6 DEF IInv, SolvingWillEnd, Awaits, Alive, Ends
<1>. HIDE DEF new
<1>. QED  BY <1>2, <1>3, <1>4, <1>5, <1>6, <1>7, DashboardKeeps

LEMMA SaveKeeps ==
  ASSUME IInv, NEW d \in Dashboard, SaveScenario(d)
  PROVE  IInv'
<1>. DEFINE s == dash[d].shown["trader_solve"]
<1>1. /\ dash \in [Dashboard -> DashState] /\ ShownIsAudited /\ SavedIsAudited
      /\ saved \subseteq Run
  BY DEF IInv, TypeOK
<1>2. /\ s # 0 /\ saved' = saved \cup {s}
      /\ dash' = dash /\ run' = run /\ audits' = audits /\ asked' = asked
  BY DEF SaveScenario
<1>3. s \in Run /\ run[s].ref = "trader_solve" /\ audits[s] = "result"
  <2>1. s \in 0..MaxRun /\ "trader_solve" \in TraderRef
    BY <1>1 DEF DashState, TraderRef
  <2>. QED  BY <1>1, <1>2, <2>1, PipelineAssumption DEF ShownIsAudited, Run
<1>. HIDE DEF s
<1>4. TypeOK' /\ SavedIsAudited'
  BY <1>1, <1>2, <1>3 DEF IInv, TypeOK, SavedIsAudited
<1>. QED  BY <1>2, <1>4 DEF IInv, Numbered, AuditsMatch, ShownIsAudited, DoneIsAudited,
              Told, Holds, SolvingWillEnd, Awaits, Ends, Alive

LEMMA LoadKeeps ==
  ASSUME IInv, NEW d \in Dashboard, LoadScenario(d)
  PROVE  IInv'
<1>1. /\ dash \in [Dashboard -> DashState] /\ dash[d] \in DashState
      /\ ShownIsAudited /\ SavedIsAudited /\ saved \subseteq Run
  BY DEF IInv, TypeOK
<1>2. PICK r \in saved : dash' = [dash EXCEPT ![d].shown["trader_solve"] = r]
  BY DEF LoadScenario
<1>. DEFINE put == [dash[d].shown EXCEPT !["trader_solve"] = r]
            new == [dash[d] EXCEPT !.shown = put]
<1>3. /\ put \in [TraderRef -> 0..MaxRun] /\ put["trader_solve"] = r
      /\ \A f \in TraderRef \ {"trader_solve"} : put[f] = dash[d].shown[f]
  BY <1>1, PipelineAssumption DEF DashState, TraderRef, Run
<1>4. dash' = [dash EXCEPT ![d] = new] /\ dash'[d] = new
  BY <1>1, <1>2
<1>. HIDE DEF put
<1>5. /\ new \in DashState /\ new.shown = put
      /\ new.solving = dash[d].solving /\ new.mailbox = dash[d].mailbox
  BY <1>1, <1>3 DEF DashState
<1>6. /\ run' = run /\ audits' = audits /\ saved' = saved
      /\ asked' \in 0..MaxRun /\ run' \in [Run -> RunState]
  BY DEF LoadScenario, IInv, TypeOK
<1>7. ShownOf(new.shown)
  BY <1>1, <1>3, <1>5 DEF ShownOf, ShownIsAudited, SavedIsAudited
<1>8. RunsKept(d) /\ Numbered' /\ AuditsMatch'
  BY <1>6 DEF RunsKept, Numbered, AuditsMatch, IInv
<1>9. \A x : Holds(d, x)' <=> Holds(d, x)
  BY <1>4, <1>5 DEF Holds
<1>10. dash[d].solving => Awaits(d)'
  BY <1>6, <1>9 DEF IInv, SolvingWillEnd, Awaits, Alive, Ends
<1>. HIDE DEF new
<1>. QED  BY <1>4, <1>5, <1>6, <1>7, <1>8, <1>9, <1>10, DashboardKeeps

LEMMA DoSolveKeeps ==
  ASSUME IInv, NEW d \in Dashboard, HandleDoSolve(d)
  PROVE  IInv'
<1>. DEFINE m == Head(dash[d].mailbox)
            s == [is |-> "checking", ref |-> m.ref, by |-> d, listens |-> TRUE, stale |-> FALSE]
<1>1. dash \in [Dashboard -> DashState] /\ dash[d] \in DashState
  BY DEF IInv, TypeOK
<1>2. /\ dash' = [dash EXCEPT ![d] = Taken(d)] /\ dash'[d] = Taken(d)
      /\ dash[d].mailbox # <<>> /\ m.kind = "do_solve"
  BY <1>1 DEF HandleDoSolve, FirstIs
<1>3. Taken(d).mailbox = Tail(dash[d].mailbox) /\ Taken(d).shown = dash[d].shown
  BY <1>1 DEF Taken, DashState
<1>4. /\ m \in Message /\ Tail(dash[d].mailbox) \in Seq(Message)
      /\ \A x : Holds(d, x)' => Holds(d, x)
  BY <1>1, <1>2, <1>3, TakeKeeps DEF Takes
<1>5. Taken(d) \in DashState
  BY <1>1, <1>4 DEF Taken, DashState
<1>6. s \in RunState /\ s.is = "checking"
  BY <1>2, <1>4 DEF RunState, Message, CallerRef, Phase
<1>7. audits' = audits /\ saved' = saved /\ asked' \in 0..MaxRun
  BY DEF HandleDoSolve, IInv, TypeOK
<1>8. run' = [run EXCEPT ![NextRun] = s] /\ NextRun \in Run
  BY DEF HandleDoSolve
<1>. HIDE DEF s
<1>9. /\ run' \in [Run -> RunState] /\ Numbered' /\ AuditsMatch' /\ RunsKept(d)
      /\ run'[NextRun] = s
  BY <1>6, <1>7, <1>8, NewRun
<1>10. ShownOf(Taken(d).shown)
  BY <1>3 DEF ShownOf, IInv, ShownIsAudited
<1>11. Awaits(d)'
  <2>1. s.by = d /\ s.listens /\ s.is = "checking"
    BY DEF s
  <2>. QED  BY <1>8, <1>9, <2>1 DEF Awaits, Alive
<1>. QED  BY <1>2, <1>4, <1>5, <1>7, <1>9, <1>10, <1>11, DashboardKeeps

LEMMA SolveDoneKeeps ==
  ASSUME IInv, NEW d \in Dashboard, HandleSolveDone(d)
  PROVE  IInv'
<1>1. dash \in [Dashboard -> DashState] /\ dash[d] \in DashState
  BY DEF IInv, TypeOK
<1>2. PICK m : m = Head(dash[d].mailbox)
  OBVIOUS
<1>. DEFINE new == [Taken(d) EXCEPT !.solving = FALSE, !.shown[m.ref] = m.run]
<1>3. dash[d].mailbox # <<>> /\ m.kind = "solve_done"
  BY <1>2 DEF HandleSolveDone, FirstIs
<1>4. dash' = [dash EXCEPT ![d] = new] /\ dash'[d] = new
  BY <1>1, <1>2 DEF HandleSolveDone
<1>5. m \in Message /\ Tail(dash[d].mailbox) \in Seq(Message) /\ Holds(d, m)
  <2>. DEFINE c == dash[d].mailbox
  <2>1. c \in Seq(Message) /\ c # <<>> /\ m = Head(c)
    BY <1>1, <1>2, <1>3 DEF DashState
  <2>. HIDE DEF c
  <2>2. 1 \in DOMAIN c /\ c[1] = m /\ m \in Message /\ Tail(c) \in Seq(Message)
    BY <2>1
  <2>. QED  BY <2>2 DEF Holds, c
<1>6. Taken(d) \in DashState /\ Taken(d).mailbox = Tail(dash[d].mailbox)
      /\ Taken(d).shown = dash[d].shown
  BY <1>1, <1>5 DEF Taken, DashState
<1>7. m.ref \in TraderRef /\ m.run \in 0..MaxRun
  BY <1>3, <1>5 DEF Message
<1>8. /\ new \in DashState /\ new.solving = FALSE
      /\ new.shown = [dash[d].shown EXCEPT ![m.ref] = m.run]
      /\ new.mailbox = Tail(dash[d].mailbox)
  BY <1>6, <1>7 DEF DashState
<1>. HIDE DEF new
<1>9. \A x : Holds(d, x)' => Holds(d, x)
  BY <1>1, <1>3, <1>4, <1>8, TakeKeeps DEF Takes
<1>10. Told(m)
  BY <1>3, <1>5 DEF IInv, DoneIsAudited
<1>11. /\ run' = run /\ audits' = audits /\ saved' = saved
       /\ asked' \in 0..MaxRun /\ run' \in [Run -> RunState]
  BY DEF HandleSolveDone, IInv, TypeOK
<1>12. RunsKept(d) /\ Numbered' /\ AuditsMatch'
  BY <1>11 DEF RunsKept, Numbered, AuditsMatch, IInv
<1>13. ShownOf(new.shown)
  <2>1. dash[d].shown \in [TraderRef -> 0..MaxRun]
    BY <1>1 DEF DashState
  <2>2. \A f \in TraderRef : new.shown[f] = IF f = m.ref THEN m.run ELSE dash[d].shown[f]
    BY <1>8, <2>1
  <2>3. \A f \in TraderRef : dash[d].shown[f] # 0 =>
          run[dash[d].shown[f]].ref = f /\ audits[dash[d].shown[f]] = "result"
    BY DEF IInv, ShownIsAudited
  <2>. QED  BY <1>10, <2>2, <2>3 DEF ShownOf, Told
<1>. QED  BY <1>4, <1>8, <1>9, <1>11, <1>12, <1>13, DashboardKeeps

(* The error of an AutoRunner's run leaves the dashboard solving, and is   *)
(* not what it waits for.                                                  *)
LEMMA PipelineErrorKeeps ==
  ASSUME IInv, NEW d \in Dashboard, HandlePipelineError(d)
  PROVE  IInv'
<1>1. dash \in [Dashboard -> DashState] /\ dash[d] \in DashState
  BY DEF IInv, TypeOK
<1>2. PICK m : m = Head(dash[d].mailbox)
  OBVIOUS
<1>3. dash[d].mailbox # <<>> /\ m.kind = "pipeline_error"
  BY <1>2 DEF HandlePipelineError, FirstIs
<1>4. /\ Tail(dash[d].mailbox) \in Seq(Message)
  BY <1>1, <1>3 DEF DashState
<1>5. Taken(d) \in DashState /\ Taken(d).mailbox = Tail(dash[d].mailbox)
      /\ Taken(d).shown = dash[d].shown /\ Taken(d).solving = dash[d].solving
  BY <1>1, <1>4 DEF Taken, DashState
<1>6. PICK b \in BOOLEAN : b = (Taken(d).solving /\ m.ref = "auto_runner")
  OBVIOUS
<1>. DEFINE new == [Taken(d) EXCEPT !.solving = b]
<1>7. dash' = [dash EXCEPT ![d] = new] /\ dash'[d] = new
  BY <1>1, <1>2, <1>6 DEF HandlePipelineError
<1>8. /\ new \in DashState /\ new.solving = b
      /\ new.shown = dash[d].shown /\ new.mailbox = Tail(dash[d].mailbox)
  BY <1>5 DEF DashState
<1>. HIDE DEF new
<1>9. /\ \A x : Holds(d, x)' => Holds(d, x)
      /\ \A x : Holds(d, x) => Holds(d, x)' \/ x = m
  BY <1>1, <1>2, <1>3, <1>7, <1>8, TakeKeeps DEF Takes
<1>10. /\ run' = run /\ audits' = audits /\ saved' = saved
       /\ asked' \in 0..MaxRun /\ run' \in [Run -> RunState]
  BY DEF HandlePipelineError, IInv, TypeOK
<1>11. RunsKept(d) /\ ShownOf(new.shown) /\ Numbered' /\ AuditsMatch'
  BY <1>8, <1>10 DEF RunsKept, ShownOf, ShownIsAudited, Numbered, AuditsMatch, IInv
<1>12. ASSUME new.solving PROVE Awaits(d)'
  <2>1. ~Ends(m)
    BY <1>3, <1>6, <1>8, <1>12 DEF Ends
  <2>2. Awaits(d)
    BY <1>5, <1>6, <1>8, <1>12 DEF IInv, SolvingWillEnd
  <2>. QED  BY <1>9, <1>10, <2>1, <2>2 DEF Awaits, Alive, Ends
<1>. QED  BY <1>7, <1>8, <1>9, <1>10, <1>11, <1>12, DashboardKeeps

LEMMA RemountKeeps ==
  ASSUME IInv, NEW d \in Dashboard, Remount(d)
  PROVE  IInv'
<1>1. /\ run \in [Run -> RunState] /\ dash \in [Dashboard -> DashState]
      /\ Numbered /\ AuditsMatch
  BY DEF IInv, TypeOK
<1>2. \A q \in Run : /\ run'[q] \in RunState
                     /\ run'[q].is = run[q].is /\ run'[q].ref = run[q].ref
                     /\ run'[q].by = run[q].by
                     /\ run[q].by # d => run'[q].listens = run[q].listens
  <2>. SUFFICES ASSUME NEW q \in Run
                PROVE  /\ run'[q] \in RunState
                       /\ run'[q].is = run[q].is /\ run'[q].ref = run[q].ref
                       /\ run'[q].by = run[q].by
                       /\ run[q].by # d => run'[q].listens = run[q].listens
    OBVIOUS
  <2>1. run[q] \in RunState
    BY <1>1
  <2>2. run'[q] = IF run[q].by = d THEN [run[q] EXCEPT !.listens = FALSE] ELSE run[q]
    BY DEF Remount
  <2>3. CASE run[q].by = d
    BY <2>1, <2>2, <2>3 DEF RunState
  <2>4. CASE run[q].by # d
    BY <2>1, <2>2, <2>4
  <2>. QED  BY <2>3, <2>4
<1>3. run' \in [Run -> RunState]
  BY <1>2 DEF Remount
<1>4. RunsKept(d) /\ AuditsMatch'
  BY <1>1, <1>2 DEF RunsKept, AuditsMatch, Remount
<1>5. Numbered'
  <2>1. {q \in Run : run'[q].is # "none"} = {q \in Run : run[q].is # "none"}
    BY <1>2
  <2>. QED  BY <1>1, <2>1 DEF Numbered
<1>6. /\ Mounted \in DashState /\ ~Mounted.solving /\ ShownOf(Mounted.shown)
      /\ Mounted.mailbox = <<>>
  BY PipelineAssumption DEF Mounted, DashState, ShownOf
<1>7. dash' = [dash EXCEPT ![d] = Mounted] /\ dash'[d] = Mounted
  BY <1>1 DEF Remount
<1>8. \A x : ~Holds(d, x)'
  BY <1>6, <1>7 DEF Holds
<1>9. audits' = audits /\ saved' = saved /\ asked' \in 0..MaxRun
  BY DEF Remount, IInv, TypeOK
<1>. QED  BY <1>3, <1>4, <1>5, <1>6, <1>7, <1>8, <1>9, DashboardKeeps

LEMMA AutoRunKeeps ==
  ASSUME IInv, AutoRun
  PROVE  IInv'
<1>1. /\ run \in [Run -> RunState] /\ dash \in [Dashboard -> DashState]
      /\ audits \in [Run -> {"none", "result", "error"}] /\ AuditsMatch
      /\ ShownIsAudited /\ SavedIsAudited /\ DoneIsAudited /\ SolvingWillEnd
      /\ dash' = dash /\ audits' = audits /\ saved' = saved /\ saved \subseteq Run
  BY DEF IInv, TypeOK, AutoRun
<1>. DEFINE s == [NoRun EXCEPT !.is = "checking"]
<1>2. s \in RunState /\ s.is = "checking"
  BY DEF NoRun, RunState, Phase, CallerRef, TraderRef
<1>3. run' = [run EXCEPT ![NextRun] = s] /\ asked' \in 0..MaxRun
  BY PipelineAssumption DEF AutoRun, IInv, TypeOK
<1>. HIDE DEF s
<1>4. /\ run' \in [Run -> RunState] /\ Numbered' /\ AuditsMatch'
      /\ \A q \in Run : run[q].is # "none" => run'[q] = run[q]
  <2>1. CASE NextRun \in Run
    BY <1>1, <1>2, <1>3, <2>1, NewRun
  <2>2. CASE NextRun \notin Run
    <3>1. run' = run
      BY <1>1, <1>3, <2>2
    <3>. QED  BY <1>1, <3>1 DEF IInv, Numbered, AuditsMatch
  <2>. QED  BY <2>1, <2>2
<1>5. \A q \in Run : audits[q] = "result" => run'[q] = run[q]
  BY <1>1, <1>4 DEF AuditsMatch
<1>6. TypeOK'
  BY <1>1, <1>3, <1>4 DEF TypeOK
<1>7. ShownIsAudited'
  <2>1. \A d \in Dashboard, f \in TraderRef : dash[d].shown[f] # 0 => dash[d].shown[f] \in Run
    BY <1>1, PipelineAssumption DEF DashState, Run
  <2>. QED  BY <1>1, <1>5, <2>1 DEF ShownIsAudited
<1>8. DoneIsAudited'
  BY <1>1, <1>5 DEF DoneIsAudited, Told, Holds
<1>9. SolvingWillEnd'
  BY <1>1, <1>4 DEF SolvingWillEnd, Awaits, Holds, Ends, Alive
<1>10. SavedIsAudited'
  BY <1>1, <1>5 DEF SavedIsAudited
<1>. QED  BY <1>4, <1>6, <1>7, <1>8, <1>9, <1>10 DEF IInv

LEMMA NextKeeps == IInv /\ [Next]_vars => IInv'
<1>. SUFFICES ASSUME IInv, [Next]_vars PROVE IInv'
  OBVIOUS
<1>1. ASSUME NEW d \in Dashboard, NEW ref \in TraderRef, ConfirmSolve(d, ref) PROVE IInv'
  BY <1>1, ConfirmKeeps
<1>2. ASSUME NEW d \in Dashboard, Reset(d) \/ Remount(d) \/ HandleInfo(d) PROVE IInv'
  BY <1>2, ResetKeeps, RemountKeeps, DoSolveKeeps, SolveDoneKeeps, PipelineErrorKeeps
  DEF HandleInfo, HandleTask
<1>3. ASSUME NEW r \in Run, RunStep(r) PROVE IInv'
  BY <1>3, RunStepEffect, EffectKeeps
<1>4. CASE UNCHANGED vars
  BY <1>4 DEF vars, IInv, TypeOK, Numbered, AuditsMatch, ShownIsAudited, SavedIsAudited, DoneIsAudited,
              Told, Holds, SolvingWillEnd, Awaits, Ends, Alive
<1>5. ASSUME NEW d \in Dashboard, SaveScenario(d) \/ LoadScenario(d) PROVE IInv'
  BY <1>5, SaveKeeps, LoadKeeps
<1>. QED  BY <1>1, <1>2, <1>3, <1>4, <1>5, AutoRunKeeps DEF Next

LEMMA AlwaysIInv == Spec => []IInv
BY InitIInv, NextKeeps, PTL DEF Spec

-----------------------------------------------------------------------------
(* The state of dashboards, runs and audits always has its type.           *)
THEOREM TypeCorrect == Spec => []TypeOK
<1>1. IInv => TypeOK
  BY DEF IInv
<1>. QED  BY <1>1, AlwaysIInv, PTL

(* Whatever a dashboard shows is the result of an audited run that was     *)
(* asked for under the same caller_ref, however runs of several dashboards *)
(* overlap.                                                                *)
THEOREM ShownIsAuditedCorrect == Spec => []ShownIsAudited
<1>1. IInv => ShownIsAudited
  BY DEF IInv
<1>. QED  BY <1>1, AlwaysIInv, PTL

(* No dashboard says it is solving with nothing under way.                 *)
THEOREM SolvingUnderWayCorrect == Spec => []SolvingUnderWay
<1>1. IInv => SolvingUnderWay
  <2>. SUFFICES ASSUME IInv, NEW d \in Dashboard, dash[d].solving
                PROVE  \/ dash[d].mailbox # <<>>
                       \/ \E r \in Run : run[r].by = d /\ run[r].listens /\ Alive(r)
    BY DEF SolvingUnderWay
  <2>1. Awaits(d)
    BY DEF IInv, SolvingWillEnd
  <2>2. \A x : Holds(d, x) => dash[d].mailbox # <<>>
    BY DEF Holds
  <2>. QED  BY <2>1, <2>2 DEF Awaits
<1>. QED  BY <1>1, AlwaysIInv, PTL
=============================================================================
