---------------------------- MODULE ForkJoinProofs ----------------------------
(***************************************************************************)
(* Theorems about the threads of WorkStealing together: what they do is    *)
(* fork and join, and no semaphore loses a signal, for any number of       *)
(* threads, any tree of calls and any size of the arrays.                  *)
(*                                                                         *)
(* The invariant is Orderly of WorkStealingProofs: one lemma per action    *)
(* says which of the general lemmas on Work, Claims and Tokens applies.    *)
(* Most steps change none of what is read off a thread (Calm, QuietStep);  *)
(* those that do are LoudStep.                                             *)
(***************************************************************************)
EXTENDS WorkStealingProofs

-----------------------------------------------------------------------------
(* STEPS THAT CHANGE NO VIEW                                               *)

(* The running call of w is another, and those below stay, but for the one *)
(* it was called from.                                                     *)
Local(w) == /\ Steps(w) /\ Depth(w)' \in Nat /\ Depth(w)' >= Depth(w) - 1
            /\ \A l \in 1..(Depth(w) - 1) : stack'[w][l] = stack[w][l]

(* Only the shutdown changes the bottom of Main's stack.                   *)
LEMMA Bottom ==
  ASSUME SInv, NEW w \in Worker, Local(w), Top(w).pc \notin StopPc
  PROVE  /\ Depth(Main)' > 0 <=> Depth(Main) > 0
         /\ Depth(Main) > 0 => stack'[Main][1] = stack[Main][1]
         /\ Untold' = Untold
<1>1. Main \in Worker
  BY StealingAssumption
<1>2. CASE w # Main
  <2>1. Depth(Main)' = Depth(Main) /\ stack'[Main] = stack[Main]
    BY <1>1, <1>2 DEF Local, Steps, Depth
  <2> QED  BY <2>1 DEF Untold
<1>3. CASE w = Main
  <2>1. Depth(w) \in Nat /\ Depth(w) > 0 /\ Top(w) = stack[w][Depth(w)]
    BY GoodParts DEF Local, Steps, Top
  <2>2. AtBottom(w, stack[w][1])
    BY <2>1, GoodParts DEF Shape, Chain, Depth
  <2>3. Depth(w) # 1
    BY <1>3, <2>1, <2>2 DEF Local, AtBottom
  <2>4. Depth(w)' > 0 /\ stack'[w][1] = stack[w][1]
    BY <2>1, <2>3 DEF Local
  <2> QED  BY <1>3, <2>1, <2>4 DEF Untold
<1> QED  BY <1>2, <1>3

(* Before the shutdown, a step that does not begin it keeps Stops.         *)
LEMMA StopsRun ==
  ASSUME Orderly, NEW w \in Worker, Local(w), Top(w).pc \notin StopPc, ~stopped, ~stopped'
  PROVE  Stops'
<1>1. SInv /\ Depth(Main) > 0 /\ stack[Main][1].pc = "stopWorkerThreads"
  BY DEF Orderly, Stops
<1>2. Depth(Main)' > 0 /\ stack'[Main][1] = stack[Main][1]
  BY <1>1, Bottom
<1> QED  BY <1>1, <1>2 DEF Stops

(* After the shutdown.                                                     *)
IdlePc == SleepPc \cup ReleasePc \cup ThreadPc \cup StopPc

(* When no body runs, no deque holds a task and nobody is marking one.     *)
LEMMA Idle ==
  ASSUME Orderly, \A v \in Worker, l \in Nat : ~IsBody(Job, v, l), NEW w \in Worker
  PROVE  /\ \A l \in Nat : ~IsBody(Job, w, l) /\ ~IsMark(Job, w, l) /\ ~IsOwn(Job, w, l)
         /\ \A i \in Slot : ~(i < Heads[w])
         /\ Claim[w] = None
         /\ Depth(w) > 0 => Top(w).pc \in IdlePc
<1>1. \A v \in Worker, l \in Nat : ~IsBody(Job, v, l)
  OBVIOUS
<1>2. \A v \in Worker, i \in Slot : ~(i < Heads[v])
  BY <1>1 DEF Orderly, WorkNow, Work, SlotOK, Holds
<1>3. ASSUME NEW l \in Nat  PROVE ~IsMark(Job, w, l) /\ ~IsOwn(Job, w, l)
  <2>1. ~IsMark(Job, w, l)
    BY <1>2 DEF Orderly, WorkNow, Work, MarkOK
  <2>2. CASE l = 0
    BY <2>1, <2>2 DEF Orderly, WorkNow, Work, IsOwn
  <2>3. CASE l # 0
    <3>1. PICK k \in Nat : l = k + 1
      <4>1. l - 1 \in Nat /\ l = (l - 1) + 1
        BY <2>3
      <4> QED  BY <4>1
    <3>2. ~IsOwn(Job, w, k + 1)
      BY <1>1 DEF Orderly, WorkNow, Work, OwnOK
    <3> QED  BY <2>1, <3>1, <3>2
  <2> QED  BY <2>2, <2>3
<1>4. Claim[w] = None
  <2> SUFFICES ASSUME Claim[w] # None  PROVE FALSE
    OBVIOUS
  <2>1. PICK r : r = Claim[w]
    OBVIOUS
  <2>2. r \in Ref /\ r[2] < Heads[r[1]]
    BY <2>1 DEF Orderly, ClaimsNow, Claims
  <2> QED  BY <1>2, <2>2, RefTypes
<1>5. ASSUME Depth(w) > 0  PROVE Top(w).pc \in IdlePc
  <2>1. /\ SInv /\ Depth(w) \in Nat /\ Depth(w) \in Levels(w) /\ Top(w) \in Frames /\ FrameOK(Top(w))
        /\ (Top(w).pc \in RefPc => Top(w).ref \in Ref)
    BY <1>5, GoodParts DEF Orderly
  <2>2. Job[w][Depth(w)] = JobOf(Top(w))
    BY <2>1, JobAt DEF Top
  <2>3. Top(w).pc \notin BodyPc \cup {"runOwn", "markAsFinished"}
    BY <1>1, <1>3, <2>1, <2>2 DEF JobOf, IsBody, IsOwn, IsMark
  <2>4. Top(w).pc # "runStolenTask"
    <3>1. None \notin Ref
      BY StealingAssumption, SlotFacts DEF Ref
    <3>2. At(w, "runStolenTask") => Claim[w] = Top(w).ref
      BY DEF Claim
    <3> QED  BY <1>4, <1>5, <2>1, <3>1, <3>2 DEF At, RefPc, TakenPc
  <2>5. Depth(w) > 1 => Top(w).pc \in IdlePc
    <3> SUFFICES ASSUME Depth(w) > 1  PROVE Top(w).pc \in IdlePc
      OBVIOUS
    <3>1. MayCall(Under1(w), Top(w)) /\ Depth(w) - 1 \in Nat
          /\ Job[w][Depth(w) - 1] = JobOf(Under1(w))
      BY <2>1, Caller, JobAt
    <3>2. Under1(w).pc \notin BodyPc \cup {"runOwn", "markAsFinished"}
      BY <1>1, <1>3, <3>1 DEF JobOf, IsBody, IsOwn, IsMark
    <3> QED  BY <2>3, <2>4, <3>1, <3>2 DEF MayCall, IdlePc, BodyPc, TakenPc
  <2>6. Depth(w) = 1 => Top(w).pc \in IdlePc
    <3>1. AtBottom(w, stack[w][1])
      BY <1>5, <2>1, GoodParts DEF Shape, Chain, Depth
    <3> QED  BY <3>1 DEF AtBottom, IdlePc, Top
  <2> QED  BY <1>5, <2>1, <2>5, <2>6
<1> QED  BY <1>1, <1>2, <1>3, <1>4, <1>5

(* A step after the shutdown that releases nobody.                         *)
LEMMA AfterStop ==
  ASSUME Orderly, stopped, NEW w \in Worker
  PROVE  /\ \A l \in Nat : ~IsBody(Job, w, l) /\ ~IsMark(Job, w, l) /\ ~IsOwn(Job, w, l)
         /\ \A i \in Slot : ~(i < Heads[w])
         /\ Claim[w] = None
         /\ Depth(w) > 0 => Top(w).pc \in IdlePc
<1>1. \A v \in Worker, l \in Nat : ~IsBody(Job, v, l)
  BY DEF Orderly, Stops
<1> QED  BY <1>1, Idle

(* After the shutdown began, a step of a worker keeps Stops.               *)
LEMMA StopsStay ==
  ASSUME Orderly, stopped, stopped', NEW w \in Worker, Local(w), Top(w).pc \notin StopPc, Job' = Job,
         \A v \in Worker : /\ Freed'[v] = Freed[v] \/ Freed'[v] = None
                           /\ Signalled'[v] => Signalled[v]
                           /\ At(v, "woken")' => At(v, "woken") \/ v \notin Range(Untold),
         injected' = injected
  PROVE  Stops'
<1>1. SInv /\ Main \in Worker
  BY StealingAssumption DEF Orderly
<1>2. /\ Depth(Main)' > 0 <=> Depth(Main) > 0
      /\ Depth(Main) > 0 => stack'[Main][1] = stack[Main][1]
      /\ Untold' = Untold
  BY <1>1, Bottom
<1>3. Range(Untold)' = Range(Untold)
  BY <1>2
<1>4. Range(Untold) \subseteq Worker
  <2>1. CASE Depth(Main) > 0
    <3>1. 1 \in Levels(Main)
      BY <1>1, <2>1, GoodParts DEF Levels
    <3>2. FrameOK(stack[Main][1])
      BY <1>1, <3>1, GoodParts
    <3>3. Untold \in Seq(Worker)
      BY <3>2 DEF FrameOK, Untold
    <3> QED  BY <3>3 DEF Range
  <2>2. CASE ~(Depth(Main) > 0)
    BY <2>2 DEF Untold, Range
  <2> QED  BY <2>1, <2>2
<1> QED  BY <1>1, <1>2, <1>3, <1>4 DEF Stops, Orderly

(* The others' waits.                                                      *)
LEMMA OthersWait ==
  ASSUME SInv, WaitsNow, NEW w \in Worker, Steps(w), Waits(w, stack'[w], stealer'),
         \A v \in Worker \ {w}, i \in Slot :
           stealer'[v][i] = stealer[v][i] \/ (stealer[v][i] # "finished" /\ stealer'[v][i] # "unset")
  PROVE  WaitsNow'
<1>1. ASSUME NEW v \in Worker, v # w  PROVE Waits(v, stack'[v], stealer')
  <2>1. PICK s \in Seq(Frames) : s = stack[v] /\ stack'[v] = s
    BY <1>1, GoodParts DEF Steps
  <2>2. Waits(v, s, stealer)
    BY <2>1 DEF WaitsNow
  <2>3. \A l \in 1..Len(s) : s[l].pc \in WaitPc => s[l].ref[2] \in Slot
    <3>1. \A l \in 1..Len(s) : s[l].pc \in RefPc => s[l].ref \in Ref
      BY <2>1, GoodParts DEF Shape, Chain
    <3> QED  BY <3>1, RefTypes DEF RefPc
  <2>4. \A i \in Slot : /\ stealer[v][i] # "unset" => stealer'[v][i] # "unset"
                        /\ stealer[v][i] = "finished" => stealer'[v][i] = "finished"
    BY <1>1, StealingAssumption
  <2>5. Len(s) > 0 /\ s[Len(s)].pc = "popStolen" => stealer'[v][s[Len(s)].ref[2]] = "finished"
    <3>1. Len(s) > 0 => Len(s) \in 1..Len(s)
      OBVIOUS
    <3> QED  BY <2>2, <2>3, <2>4, <3>1 DEF Waits, WaitPc
  <2> QED  BY <2>1, <2>2, <2>3, <2>4, <2>5 DEF Waits
<1> QED  BY <1>1 DEF WaitsNow

(* A step between quiet calls keeps Orderly when it keeps Work and Waits.  *)
LEMMA QuietStep ==
  ASSUME Orderly, Advance, NEW w \in Worker, Hushed(w), Local(w), Top(w).pc \notin StopPc,
         WorkNow', Waits(w, stack'[w], stealer'), stopped => Job' = Job,
         \A v \in Worker, i \in Slot :
           \/ stealer'[v][i] = stealer[v][i]
           \/ v = w /\ stealer'[v][i] = "unset" /\ ~(i < Heads[w])
           \/ stealer[v][i] \in Worker /\ stealer[v][i] # v /\ stealer'[v][i] = "finished",
         \A v \in Worker, i \in Slot :
           i < Heads[v] /\ stealer[v][i] = "unset" /\ i \in TakenNow[v] => i < Heads'[v],
         \A v \in Worker, i \in Slot :
           i < Heads'[v] => i < Heads[v] \/ stealer'[v][i] = "unset"
  PROVE  Orderly'
<1>1. SInv /\ SInv' /\ sleepers \in Seq(Worker) /\ "unset" \notin Worker /\ "finished" \notin Worker
      /\ "finished" # "unset"
  BY StealingAssumption DEF Orderly, Advance, SInv, TypeOK
<1>2. ClaimsNow'
  <2>1. Claims(Claim', Injecting', Heads', stealer', TakenNow')
    <3>1. \A v \in Worker : Claim'[v] # None =>
            Claim'[v] = Claim[v] /\ (v \in Injecting => v \in Injecting')
      BY HushedViews
    <3>2. \A v \in Worker, i \in Slot : i < Heads[v] /\ i \in TakenNow[v] => i \in TakenNow'[v]
      BY TakenStays
    <3>3. \A v \in Worker, i \in Slot :
            i < Heads[v] /\ stealer[v][i] = "unset" /\ i \in TakenNow[v]
              => i < Heads'[v] /\ stealer'[v][i] = "unset"
      BY <1>1
    <3>4. Claims(Claim, Injecting, Heads, stealer, TakenNow)
      BY DEF Orderly, ClaimsNow
    <3> QED  BY <3>1, <3>2, <3>3, <3>4, ClaimsKeep
  <2>2. PendOK'
    BY HushedViews DEF Orderly, ClaimsNow, PendOK, Hushed
  <2> QED  BY <2>1, <2>2 DEF ClaimsNow
<1>3. UntakenNow'
  <2>1. UntakenNow
    BY DEF Orderly
  <2>2. \A v \in Worker, i \in Slot : i < Heads'[v] =>
          \/ stealer'[v][i] = "unset"
          \/ i < Heads[v] /\ (stealer'[v][i] = stealer[v][i] \/ stealer[v][i] # "unset"
                                \/ i \in TakenNow[v])
    BY <1>1
  <2> QED  BY <2>1, <2>2, UntakenNext
<1>4. WaitsNow'
  <2>1. \A v \in Worker \ {w}, i \in Slot :
          stealer'[v][i] = stealer[v][i] \/ (stealer[v][i] # "finished" /\ stealer'[v][i] # "unset")
    BY <1>1
  <2> QED  BY <1>1, <2>1, OthersWait DEF Orderly, Hushed
<1>5. TokensNow'
  <2> SUFFICES ASSUME ~stopped'
               PROVE  Tokens(sleepers', Held', Freed', Why', Naps', Awaits', Signalled', stealer')
    BY DEF TokensNow
  <2>1. Tokens(sleepers, Held, Freed, Why, Naps, Awaits, Signalled, stealer) /\ sleepers' = sleepers
    BY DEF Orderly, TokensNow, Hushed
  <2>2. Naps[w] = "no"
    BY Muted DEF MutedFacts, Muted1, Hushed
  <2>3. \A v \in Worker, i \in Slot :
          \/ stealer'[v][i] = stealer[v][i]
          \/ stealer'[v][i] = "unset" /\ Naps[v] # "end"
          \/ stealer'[v][i] = "finished" /\ stealer[v][i] # v
    BY <2>2
  <2>4. \A v \in Worker :
          /\ Held'[v] = Held[v] /\ Freed'[v] = Freed[v] /\ Why'[v] = Why[v] /\ Naps'[v] = Naps[v]
          /\ Awaits'[v] = Awaits[v] /\ (Signalled'[v] <=> Signalled[v])
    BY HushedViews
  <2> QED  BY <1>1, <2>1, <2>3, <2>4, TokensKeep
<1>6. Stops'
  <2>1. stopped' = stopped /\ injected' = injected
    BY DEF Hushed
  <2>2. CASE ~stopped
    BY <2>1, <2>2, StopsRun
  <2>3. CASE stopped
    BY <2>1, <2>3, HushedViews, StopsStay
  <2> QED  BY <2>2, <2>3
<1> QED  BY <1>1, <1>2, <1>3, <1>4, <1>5, <1>6 DEF Orderly

HuntsPc == {"leap", "leapSteal", "leapt", "yieldSteal", "randomSteal"}

(* What a call of w has to know of the metadata of its task.               *)
Knows(w, f, M) == /\ f.pc \in WaitPc \ {"stolen"} => M[w][f.ref[2]] # "unset"
                  /\ f.pc \in HuntsPc => f.other # w
Ready(w, f, M) == f.pc = "popStolen" => M[w][f.ref[2]] = "finished"

(* Waits for the whole stack from the calls that changed.                  *)
LEMMA WaitsAll ==
  ASSUME SInv, WaitsNow, NEW w \in Worker, Local(w),
         \A i \in Slot : i < Heads[w] /\ stealer[w][i] # "unset" => stealer'[w][i] # "unset",
         \A l \in 1..Depth(w)' : l >= Depth(w) => Knows(w, stack'[w][l], stealer'),
         Depth(w)' > 0 => Ready(w, stack'[w][Depth(w)'], stealer')
  PROVE  Waits(w, stack'[w], stealer')
<1>1. PICK s \in Seq(Frames) : s = stack[w]
  BY GoodParts
<1>2. PICK z \in Seq(Frames) : z = stack'[w]
  BY DEF Local, Steps
<1>3. Waits(w, s, stealer) /\ Depth(w) = Len(s) /\ Depth(w)' = Len(z) /\ Len(s) > 0
  BY <1>1, <1>2 DEF WaitsNow, Depth, Local, Steps
<1>4. \A l \in 1..Len(z) :
           \/ l \in 1..Len(s) /\ z[l] = s[l]
           \/ /\ z[l].pc \in WaitPc \ {"stolen"} => stealer'[w][z[l].ref[2]] # "unset"
              /\ z[l].pc \in {"leap", "leapSteal", "leapt", "yieldSteal", "randomSteal"} => z[l].other # w
  <2> SUFFICES ASSUME NEW l \in 1..Len(z), ~(l \in 1..Len(s) /\ z[l] = s[l])
               PROVE  Knows(w, z[l], stealer')
    BY DEF Knows, HuntsPc
  <2>1. l >= Len(s)
    BY <1>1, <1>2, <1>3 DEF Local
  <2> QED  BY <1>2, <1>3, <2>1
<1>5. Len(z) > 0 /\ z[Len(z)].pc = "popStolen" => stealer'[w][z[Len(z)].ref[2]] = "finished"
  BY <1>2, <1>3 DEF Ready
<1>6. \A l \in 1..Len(s) : s[l].pc \in WaitPc =>
        (stealer[w][s[l].ref[2]] # "unset" => stealer'[w][s[l].ref[2]] # "unset")
  <2> SUFFICES ASSUME NEW l \in 1..Len(s), s[l].pc \in WaitPc
               PROVE  s[l].ref[2] \in Slot /\ s[l].ref[2] < Heads[w]
    OBVIOUS
  <2>1. s[l].ref \in Ref
    BY <1>1, GoodParts DEF Shape, Chain, RefPc
  <2>2. s[l].ref[2] < deque[w].head
    BY <1>1, GoodParts, Waiting
  <2> QED  BY <2>1, <2>2, RefTypes DEF Heads
<1>7. Waits(w, z, stealer')
  <2>1. PICK P : P = stealer'
    OBVIOUS
  <2>2. PICK M : M = stealer
    OBVIOUS
  <2>3. Waits(w, z, P)
    <3>1. Waits(w, s, M) 
      BY <1>3, <2>2
    <3>2. \A l \in 1..Len(z) :
           \/ l \in 1..Len(s) /\ z[l] = s[l]
           \/ /\ z[l].pc \in WaitPc \ {"stolen"} => P[w][z[l].ref[2]] # "unset"
              /\ z[l].pc \in {"leap", "leapSteal", "leapt", "yieldSteal", "randomSteal"} => z[l].other # w
      BY <1>4, <2>1
    <3>3. Len(z) > 0 /\ z[Len(z)].pc = "popStolen" => P[w][z[Len(z)].ref[2]] = "finished"
      BY <1>5, <2>1
    <3>4. \A l \in 1..Len(s) : s[l].pc \in WaitPc =>
        (M[w][s[l].ref[2]] # "unset" => P[w][s[l].ref[2]] # "unset")
      BY <1>6, <2>1, <2>2
    <3> QED  BY <3>1, <3>2, <3>3, <3>4, WaitsStay
  <2> QED  BY <2>1, <2>3
<1> QED  BY <1>2, <1>7

(* Waits after Become.                                                     *)
LEMMA BecomeWaits ==
  ASSUME SInv, WaitsNow, NEW w \in Worker, Depth(w) > 0, NEW f \in Frames, Become(w, f),
         \A i \in Slot : i < Heads[w] /\ stealer[w][i] # "unset" => stealer'[w][i] # "unset",
         Knows(w, f, stealer'), Ready(w, f, stealer')
  PROVE  Local(w) /\ Waits(w, stack'[w], stealer')
<1>1. /\ Local(w) /\ Depth(w)' = Depth(w) /\ Depth(w) \in Nat /\ stack'[w][Depth(w)] = f
  BY JobBecome, BecomeStack DEF Local, Top, SInv
<1> QED  BY <1>1, WaitsAll

(* Waits after Call.                                                       *)
LEMMA CallWaits ==
  ASSUME SInv, WaitsNow, NEW w \in Worker, Depth(w) > 0, NEW f \in Frames, NEW b \in Frames, Call(w, f, b),
         \A i \in Slot : i < Heads[w] /\ stealer[w][i] # "unset" => stealer'[w][i] # "unset",
         Knows(w, f, stealer'), Ready(w, f, stealer'), Knows(w, b, stealer')
  PROVE  Local(w) /\ Waits(w, stack'[w], stealer')
<1>1. /\ Local(w) /\ Depth(w)' = Depth(w) + 1 /\ Depth(w) \in Nat
      /\ stack'[w][Depth(w)] = b /\ stack'[w][Depth(w) + 1] = f
  BY JobCall DEF Local
<1>2. \A l \in 1..(Depth(w) + 1) : l >= Depth(w) => l = Depth(w) \/ l = Depth(w) + 1
  BY <1>1
<1> QED  BY <1>1, <1>2, WaitsAll

(* Waits after Return.                                                     *)
LEMMA ReturnWaits ==
  ASSUME SInv, WaitsNow, NEW w \in Worker, Depth(w) > 0, Return(w),
         \A i \in Slot : i < Heads[w] /\ stealer[w][i] # "unset" => stealer'[w][i] # "unset",
         Depth(w) > 1 => Ready(w, Under1(w), stealer')
  PROVE  Local(w) /\ Waits(w, stack'[w], stealer')
<1>1. /\ Local(w) /\ Depth(w)' = Depth(w) - 1 /\ Depth(w) \in Nat
      /\ Depth(w) > 1 => stack'[w][Depth(w) - 1] = Under1(w)
  BY JobReturn DEF Local, Under1
<1> QED  BY <1>1, WaitsAll

(* A step that leaves one head as it was leaves all.                       *)
LEMMA HeadsKept ==
  ASSUME SInv, NEW w \in Worker, NEW e, deque' = [deque EXCEPT ![w] = e], e.head = deque[w].head
  PROVE  Heads' = Heads
<1>1. deque \in [Worker -> Deque]
  BY DEF SInv, TypeOK
<1>2. \A v \in Worker : deque'[v].head = deque[v].head
  BY <1>1
<1> QED  BY <1>2 DEF Heads

(* The heads after one deque changed.                                      *)
LEMMA HeadsSet ==
  ASSUME SInv, NEW w \in Worker, NEW e, deque' = [deque EXCEPT ![w] = e]
  PROVE  Heads'[w] = e.head /\ (\A v \in Worker \ {w} : Heads'[v] = Heads[v])
         /\ \A v \in Worker : Heads[v] = deque[v].head /\ Heads[v] \in Nat
<1>1. deque \in [Worker -> Deque] /\ \A v \in Worker : deque[v].head \in Nat
  BY GoodParts DEF SInv, TypeOK
<1> QED  BY <1>1 DEF Heads

(* A step that leaves the tasks alone.                                     *)
Calm(w) == /\ Orderly /\ Advance /\ Depth(w) > 0 /\ Top(w).pc \notin LoudPc \cup StopPc /\ Heads' = Heads
           /\ UNCHANGED <<arrays, semaphore, injected, sleepers, stopped, history>>

(* A step that changes no job, head or view keeps Orderly.                 *)
LEMMA CalmStep ==
  ASSUME NEW w \in Worker, Calm(w), Local(w), Job' = Job, Waits(w, stack'[w], stealer'),
         Depth(w)' > 0 => Top(w)'.pc \notin LoudPc
  PROVE  Orderly'
<1>1. WorkNow'
  BY DEF WorkNow, Orderly, Calm, arrays, history
<1>2. Hushed(w)
  BY DEF Hushed, Loud, Calm, Local
<1>3. stealer' = stealer /\ Heads' = Heads
  BY DEF Calm, arrays
<1> QED  BY <1>1, <1>2, <1>3, QuietStep DEF Calm

(* The same for Become.                                                    *)
LEMMA CalmBecome ==
  ASSUME NEW w \in Worker, Calm(w), NEW f \in Frames, Become(w, f), JobOf(f) = JobOf(Top(w)),
         f.pc \notin LoudPc, Knows(w, f, stealer), Ready(w, f, stealer)
  PROVE  Orderly'
<1>1. SInv /\ WaitsNow /\ Depth(w) > 0 /\ stealer' = stealer
  BY DEF Calm, Orderly, arrays
<1>2. Job' = Job
  BY <1>1, JobQuiet
<1>3. Top(w)' = f
  BY <1>1, JobBecome
<1>4. Knows(w, f, stealer') /\ Ready(w, f, stealer')
  BY <1>1
<1>5. Local(w) /\ Waits(w, stack'[w], stealer')
  BY <1>1, <1>4, BecomeWaits
<1> QED  BY <1>2, <1>3, <1>5, CalmStep

(* The same for Call.                                                      *)
LEMMA CalmCall ==
  ASSUME NEW w \in Worker, Calm(w), NEW f \in Frames, NEW b \in Frames, Call(w, f, b),
         JobOf(b) = JobOf(Top(w)), JobOf(f) = NoJob,
         f.pc \notin LoudPc, Knows(w, f, stealer), Ready(w, f, stealer), Knows(w, b, stealer)
  PROVE  Orderly'
<1>1. SInv /\ WaitsNow /\ Depth(w) > 0 /\ stealer' = stealer
  BY DEF Calm, Orderly, arrays
<1>2. Job' = Job
  BY <1>1, JobQuiet
<1>3. Top(w)' = f
  BY <1>1, JobCall
<1>4. Knows(w, f, stealer') /\ Ready(w, f, stealer') /\ Knows(w, b, stealer')
  BY <1>1
<1>5. Local(w) /\ Waits(w, stack'[w], stealer')
  BY <1>1, <1>4, CallWaits
<1> QED  BY <1>2, <1>3, <1>5, CalmStep

(* The same for Return.                                                    *)
LEMMA CalmReturn ==
  ASSUME NEW w \in Worker, Calm(w), Return(w), JobOf(Top(w)) = NoJob,
         Depth(w) > 1 => Under1(w).pc \notin LoudPc /\ Ready(w, Under1(w), stealer)
  PROVE  Orderly'
<1>1. SInv /\ WaitsNow /\ Depth(w) > 0 /\ stealer' = stealer
  BY DEF Calm, Orderly, arrays
<1>2. Job' = Job
  BY <1>1, JobQuiet
<1>3. Depth(w)' = Depth(w) - 1 /\ Depth(w) \in Nat /\ (Depth(w) > 1 => Top(w)' = Under1(w))
  BY <1>1, JobReturn
<1>4. Depth(w) > 1 => Ready(w, Under1(w), stealer')
  BY <1>1
<1>5. Local(w) /\ Waits(w, stack'[w], stealer')
  BY <1>1, <1>4, ReturnWaits
<1>6. Depth(w)' > 0 => Top(w)'.pc \notin LoudPc
  BY <1>3
<1> QED  BY <1>2, <1>5, <1>6, CalmStep

WorkPc == BodyPc \cup {"runOwn", "markAsFinished"}

(* Calls that stand for no work.                                           *)
LEMMA NoJobs ==
  /\ \A f : f.pc \notin WorkPc => JobOf(f) = NoJob
  /\ \A f, M : \A w : f.pc \notin WaitPc \cup {"randomSteal"} => Knows(w, f, M) /\ Ready(w, f, M)
BY DEF WorkPc, JobOf, Knows, Ready, WaitPc, HuntsPc

(* What a frame keeps when its pc changes.                                 *)
LEMMA JumpFrame ==
  ASSUME NEW g \in Frames, NEW pc \in Pc
  PROVE  LET f == [g EXCEPT !.pc = pc] IN
         /\ f \in Frames /\ f.pc = pc /\ f.task = g.task /\ f.todo = g.todo /\ f.base = g.base
         /\ f.ref = g.ref /\ f.other = g.other /\ f.t = g.t
BY DEF Frames

(* The same for Jump.                                                      *)
LEMMA CalmJump ==
  ASSUME NEW w \in Worker, Calm(w), NEW pc \in Pc, Jump(w, pc), Top(w).pc \notin WorkPc,
         pc \notin LoudPc \cup WorkPc \cup WaitPc \cup {"randomSteal"}
  PROVE  Orderly'
<1>1. Top(w) \in Frames
  BY GoodParts DEF Calm, Orderly
<1> DEFINE f == [Top(w) EXCEPT !.pc = pc]
<1>2. f \in Frames /\ f.pc = pc /\ Become(w, f)
  BY <1>1, JumpFrame DEF Jump
<1> HIDE DEF f
<1>3. JobOf(f) = NoJob /\ JobOf(Top(w)) = NoJob /\ Knows(w, f, stealer) /\ Ready(w, f, stealer)
  BY <1>2, NoJobs
<1> QED  BY <1>2, <1>3, CalmBecome

(* The same for a return from a call that stands for no work.              *)
LEMMA CalmBack ==
  ASSUME NEW w \in Worker, Calm(w), Return(w), Top(w).pc \in PushPc \cup GrowPc \cup PublishPc
  PROVE  Orderly'
<1>1. JobOf(Top(w)) = NoJob
  BY NoJobs DEF WorkPc, BodyPc, PushPc, GrowPc, PublishPc
<1>2. Depth(w) > 1 => Under1(w).pc \notin LoudPc /\ Ready(w, Under1(w), stealer)
  <2> SUFFICES ASSUME Depth(w) > 1  PROVE Under1(w).pc \notin LoudPc /\ Ready(w, Under1(w), stealer)
    OBVIOUS
  <2>1. MayCall(Under1(w), Top(w))
    BY Caller DEF Calm, Orderly
  <2>2. Under1(w).pc \in {"body", "overflow", "runOwn"}
    BY <2>1 DEF MayCall, PushPc, GrowPc, PublishPc, BodyPc, WaitPc, ShrinkPc, ReleasePc, TakenPc,
       SleepPc
  <2> QED  BY <2>2, NoJobs DEF LoudPc, HolderPc, SleepPc, WaitPc
<1> QED  BY <1>1, <1>2, CalmReturn

-----------------------------------------------------------------------------
(* THE STEPS, ONE BY ONE                                                   *)

(* SpawnFull keeps Orderly.                                                *)
LEMMA SpawnFullInv ==
  ASSUME Orderly, Advance, NEW w \in Worker, SpawnFull(w)
  PROVE  Orderly'
<1>1. SInv
  BY DEF Orderly
<1>2. At(w, "body") /\ Depth(w) > 0 /\ Top(w).pc = "body" /\ Top(w) \in Frames
      /\ UNCHANGED <<deque, arrays, signals, bunk, stopped, history>>
  BY <1>1, AtTop DEF SpawnFull, Spawns
<1>3. Calm(w)
  BY <1>2 DEF Calm, Heads, signals, bunk, LoudPc, HolderPc, SleepPc, StopPc
<1> DEFINE f == [Top(w) EXCEPT !.pc = "overflow"]
<1>4. /\ f \in Frames /\ f.pc = "overflow" /\ f.task = Top(w).task /\ f.todo = Top(w).todo
      /\ f.base = Top(w).base
  BY <1>2, JumpFrame DEF Pc, BodyPc
<1>5. Jump(w, "overflow") \/ CallThen(w, Frame("growShared"), "overflow")
  BY DEF SpawnFull
<1>6. CASE Jump(w, "overflow")
  <2>1. Become(w, f)
    BY <1>6 DEF Jump
  <2> HIDE DEF f
  <2>2. JobOf(f) = JobOf(Top(w)) /\ f.pc \notin LoudPc
    BY <1>2, <1>4 DEF JobOf, BodyPc, Todo, LoudPc, HolderPc, SleepPc
  <2>3. Knows(w, f, stealer) /\ Ready(w, f, stealer)
    BY <1>4, NoJobs DEF WaitPc
  <2> QED  BY <1>3, <1>4, <2>1, <2>2, <2>3, CalmBecome
<1>7. CASE CallThen(w, Frame("growShared"), "overflow")
  <2>1. Call(w, Frame("growShared"), f)
    BY <1>7 DEF CallThen
  <2> HIDE DEF f
  <2>2. JobOf(f) = JobOf(Top(w))
    BY <1>2, <1>4 DEF JobOf, BodyPc, Todo
  <2>3. Knows(w, f, stealer)
    BY <1>4, NoJobs DEF WaitPc
  <2>4. Frame("growShared") \in Frames /\ Frame("growShared").pc = "growShared"
    BY NewFrames DEF Pc, GrowPc
  <2>5. /\ JobOf(Frame("growShared")) = NoJob /\ Frame("growShared").pc \notin LoudPc
        /\ Knows(w, Frame("growShared"), stealer) /\ Ready(w, Frame("growShared"), stealer)
    BY <2>4, NoJobs DEF WaitPc, WorkPc, BodyPc, LoudPc, HolderPc, SleepPc
  <2> QED  BY <1>3, <1>4, <2>1, <2>2, <2>3, <2>4, <2>5, CalmCall
<1> QED  BY <1>5, <1>6, <1>7

(* PushShare keeps Orderly.                                                *)
LEMMA PushShareInv ==
  ASSUME Orderly, Advance, NEW w \in Worker, PushShare(w)
  PROVE  Orderly'
<1>1. SInv
  BY DEF Orderly
<1>2. PICK pc \in PushPc : At(w, pc)
  BY DEF PushShare, PushPc
<1>3. Depth(w) > 0 /\ Top(w).pc = pc
  BY <1>1, <1>2, AtTop
<1>4. Heads' = Heads
  <2>1. PICK d \in Deque : d = deque[w]
    BY <1>1, GoodParts
  <2>2. CASE deque' = [deque EXCEPT ![w] = [@ EXCEPT !.allStolen = FALSE,
                      !.splitCopy = deque[w].head, !.allStolenCopy = FALSE]]
    <3> DEFINE e == [d EXCEPT !.allStolen = FALSE, !.splitCopy = deque[w].head, !.allStolenCopy = FALSE]
    <3>1. deque' = [deque EXCEPT ![w] = e]
      BY <1>1, <2>1, <2>2 DEF SInv, TypeOK
    <3>2. e.head = d.head
      BY DEF Deque
    <3> HIDE DEF e
    <3> QED  BY <1>1, <2>1, <3>1, <3>2, HeadsKept
  <2>3. CASE deque' = [deque EXCEPT ![w].splitRequest = FALSE]
    <3> DEFINE e == [d EXCEPT !.splitRequest = FALSE]
    <3>1. deque' = [deque EXCEPT ![w] = e]
      BY <1>1, <2>1, <2>3 DEF SInv, TypeOK
    <3>2. e.head = d.head
      BY DEF Deque
    <3> HIDE DEF e
    <3> QED  BY <1>1, <2>1, <3>1, <3>2, HeadsKept
  <2> QED  BY <2>2, <2>3 DEF PushShare
<1>5. Calm(w)
  BY <1>3, <1>4 DEF Calm, PushShare, signals, bunk, LoudPc, HolderPc, SleepPc, StopPc, PushPc
<1>6. Jump(w, "pushJobs") \/ Jump(w, "publishWork") \/ Return(w)
  BY DEF PushShare
<1>7. Top(w).pc \notin WorkPc
  BY <1>3 DEF WorkPc, PushPc, BodyPc
<1>8. ASSUME NEW p \in {"pushJobs", "publishWork"}, Jump(w, p)  PROVE Orderly'
  <2>1. p \in Pc /\ p \notin LoudPc \cup WorkPc \cup WaitPc \cup {"randomSteal"}
    BY DEF Pc, PushPc, PublishPc, LoudPc, HolderPc, SleepPc, WorkPc, BodyPc, WaitPc
  <2> QED  BY <1>5, <1>7, <1>8, <2>1, CalmJump
<1> QED  BY <1>3, <1>5, <1>6, <1>8, CalmBack

(* GrowShared keeps Orderly.                                               *)
LEMMA GrowSharedInv ==
  ASSUME Orderly, Advance, NEW w \in Worker, GrowShared(w)
  PROVE  Orderly'
<1>1. SInv
  BY DEF Orderly
<1>2. PICK pc \in GrowPc : At(w, pc)
  BY DEF GrowShared, GrowPc
<1>3. Depth(w) > 0 /\ Top(w).pc = pc /\ Top(w) \in Frames
  BY <1>1, <1>2, AtTop
<1>4. Heads' = Heads
  <2>1. PICK d \in Deque : d = deque[w]
    BY <1>1, GoodParts
  <2>2. ASSUME NEW n, deque' = [deque EXCEPT ![w] = [deque[w] EXCEPT !.split = n, !.splitCopy = n]]
        PROVE  Heads' = Heads
    <3> DEFINE e == [d EXCEPT !.split = n, !.splitCopy = n]
    <3>1. deque' = [deque EXCEPT ![w] = e]
      BY <2>1, <2>2
    <3>2. e.head = d.head
      BY DEF Deque
    <3> HIDE DEF e
    <3> QED  BY <1>1, <2>1, <3>1, <3>2, HeadsKept
  <2>3. CASE deque' = [deque EXCEPT ![w].splitRequest = FALSE]
    <3> DEFINE e == [d EXCEPT !.splitRequest = FALSE]
    <3>1. deque' = [deque EXCEPT ![w] = e]
      BY <1>1, <2>1, <2>3 DEF SInv, TypeOK
    <3>2. e.head = d.head
      BY DEF Deque
    <3> HIDE DEF e
    <3> QED  BY <1>1, <2>1, <3>1, <3>2, HeadsKept
  <2> QED  BY <2>2, <2>3 DEF GrowShared, Heads
<1>5. Calm(w)
  BY <1>3, <1>4 DEF Calm, GrowShared, signals, bunk, LoudPc, HolderPc, SleepPc, StopPc, GrowPc
<1>6. \/ \E p \in {"growAsked", "growMove", "growClear", "publishWork"} : Jump(w, p)
      \/ Become(w, [Top(w) EXCEPT !.pc = "growMove", !.t = 1]) \/ Return(w)
  BY DEF GrowShared
<1>7. Top(w).pc \notin WorkPc
  BY <1>3 DEF WorkPc, GrowPc, BodyPc
<1>8. ASSUME NEW p \in {"growAsked", "growMove", "growClear", "publishWork"}, Jump(w, p)  PROVE Orderly'
  <2>1. p \in Pc /\ p \notin LoudPc \cup WorkPc \cup WaitPc \cup {"randomSteal"}
    BY DEF Pc, GrowPc, PublishPc, LoudPc, HolderPc, SleepPc, WorkPc, BodyPc, WaitPc
  <2> QED  BY <1>5, <1>7, <1>8, <2>1, CalmJump
<1>9. ASSUME Become(w, [Top(w) EXCEPT !.pc = "growMove", !.t = 1])  PROVE Orderly'
  <2> DEFINE f == [Top(w) EXCEPT !.pc = "growMove", !.t = 1]
  <2>1. f \in Frames /\ f.pc = "growMove"
    BY <1>3 DEF Frames, Pc, GrowPc
  <2> HIDE DEF f
  <2>2. /\ JobOf(f) = NoJob /\ JobOf(Top(w)) = NoJob /\ f.pc \notin LoudPc
        /\ Knows(w, f, stealer) /\ Ready(w, f, stealer)
    BY <1>7, <2>1, NoJobs DEF WorkPc, BodyPc, WaitPc, LoudPc, HolderPc, SleepPc
  <2> QED  BY <1>5, <1>9, <2>1, <2>2, CalmBecome DEF f
<1> QED  BY <1>3, <1>5, <1>6, <1>8, <1>9, CalmBack

(* The views of w, by its running call.                                    *)
PcFact1(w) ==
  Depth(w) > 0 =>
    /\ Top(w).pc \notin HolderPc => Held[w] = None
    /\ Top(w).pc \in HolderPc => Held[w] = Top(w).other
    /\ Top(w).pc # "release" => Freed[w] = None /\ Why[w] = "none"
    /\ Top(w).pc = "release" => Freed[w] = Top(w).other
    /\ Top(w).pc \notin SleepPc => Naps[w] = "no" /\ Awaits[w] = None
    /\ Top(w).pc \notin SleepPc \cup {"woken"} => ~Pending(w)
    /\ Top(w).pc # "reset" => (Signalled[w] <=> semaphore[w] = 1)
    /\ Top(w).pc \notin {"runStolenTask", "inject"} =>
         Claim[w] = IF Pending(w) THEN injected[w] ELSE None
    /\ Top(w).pc = "runStolenTask" => Claim[w] = Top(w).ref
    /\ Top(w).pc = "inject" => Claim[w] = <<w, Top(w).t>>
    /\ w \in Injecting <=> Top(w).pc = "inject"
PcFacts == \A w \in Worker : PcFact1(w)

(* What the views of a thread are at each pc.                              *)
LEMMA PcNow == PcFacts
<1> SUFFICES ASSUME NEW w \in Worker, Depth(w) > 0  PROVE PcFact1(w)
  BY DEF PcFacts, PcFact1
<1>1. \A pc : At(w, pc) <=> Top(w).pc = pc
  BY DEF At
<1>2. /\ Top(w).pc \notin HolderPc => Held[w] = None
      /\ Top(w).pc \in HolderPc => Held[w] = Top(w).other
      /\ w \in Injecting <=> Top(w).pc = "inject"
  BY <1>1 DEF Held, Injecting
<1>3. /\ Top(w).pc # "release" => Freed[w] = None /\ Why[w] = "none"
      /\ Top(w).pc = "release" => Freed[w] = Top(w).other
  BY <1>1 DEF Freed, Why
<1>4. Top(w).pc \notin SleepPc => Naps[w] = "no" /\ Awaits[w] = None
  BY DEF Naps, Awaits
<1>5. Top(w).pc \notin SleepPc \cup {"woken"} => ~Pending(w)
  BY <1>1, <1>4 DEF Pending
<1>6. Top(w).pc # "reset" => (Signalled[w] <=> semaphore[w] = 1)
  BY <1>1, Muted DEF MutedFacts, Muted1
<1>7. /\ Top(w).pc \notin {"runStolenTask", "inject"} =>
           Claim[w] = IF Pending(w) THEN injected[w] ELSE None
      /\ Top(w).pc = "runStolenTask" => Claim[w] = Top(w).ref
      /\ Top(w).pc = "inject" => Claim[w] = <<w, Top(w).t>>
  BY <1>1 DEF Claim
<1> QED  BY <1>2, <1>3, <1>4, <1>5, <1>6, <1>7 DEF PcFact1

(* The same after the step.                                                *)
LEMMA PcNext == PcFacts'
BY PcNow, PTL

(* The claims of the others when w neither gets nor lets go of a sleeper.  *)
LEMMA OtherClaims ==
  ASSUME NEW w \in Worker, Steps(w), UNCHANGED <<sleepers, injected, stopped>>, Held'[w] = Held[w]
  PROVE  \A u \in Worker \ {w} : /\ Claim'[u] = Claim[u] /\ (Pending(u)' <=> Pending(u))
                                 /\ (u \in Injecting => u \in Injecting')
<1> SUFFICES ASSUME NEW u \in Worker, u # w
             PROVE  /\ Claim'[u] = Claim[u] /\ (Pending(u)' <=> Pending(u))
                    /\ (u \in Injecting => u \in Injecting')
  OBVIOUS
<1>1. \A v \in Worker : Held'[v] = Held[v]
  BY OtherViews
<1>2. /\ Naps'[u] = Naps[u] /\ (\A pc : At(u, pc)' <=> At(u, pc)) /\ Top(u)' = Top(u)
      /\ (u \in Injecting => u \in Injecting')
  BY OtherViews
<1>3. Listed(u)' <=> Listed(u)
  BY DEF Listed
<1>4. Pending(u)' <=> Pending(u)
  BY <1>1, <1>2, <1>3 DEF Pending
<1> QED  BY <1>2, <1>4 DEF Claim

(* Before the shutdown, a step that keeps each part keeps Orderly.         *)
LEMMA LoudStep ==
  ASSUME Orderly, Advance, NEW w \in Worker, Local(w), Top(w).pc \notin StopPc, ~stopped, ~stopped',
         WorkNow', ClaimsNow', UntakenNow', Waits(w, stack'[w], stealer'),
         \A v \in Worker \ {w}, i \in Slot :
           stealer'[v][i] = stealer[v][i] \/ (stealer[v][i] # "finished" /\ stealer'[v][i] # "unset"),
         Tokens(sleepers', Held', Freed', Why', Naps', Awaits', Signalled', stealer')
  PROVE  Orderly'
<1>1. SInv /\ WaitsNow /\ SInv' /\ Steps(w)
  BY DEF Orderly, Advance, Local
<1>2. WaitsNow'
  BY <1>1, OthersWait
<1>3. Stops'
  BY StopsRun
<1> QED  BY <1>1, <1>2, <1>3 DEF Orderly, TokensNow

(* The same, when no job, head or slot changes.                            *)
LEMMA LoudCalm ==
  ASSUME Orderly, Advance, NEW w \in Worker, Local(w), Top(w).pc \notin StopPc, ~stopped, ~stopped',
         Job' = Job, Heads' = Heads, UNCHANGED <<arrays, history>>,
         ClaimsNow', Waits(w, stack'[w], stealer),
         Tokens(sleepers', Held', Freed', Why', Naps', Awaits', Signalled', stealer)
  PROVE  Orderly'
<1>1. stealer' = stealer /\ slot' = slot /\ begun' = begun /\ done' = done
  BY DEF arrays, history
<1>2. WorkNow'
  BY <1>1 DEF WorkNow, Orderly
<1>3. UntakenNow'
  BY <1>1, UntakenNext DEF Orderly
<1> QED  BY <1>1, <1>2, <1>3, LoudStep

(* What a thief finds is a task that nobody has taken.                     *)
LEMMA TailShared ==
  ASSUME SInv, NEW v \in Worker, deque[v].tail < deque[v].split
  PROVE  /\ deque[v].tail \in Slot /\ deque[v].tail < Heads[v] /\ deque[v].tail \notin TakenNow[v]
         /\ Now(v).pc # "correctTail"
<1>1. PICK d \in Deque : d = deque[v]
  BY GoodParts
<1>2. /\ d.head \in Nat /\ d.splitCopy \in Nat /\ d.tail \in Nat /\ d.split \in Nat
      /\ d.split <= kTaskArraySize /\ kTaskArraySize \in Nat /\ d.tail < d.split
  BY <1>1, DequeTypes
<1>3. d.tail \in Slot
  BY <1>2 DEF Slot
<1>4. IF Depth(v) > 0 THEN Fits(d, Top(v)) ELSE Rested(d)
  BY <1>1, GoodParts DEF Owned, Depth, Top
<1>5. Fits(d, Now(v))
  <2>1. CASE Depth(v) > 0
    BY <1>4, <2>1 DEF Now
  <2>2. CASE ~(Depth(v) > 0)
    <3>1. Now(v).pc = "body"
      BY <2>2 DEF Now, Frame
    <3> QED  BY <1>4, <2>2, <3>1 DEF Fits, Moving, Asks, Sharing
  <2> QED  BY <2>1, <2>2
<1>6. d.tail < d.head /\ (~d.allStolenCopy \/ Now(v).pc = "pushShare") /\ Now(v).pc # "correctTail"
  <2>1. CASE Now(v).pc \notin Moving
    BY <1>2, <1>5, <2>1 DEF Fits, Rested, Moving
  <2>2. CASE Now(v).pc = "pushShare"
    BY <1>2, <1>5, <2>2 DEF Fits
  <2>3. CASE Now(v).pc = "shrinkShared"
    BY <1>2, <1>5, <2>3 DEF Fits
  <2>4. CASE Now(v).pc = "shrinkStore"
    BY <1>2, <1>5, <2>4 DEF Fits
  <2>5. CASE Now(v).pc = "correctTail"
    BY <1>2, <1>5, <2>5 DEF Fits
  <2> QED  BY <2>1, <2>2, <2>3, <2>4, <2>5 DEF Moving
<1>7. ~TakenSlot(d, Now(v), d.tail)
  BY <1>2, <1>6 DEF TakenSlot
<1> QED  BY <1>1, <1>3, <1>6, <1>7 DEF Heads, TakenNow

(* All views stay the same.                                                *)
LEMMA TokensSame ==
  ASSUME Orderly, ~stopped, NEW w \in Worker, Steps(w), UNCHANGED <<semaphore, sleepers>>,
         Held'[w] = Held[w], Freed'[w] = Freed[w], Why'[w] = Why[w], Naps'[w] = Naps[w],
         Awaits'[w] = Awaits[w], Signalled'[w] <=> Signalled[w]
  PROVE  Tokens(sleepers', Held', Freed', Why', Naps', Awaits', Signalled', stealer)
<1>1. \A v \in Worker :
        /\ Held'[v] = Held[v] /\ Freed'[v] = Freed[v] /\ Why'[v] = Why[v] /\ Naps'[v] = Naps[v]
        /\ Awaits'[v] = Awaits[v] /\ (Signalled'[v] <=> Signalled[v])
  BY OtherViews
<1>2. /\ Tokens(sleepers, Held, Freed, Why, Naps, Awaits, Signalled, stealer)
      /\ sleepers' = sleepers /\ sleepers \in Seq(Worker)
  BY DEF Orderly, TokensNow, SInv, TypeOK
<1> QED  BY <1>1, <1>2, TokensKeep

(* Steal keeps Orderly.                                                    *)
LEMMA StealInv ==
  ASSUME Orderly, Advance, NEW w \in Worker, Depth(w) > 0, NEW victim \in Worker, victim # w,
         NEW hit \in Frames, NEW miss \in Frames, Steal(w, victim, hit, miss),
         Top(w).pc \in {"leapSteal", "yieldSteal", "randomSteal"},
         hit.pc \in HuntPc, miss.pc \in HuntPc, Knows(w, hit, stealer), Knows(w, miss, stealer),
         UNCHANGED <<arrays, signals, bunk, stopped, history>>
  PROVE  Orderly'
<1>1. SInv /\ WaitsNow /\ UNCHANGED <<semaphore, injected, sleepers, stopped>> /\ stealer' = stealer
  BY DEF Orderly, signals, bunk, arrays
<1>2. PICK d \in Deque : d = deque[victim]
  BY <1>1, GoodParts
<1>3. Top(w).pc \notin LoudPc \cup StopPc \cup WorkPc
  BY DEF LoudPc, HolderPc, SleepPc, StopPc, WorkPc, BodyPc
<1>4. \A f : f.pc \in HuntPc => f.pc \notin LoudPc /\ f.pc \notin WorkPc /\ Ready(w, f, stealer)
  BY DEF HuntPc, LoudPc, HolderPc, SleepPc, WorkPc, BodyPc, Ready
<1>5. JobOf(Top(w)) = NoJob /\ JobOf(hit) = NoJob /\ JobOf(miss) = NoJob
  BY <1>3, <1>4, NoJobs
<1>6. CASE ~(d.tail < d.split)
  <2> DEFINE e == [d EXCEPT !.splitRequest = @ \/ d.tail < kTaskArraySize]
  <2>1. deque' = [deque EXCEPT ![victim] = e] /\ Become(w, miss)
    <3>1. deque' = [deque EXCEPT ![victim].splitRequest = @ \/ d.tail < kTaskArraySize] /\ Become(w, miss)
      BY <1>2, <1>6 DEF Steal
    <3> QED  BY <1>1, <1>2, <3>1 DEF SInv, TypeOK
  <2>2. e.head = d.head
    BY DEF Deque
  <2> HIDE DEF e
  <2>3. Heads' = Heads
    BY <1>1, <1>2, <2>1, <2>2, HeadsKept
  <2>4. Calm(w)
    BY <1>1, <1>3, <2>3 DEF Calm
  <2> QED  BY <1>4, <1>5, <2>1, <2>4, CalmBecome
<1>7. CASE d.tail < d.split
  <2> DEFINE e == [d EXCEPT !.tail = @ + 1]
             i == d.tail
             g == OnSlot("runStolenTask", <<victim, i>>)
  <2>1. deque' = [deque EXCEPT ![victim] = e] /\ Call(w, g, hit)
    <3>1. deque' = [deque EXCEPT ![victim].tail = @ + 1] /\ Call(w, g, hit)
      BY <1>2, <1>7 DEF Steal
    <3> QED  BY <1>1, <1>2, <3>1 DEF SInv, TypeOK
  <2>2. e.head = d.head /\ e.tail = i + 1 /\ i \in Nat
    BY DEF Deque
  <2>3. i \in Slot /\ i < Heads[victim] /\ i \notin TakenNow[victim] /\ Now(victim).pc # "correctTail"
    BY <1>1, <1>2, <1>7, TailShared
  <2>4. <<victim, i>> \in Ref
    BY <2>3 DEF Ref
  <2>5. g \in Frames /\ g.pc = "runStolenTask" /\ g.ref = <<victim, i>>
    <3>1. "runStolenTask" \in Pc
      BY DEF Pc, TakenPc
    <3> QED  BY <2>4, <3>1, NewFrames
  <2> HIDE DEF e, g
  <2>6. Heads' = Heads
    BY <1>1, <1>2, <2>1, <2>2, HeadsKept
  <2>7. ~stopped /\ ~stopped'
    BY <1>1, <2>3, AfterStop
  <2>8. JobOf(g) = NoJob /\ Knows(w, g, stealer) /\ Ready(w, g, stealer)
    BY <2>5, NoJobs DEF WorkPc, BodyPc, WaitPc
  <2>9. Job' = Job
    BY <1>1, <1>5, <2>1, <2>5, <2>8, JobQuiet
  <2>10. /\ Local(w) /\ Waits(w, stack'[w], stealer) /\ Top(w)' = g /\ Steps(w)
         /\ Depth(w)' > 0 /\ Depth(w) > 0
    BY <1>1, <2>1, <2>5, <2>8, CallWaits, JobCall
  <2>11. PcFact1(w) /\ PcFact1(w)'
    BY PcNow, PcNext DEF PcFacts
  <2>12. /\ Held[w] = None /\ Freed[w] = None /\ Why[w] = "none" /\ Naps[w] = "no"
         /\ Awaits[w] = None /\ (Signalled[w] <=> semaphore[w] = 1)
    BY <1>3, <2>10, <2>11 DEF PcFact1, LoudPc, HolderPc, SleepPc
  <2>13. /\ Held'[w] = None /\ Freed'[w] = None /\ Why'[w] = "none" /\ Naps'[w] = "no"
         /\ Awaits'[w] = None /\ (Signalled'[w] <=> semaphore'[w] = 1) /\ ~Pending(w)'
         /\ Claim'[w] = <<victim, i>>
    BY <2>5, <2>10, <2>11 DEF PcFact1, LoudPc, HolderPc, SleepPc
  <2>14. Tokens(sleepers', Held', Freed', Why', Naps', Awaits', Signalled', stealer)
    BY <1>1, <2>7, <2>10, <2>12, <2>13, TokensSame
  <2>15. \A u \in Worker \ {w} : /\ Claim'[u] = Claim[u] /\ (Pending(u)' <=> Pending(u))
                                 /\ (u \in Injecting => u \in Injecting')
    BY <1>1, <2>10, <2>12, <2>13, OtherClaims
  <2>16. ClaimsNow'
    <3>1. i \in TakenNow'[victim]
      <4>1. Now(victim)' = Now(victim)
        BY <2>10 DEF Now, Steps, Depth, Top
      <4>2. deque'[victim] = e
        BY <1>1, <2>1, DequeNow
      <4>3. TakenSlot(e, Now(victim), i)
        BY <2>2, <2>3 DEF TakenSlot
      <4> QED  BY <2>3, <4>1, <4>2, <4>3 DEF TakenNow
    <3>2. stealer[victim][i] = "unset"
      BY <2>3 DEF Orderly, UntakenNow, Untaken
    <3>3. Claims(Claim, Injecting, Heads, stealer, TakenNow)
      BY DEF Orderly, ClaimsNow
    <3>4. \A u \in Worker, j \in Slot : j < Heads[u] /\ j \in TakenNow[u] => j \in TakenNow'[u]
      BY TakenStays
    <3>5. Claims(Claim', Injecting', Heads, stealer, TakenNow')
      BY <2>3, <2>13, <2>15, <3>1, <3>2, <3>3, <3>4, ClaimsMore
    <3>6. PendOK'
      BY <1>1, <2>13, <2>15 DEF PendOK, Orderly, ClaimsNow
    <3> QED  BY <1>1, <2>6, <3>5, <3>6 DEF ClaimsNow
  <2> QED  BY <1>1, <1>3, <2>6, <2>7, <2>9, <2>10, <2>14, <2>16, LoudCalm
<1> QED  BY <1>6, <1>7

(* What the running call knows of the slot it waits for.                   *)
LEMMA TopKnows ==
  ASSUME SInv, WaitsNow, NEW w \in Worker, Depth(w) > 0
  PROVE  Knows(w, Top(w), stealer) /\ Ready(w, Top(w), stealer)
<1>1. PICK s \in Seq(Frames) : s = stack[w] /\ Waits(w, s, stealer)
  BY GoodParts DEF WaitsNow
<1>2. Len(s) \in 1..Len(s) /\ Len(s) > 0 /\ Top(w) = s[Len(s)]
  BY <1>1 DEF Depth, Top
<1> QED  BY <1>1, <1>2 DEF Waits, Knows, Ready, HuntsPc

(* A wait goes on.                                                         *)
LEMMA CalmWait ==
  ASSUME NEW w \in Worker, Calm(w), Top(w).pc \in WaitPc, NEW f \in Frames, Become(w, f),
         f.pc \in WaitPc, f.ref = Top(w).ref,
         Top(w).pc # "stolen" \/ stealer[w][f.ref[2]] # "unset",
         f.pc \in HuntsPc => f.other # w,
         f.pc = "popStolen" => stealer[w][f.ref[2]] = "finished"
  PROVE  Orderly'
<1>1. Knows(w, Top(w), stealer)
  BY TopKnows DEF Calm, Orderly
<1>2. Knows(w, f, stealer) /\ Ready(w, f, stealer)
  BY <1>1 DEF Knows, Ready
<1>3. JobOf(f) = NoJob /\ JobOf(Top(w)) = NoJob
  BY NoJobs DEF WorkPc, BodyPc, WaitPc
<1>4. f.pc \notin LoudPc
  BY DEF LoudPc, HolderPc, SleepPc, WaitPc
<1> QED  BY <1>2, <1>3, <1>4, CalmBecome

(* A step that changes no shared variable but the flags is calm.           *)
LEMMA CalmNow ==
  ASSUME Orderly, Advance, NEW w \in Worker, Depth(w) > 0, Top(w).pc \notin LoudPc \cup StopPc,
         UNCHANGED <<deque, arrays, semaphore, injected, sleepers, stopped, history>>
  PROVE  Calm(w)
BY DEF Calm, Heads

(* Leapfrog keeps Orderly.                                                 *)
LEMMA LeapfrogInv ==
  ASSUME Orderly, Advance, NEW w \in Worker, Leapfrog(w)
  PROVE  Orderly'
<1> DEFINE ref == Top(w).ref
           m == Metadata(ref)
           y == OnSlot("yield", ref)
<1>0. SInv /\ WaitsNow
  BY DEF Orderly
<1>1. UNCHANGED <<arrays, signals, bunk, stopped, history>>
  BY DEF Leapfrog
<1>2. UNCHANGED <<arrays, semaphore, injected, sleepers, stopped, history>>
  BY <1>1 DEF signals, bunk
<1>3. PICK pc \in {"stolen", "leap", "leapSteal", "leapt"} : At(w, pc)
  BY DEF Leapfrog
<1>4. /\ Depth(w) > 0 /\ Top(w).pc = pc /\ Top(w) \in Frames /\ FrameOK(Top(w))
      /\ FitsHead(w, Top(w), deque[w].head) /\ ref \in Ref /\ ref[1] = w
  BY <1>0, <1>3, AtTop DEF RefPc, WaitPc, FitsHead
<1>5. y \in Frames /\ y.pc = "yield" /\ y.ref = ref
  <2>1. "yield" \in Pc
    BY DEF Pc, WaitPc
  <2> QED  BY <1>4, <2>1, NewFrames
<1> HIDE DEF y
<1>6. Knows(w, Top(w), stealer) /\ m = stealer[w][ref[2]]
  BY <1>0, <1>4, TopKnows DEF Metadata
<1>7. Top(w).pc \in WaitPc /\ Top(w).pc \notin LoudPc \cup StopPc
  BY <1>4 DEF WaitPc, LoudPc, HolderPc, SleepPc, StopPc
<1>8. UNCHANGED deque => Calm(w)
  BY <1>2, <1>4, <1>7, CalmNow
<1>9. ASSUME NEW pc2 \in {"popStolen", "leap", "leapSteal"}, Jump(w, pc2), UNCHANGED deque,
             pc # "stolen" \/ m # "unset", pc # "stolen" \/ pc2 = "popStolen",
             pc2 = "popStolen" => m = "finished"
      PROVE  Orderly'
  <2> DEFINE f == [Top(w) EXCEPT !.pc = pc2]
  <2>1. f \in Frames /\ f.pc = pc2 /\ f.ref = ref /\ f.other = Top(w).other
    BY <1>4, JumpFrame DEF Pc, WaitPc
  <2>2. Become(w, f)
    BY <1>9 DEF Jump
  <2>3. pc2 # "popStolen" => Top(w).other # w
    BY <1>4, <1>6, <1>9 DEF Knows, HuntsPc
  <2>4. pc2 \in WaitPc /\ (pc2 \in HuntsPc => pc2 # "popStolen")
    BY DEF WaitPc, HuntsPc
  <2> HIDE DEF f
  <2> QED  BY <1>4, <1>6, <1>7, <1>8, <1>9, <2>1, <2>2, <2>3, <2>4, CalmWait
<1>10. ASSUME UNCHANGED deque, Become(w, y), pc # "stolen"  PROVE Orderly'
  BY <1>4, <1>5, <1>7, <1>8, <1>10, CalmWait DEF WaitPc, HuntsPc
<1>11. CASE At(w, "stolen")
  <2>1. pc = "stolen" /\ m # "unset" /\ UNCHANGED deque
    BY <1>3, <1>11 DEF Leapfrog, At
  <2>2. CASE Finished(ref) /\ Jump(w, "popStolen")
    BY <1>9, <2>1, <2>2 DEF Finished
  <2>3. CASE Become(w, [Top(w) EXCEPT !.pc = "leap", !.other = m])
    <3> DEFINE f == [Top(w) EXCEPT !.pc = "leap", !.other = m]
    <3>1. stealer[w][ref[2]] \in Worker \cup {"unset", "finished"} /\ ref[2] \in Slot
      BY <1>0, <1>4, RefTypes DEF SInv, TypeOK
    <3>2. f \in Frames /\ f.pc = "leap" /\ f.ref = ref /\ f.other = m
      BY <1>4, <1>6, <3>1 DEF Frames, Pc, WaitPc
    <3>3. m # w
      <4>1. ~stopped
        BY <1>4, <2>1, AfterStop DEF IdlePc, SleepPc, ReleasePc, ThreadPc, StopPc
      <4>2. Naps[w] = "no"
        BY <1>4, <1>7, PcNow DEF PcFacts, PcFact1, LoudPc
      <4>3. stealer[w][ref[2]] # w
        BY <3>1, <4>1, <4>2 DEF Orderly, TokensNow, Tokens
      <4> QED  BY <1>6, <4>3
    <3> HIDE DEF f
    <3>4. f.pc \in WaitPc
      BY <3>2 DEF WaitPc
    <3> QED  BY <1>6, <1>7, <1>8, <2>1, <2>3, <3>2, <3>3, <3>4, CalmWait DEF f
  <2> QED  BY <1>11, <2>1, <2>2, <2>3 DEF Leapfrog, At
<1>12. CASE At(w, "leap")
  <2>1. pc = "leap" /\ UNCHANGED deque
    BY <1>3, <1>12 DEF Leapfrog, At
  <2>2. Become(w, y) \/ Jump(w, "leapSteal")
    BY <1>12, <2>1 DEF Leapfrog, At, y
  <2> QED  BY <1>9, <1>10, <2>1, <2>2
<1>13. CASE At(w, "leapSteal")
  <2> DEFINE f == [Top(w) EXCEPT !.pc = "leapt"]
  <2>1. pc = "leapSteal" /\ Steal(w, Top(w).other, f, y)
    BY <1>3, <1>13 DEF Leapfrog, At, y
  <2>2. f \in Frames /\ f.pc = "leapt" /\ f.ref = ref /\ f.other = Top(w).other
    BY <1>4, JumpFrame DEF Pc, WaitPc
  <2>3. Top(w).other \in Worker /\ Top(w).other # w /\ stealer[w][ref[2]] # "unset"
    BY <1>4, <1>6, <2>1 DEF FrameOK, OtherPc, Knows, HuntsPc, WaitPc
  <2> HIDE DEF f
  <2>4. Knows(w, f, stealer) /\ Knows(w, y, stealer) /\ f.pc \in HuntPc /\ y.pc \in HuntPc
    BY <1>5, <2>2, <2>3 DEF Knows, HuntsPc, HuntPc
  <2> QED  BY <1>1, <1>4, <1>5, <2>1, <2>2, <2>3, <2>4, StealInv
<1>14. CASE At(w, "leapt")
  <2>1. pc = "leapt" /\ UNCHANGED deque
    BY <1>3, <1>14 DEF Leapfrog, At
  <2>2. \/ Finished(ref) /\ Jump(w, "popStolen")
        \/ Jump(w, "leap")
    BY <1>14, <2>1 DEF Leapfrog, At
  <2> QED  BY <1>9, <2>1, <2>2 DEF Finished
<1> QED  BY <1>3, <1>11, <1>12, <1>13, <1>14

(* Yield keeps Orderly.                                                    *)
LEMMA YieldInv ==
  ASSUME Orderly, Advance, NEW w \in Worker, Yield(w)
  PROVE  Orderly'
<1> DEFINE ref == Top(w).ref
           y == OnSlot("yield", ref)
<1>0. SInv /\ WaitsNow
  BY DEF Orderly
<1>1. UNCHANGED <<arrays, signals, bunk, stopped, history>>
  BY DEF Yield
<1>2. UNCHANGED <<arrays, semaphore, injected, sleepers, stopped, history>>
  BY <1>1 DEF signals, bunk
<1>3. PICK pc \in {"yield", "yieldSteal"} : At(w, pc)
  BY DEF Yield
<1>4. /\ Depth(w) > 0 /\ Top(w).pc = pc /\ Top(w) \in Frames /\ FrameOK(Top(w))
      /\ FitsHead(w, Top(w), deque[w].head) /\ ref \in Ref /\ ref[1] = w
  BY <1>0, <1>3, AtTop DEF RefPc, WaitPc, FitsHead
<1>5. y \in Frames /\ y.pc = "yield" /\ y.ref = ref
  <2>1. "yield" \in Pc
    BY DEF Pc, WaitPc
  <2> QED  BY <1>4, <2>1, NewFrames
<1> HIDE DEF y
<1>6. Knows(w, Top(w), stealer)
  BY <1>0, <1>4, TopKnows
<1>7. Top(w).pc \in WaitPc /\ Top(w).pc # "stolen" /\ Top(w).pc \notin LoudPc \cup StopPc
  BY <1>4 DEF WaitPc, LoudPc, HolderPc, SleepPc, StopPc
<1>8. UNCHANGED deque => Calm(w)
  BY <1>2, <1>4, <1>7, CalmNow
<1>9. CASE At(w, "yield")
  <2>1. pc = "yield" /\ UNCHANGED deque
    BY <1>3, <1>9 DEF Yield, At
  <2>2. ASSUME NEW pc2 \in {"popStolen", "waitForTaskToFinish"}, Jump(w, pc2),
               pc2 = "popStolen" => Finished(ref)
        PROVE  Orderly'
    <3> DEFINE f == [Top(w) EXCEPT !.pc = pc2]
    <3>1. f \in Frames /\ f.pc = pc2 /\ f.ref = ref
      BY <1>4, JumpFrame DEF Pc, WaitPc
    <3>2. Become(w, f)
      BY <2>2 DEF Jump
    <3> HIDE DEF f
    <3>3. f.pc \in WaitPc /\ f.pc \notin HuntsPc
      BY <3>1 DEF WaitPc, HuntsPc
    <3>4. f.pc = "popStolen" => stealer[w][f.ref[2]] = "finished"
      BY <1>4, <2>2, <3>1 DEF Finished, Metadata
    <3> QED  BY <1>7, <1>8, <2>1, <3>1, <3>2, <3>3, <3>4, CalmWait
  <2>3. ASSUME NEW v \in Worker \ {w}, Become(w, [Top(w) EXCEPT !.pc = "yieldSteal", !.other = v])
        PROVE  Orderly'
    <3> DEFINE f == [Top(w) EXCEPT !.pc = "yieldSteal", !.other = v]
    <3>1. f \in Frames /\ f.pc = "yieldSteal" /\ f.ref = ref /\ f.other = v
      BY <1>4 DEF Frames, Pc, WaitPc
    <3> HIDE DEF f
    <3>2. f.pc \in WaitPc /\ f.other # w
      BY <3>1 DEF WaitPc
    <3> QED  BY <1>7, <1>8, <2>1, <2>3, <3>1, <3>2, CalmWait DEF f
  <2> QED  BY <1>9, <2>1, <2>2, <2>3 DEF Yield, At
<1>10. CASE At(w, "yieldSteal")
  <2>1. pc = "yieldSteal" /\ Steal(w, Top(w).other, y, y)
    BY <1>3, <1>10 DEF Yield, At, y
  <2>2. Top(w).other \in Worker /\ Top(w).other # w /\ stealer[w][ref[2]] # "unset"
    BY <1>4, <1>6, <2>1 DEF FrameOK, OtherPc, Knows, HuntsPc, WaitPc
  <2>3. Knows(w, y, stealer) /\ y.pc \in HuntPc
    BY <1>5, <2>2 DEF Knows, HuntsPc, HuntPc
  <2> QED  BY <1>1, <1>4, <1>5, <2>1, <2>2, <2>3, StealInv
<1> QED  BY <1>3, <1>9, <1>10

(* RandomStealLoop keeps Orderly.                                          *)
LEMMA RandomStealLoopInv ==
  ASSUME Orderly, Advance, NEW w \in Worker, RandomStealLoop(w)
  PROVE  Orderly'
<1> DEFINE y == Frame("random_steal_loop")
<1>0. SInv /\ WaitsNow
  BY DEF Orderly
<1>1. UNCHANGED <<arrays, signals, bunk, stopped, history>>
  BY DEF RandomStealLoop
<1>2. UNCHANGED <<arrays, semaphore, injected, sleepers, stopped, history>>
  BY <1>1 DEF signals, bunk
<1>3. PICK pc \in {"random_steal_loop", "randomSteal"} : At(w, pc)
  BY DEF RandomStealLoop
<1>4. Depth(w) > 0 /\ Top(w).pc = pc /\ Top(w) \in Frames /\ FrameOK(Top(w))
  BY <1>0, <1>3, AtTop
<1>5. y \in Frames /\ y.pc = "random_steal_loop"
  BY NewFrames DEF Pc, ThreadPc
<1> HIDE DEF y
<1>6. Knows(w, Top(w), stealer)
  BY <1>0, <1>4, TopKnows
<1>7. Top(w).pc \notin WorkPc /\ Top(w).pc \notin LoudPc \cup StopPc
  BY <1>4 DEF WorkPc, BodyPc, LoudPc, HolderPc, SleepPc, StopPc
<1>8. UNCHANGED deque => Calm(w)
  BY <1>2, <1>4, <1>7, CalmNow
<1>9. CASE At(w, "random_steal_loop")
  <2>1. pc = "random_steal_loop" /\ UNCHANGED deque
    BY <1>3, <1>9 DEF RandomStealLoop, At
  <2>2. CASE Jump(w, "waitForNewTask")
    <3>1. /\ "waitForNewTask" \in Pc
          /\ "waitForNewTask" \notin LoudPc \cup WorkPc \cup WaitPc \cup {"randomSteal"}
      BY DEF Pc, ThreadPc, LoudPc, HolderPc, SleepPc, WorkPc, BodyPc, WaitPc
    <3> QED  BY <1>7, <1>8, <2>1, <2>2, <3>1, CalmJump
  <2>3. ASSUME NEW v \in Worker \ {w}, Become(w, [Top(w) EXCEPT !.pc = "randomSteal", !.other = v])
        PROVE  Orderly'
    <3> DEFINE f == [Top(w) EXCEPT !.pc = "randomSteal", !.other = v]
    <3>1. f \in Frames /\ f.pc = "randomSteal" /\ f.other = v
      BY <1>4 DEF Frames, Pc, ThreadPc
    <3> HIDE DEF f
    <3>2. /\ Knows(w, f, stealer) /\ Ready(w, f, stealer) /\ f.pc \notin LoudPc
          /\ JobOf(f) = NoJob /\ JobOf(Top(w)) = NoJob
      BY <1>7, <3>1, NoJobs DEF Knows, Ready, WaitPc, WorkPc, BodyPc, LoudPc, HolderPc, SleepPc
    <3> QED  BY <1>8, <2>1, <2>3, <3>1, <3>2, CalmBecome DEF f
  <2> QED  BY <1>9, <2>1, <2>2, <2>3 DEF RandomStealLoop, At
<1>10. CASE At(w, "randomSteal")
  <2>1. pc = "randomSteal" /\ Steal(w, Top(w).other, y, y)
    BY <1>3, <1>10 DEF RandomStealLoop, At, y
  <2>2. Top(w).other \in Worker /\ Top(w).other # w
    BY <1>4, <1>6, <2>1 DEF FrameOK, OtherPc, Knows, HuntsPc
  <2>3. Knows(w, y, stealer) /\ y.pc \in HuntPc
    BY <1>5 DEF Knows, HuntsPc, HuntPc, WaitPc
  <2> QED  BY <1>1, <1>4, <1>5, <2>1, <2>2, <2>3, StealInv
<1> QED  BY <1>3, <1>9, <1>10

(* The owner's part of the deque grows without moving the head.            *)
LEMMA GaveUpHeads ==
  ASSUME SInv, NEW w \in Worker, NEW d \in Deque, GiveUpShare(w, d), d.head = deque[w].head
  PROVE  Heads' = Heads
<1>1. PICK e \in Deque : deque' = [deque EXCEPT ![w] = e] /\ e.head = d.head
  BY GaveUp
<1> QED  BY <1>1, HeadsKept

(* The loop of a worker looks for work.                                    *)
LEMMA RunWorkerCalm ==
  ASSUME Orderly, Advance, NEW w \in Worker, At(w, "run_worker"), RunWorker(w)
  PROVE  Orderly'
<1>1. SInv
  BY DEF Orderly
<1>2. Depth(w) > 0 /\ Top(w).pc = "run_worker"
  BY <1>1, AtTop
<1>3. /\ UNCHANGED <<deque, arrays, signals, bunk, stopped, history>>
      /\ Return(w) \/ Jump(w, "waitForNewTask")
  BY <1>2 DEF RunWorker, At
<1>4. Calm(w)
  BY <1>2, <1>3, CalmNow DEF signals, bunk, LoudPc, HolderPc, SleepPc, StopPc
<1>5. Top(w).pc \notin WorkPc /\ JobOf(Top(w)) = NoJob
  BY <1>2, NoJobs DEF WorkPc, BodyPc
<1>6. CASE Jump(w, "waitForNewTask")
  <2>1. /\ "waitForNewTask" \in Pc
        /\ "waitForNewTask" \notin LoudPc \cup WorkPc \cup WaitPc \cup {"randomSteal"}
    BY DEF Pc, ThreadPc, LoudPc, HolderPc, SleepPc, WorkPc, BodyPc, WaitPc
  <2> QED  BY <1>4, <1>5, <1>6, <2>1, CalmJump
<1>7. CASE Return(w)
  <2>1. ~(Depth(w) > 1)
    <3> SUFFICES ASSUME Depth(w) > 1  PROVE FALSE
      OBVIOUS
    <3>1. MayCall(Under1(w), Top(w))
      BY <1>1, Caller
    <3> QED  BY <1>2, <3>1 DEF MayCall, BodyPc, WaitPc, ShrinkPc, PushPc, GrowPc, PublishPc,
               ReleasePc, TakenPc, SleepPc
  <2> QED  BY <1>4, <1>5, <1>7, <2>1, CalmReturn
<1> QED  BY <1>3, <1>6, <1>7

(* Notify keeps Orderly.                                                   *)
LEMMA NotifyInv ==
  ASSUME Orderly, Advance, NEW w \in Worker, At(w, "notify"), ReleaseSemaphore(w)
  PROVE  Orderly'
<1>1. SInv
  BY DEF Orderly
<1>2. Depth(w) > 0 /\ Top(w).pc = "notify"
  BY <1>1, AtTop
<1>3. /\ UNCHANGED <<deque, arrays, semaphore, injected, bunk, stopped, history>>
      /\ Return(w)
  BY <1>2 DEF ReleaseSemaphore, At
<1>4. Calm(w)
  BY <1>2, <1>3, CalmNow DEF bunk, LoudPc, HolderPc, SleepPc, StopPc
<1>5. JobOf(Top(w)) = NoJob
  BY <1>2, NoJobs DEF WorkPc, BodyPc
<1>6. Depth(w) > 1 => Under1(w).pc \notin LoudPc /\ Ready(w, Under1(w), stealer)
  <2> SUFFICES ASSUME Depth(w) > 1
               PROVE  Under1(w).pc \notin LoudPc /\ Ready(w, Under1(w), stealer)
    OBVIOUS
  <2>1. MayCall(Under1(w), Top(w))
    BY <1>1, Caller
  <2>2. Under1(w).pc \in {"injectNext", "leapt", "yield", "random_steal_loop", "stopping"}
    BY <1>2, <2>1 DEF MayCall, BodyPc, WaitPc, ShrinkPc, PushPc, GrowPc, PublishPc,
               ReleasePc, TakenPc, SleepPc
  <2> QED  BY <2>2 DEF LoudPc, HolderPc, SleepPc, Ready
<1> QED  BY <1>3, <1>4, <1>5, <1>6, CalmReturn

(* InjectNext keeps Orderly.                                               *)
LEMMA InjectNextInv ==
  ASSUME Orderly, Advance, NEW w \in Worker, At(w, "injectNext"), Inject(w)
  PROVE  Orderly'
<1>1. SInv
  BY DEF Orderly
<1>2. Depth(w) > 0 /\ Top(w).pc = "injectNext" /\ deque[w] \in Deque
  BY <1>1, AtTop
<1>3. /\ UNCHANGED <<arrays, signals, sleepers, stopped, history>>
      /\ \/ Return(w) /\ (GiveUpShare(w, deque[w]) \/ UNCHANGED <<deque, haveJobs>>)
         \/ Jump(w, "publishWork") /\ UNCHANGED <<deque, haveJobs>>
  BY <1>2 DEF Inject, At
<1>4. Heads' = Heads
  BY <1>1, <1>2, <1>3, GaveUpHeads DEF Heads
<1>5. Calm(w)
  BY <1>2, <1>3, <1>4 DEF Calm, signals, LoudPc, HolderPc, SleepPc, StopPc
<1>6. CASE Return(w)
  BY <1>2, <1>5, <1>6, CalmBack DEF PublishPc
<1>7. CASE Jump(w, "publishWork")
  <2>1. /\ "publishWork" \in Pc /\ Top(w).pc \notin WorkPc
        /\ "publishWork" \notin LoudPc \cup WorkPc \cup WaitPc \cup {"randomSteal"}
    BY <1>2 DEF Pc, PublishPc, LoudPc, HolderPc, SleepPc, WorkPc, BodyPc, WaitPc
  <2> QED  BY <1>5, <1>7, <2>1, CalmJump
<1> QED  BY <1>3, <1>6, <1>7

(* A publisher that finds no sleeper returns.                              *)
LEMMA NobodySleeps ==
  ASSUME Orderly, Advance, NEW w \in Worker, PopSleeper(w), sleepers = <<>>
  PROVE  Orderly'
<1>1. SInv
  BY DEF Orderly
<1>2. Depth(w) > 0 /\ Top(w).pc = "publishWork"
  BY <1>1, AtTop DEF PopSleeper
<1>3. /\ UNCHANGED <<deque, arrays, signals, haveJobs, stopped, history>>
      /\ Return(w) /\ sleepers' = sleepers
  BY DEF PopSleeper
<1>4. Calm(w)
  BY <1>2, <1>3, CalmNow DEF signals, LoudPc, HolderPc, SleepPc, StopPc
<1> QED  BY <1>2, <1>3, <1>4, CalmBack DEF PublishPc

(* What a non-empty sequence holds besides its head.                       *)
LEMMA TailRange ==
  ASSUME NEW S, NEW s \in Seq(S), s # <<>>
  PROVE  Range(s) = {Head(s)} \cup Range(Tail(s)) /\ Tail(s) \in Seq(S)
<1>1. PICK n \in Nat : n = Len(s) /\ n > 0
  OBVIOUS
<1>2. Head(s) = s[1] /\ Tail(s) \in Seq(S) /\ Len(Tail(s)) = n - 1
      /\ \A i \in 1..(n - 1) : Tail(s)[i] = s[i + 1]
  BY <1>1
<1>3. \A x \in Range(s) : x = Head(s) \/ x \in Range(Tail(s))
  <2> SUFFICES ASSUME NEW i \in 1..n, i # 1  PROVE s[i] \in Range(Tail(s))
    BY <1>1, <1>2 DEF Range
  <2>1. i - 1 \in 1..(n - 1) /\ (i - 1) + 1 = i
    BY <1>1
  <2>2. Tail(s)[i - 1] = s[i] /\ i - 1 \in DOMAIN Tail(s)
    BY <1>2, <2>1
  <2> QED  BY <2>2 DEF Range
<1>4. \A x \in Range(Tail(s)) : x \in Range(s)
  <2> SUFFICES ASSUME NEW i \in 1..(n - 1)  PROVE Tail(s)[i] \in Range(s)
    BY <1>2 DEF Range
  <2>1. i + 1 \in DOMAIN s
    BY <1>1
  <2> QED  BY <1>2, <2>1 DEF Range
<1>5. Head(s) \in Range(s)
  BY <1>1, <1>2 DEF Range
<1> QED  BY <1>2, <1>3, <1>4, <1>5

(* What a body has yet to do after a sync.                                 *)
LEMMA SyncedJob ==
  ASSUME SInv, NEW w \in Worker, Syncs(w)
  PROVE  JobOf(Synced(w)) = JobOf(Top(w)) /\ Todo(Synced(w)) = Todo(Top(w))
<1>1. PICK f \in Frames :
           /\ f = Synced(w) /\ f.pc = "body" /\ f.base = Top(w).base /\ f.task = Top(w).task
           /\ Top(w).pc = "body"
  BY SyncedFrame
<1>2. Top(w) \in Frames
  BY AtTop DEF Syncs
<1>3. f.todo = IF Top(w).todo = <<>> THEN Top(w).todo ELSE Tail(Top(w).todo)
  BY <1>1, <1>2 DEF Synced, Frames
<1>4. Todo(f) = Todo(Top(w))
  <2>1. CASE Top(w).todo = <<>>
    BY <1>3, <2>1 DEF Todo
  <2>2. CASE Top(w).todo # <<>>
    <3>1. PICK s \in Seq(Task \cup Worker \cup {None}) : s = Top(w).todo /\ s # <<>> /\ Head(s) = None
      BY <1>2, <2>2, FrameFields DEF Syncs
    <3>2. Range(Tail(s)) \ {None} = Range(s) \ {None}
      BY <3>1, TailRange
    <3> QED  BY <1>3, <3>1, <3>2 DEF Todo
  <2> QED  BY <2>1, <2>2
<1> QED  BY <1>1, <1>4 DEF JobOf, BodyPc

(* A sync that finds its last call stolen.                                 *)
LEMMA SyncCall ==
  ASSUME Orderly, Advance, NEW w \in Worker, Syncs(w), deque[w].head <= kTaskArraySize,
         Heads' = Heads, UNCHANGED <<arrays, signals, sleepers, stopped, history>>,
         NEW pc \in {"stolen", "shrinkShared"},
         Call(w, OnSlot(pc, <<w, deque[w].head - 1>>), Synced(w))
  PROVE  Orderly'
<1> DEFINE ref == <<w, deque[w].head - 1>>
           f == OnSlot(pc, ref)
           b == Synced(w)
<1>1. SInv /\ Depth(w) > 0 /\ Top(w).pc = "body"
  BY AtTop DEF Orderly, Syncs
<1>2. b \in Frames /\ b.pc = "body" /\ Top(w).base \in Nat /\ Top(w).base < deque[w].head
  BY <1>1, SyncedFrame
<1>3. ref \in Ref
  <2>1. deque[w].head \in Nat /\ kTaskArraySize \in Nat
    BY <1>1, GoodParts, StealingAssumption
  <2>2. deque[w].head - 1 \in Slot
    BY <1>2, <2>1 DEF Slot
  <2> QED  BY <2>2 DEF Ref
<1>4. f \in Frames /\ f.pc = pc
  <2>1. pc \in Pc
    BY DEF Pc, WaitPc, ShrinkPc
  <2> QED  BY <1>3, <2>1, NewFrames
<1>5. Calm(w)
  BY <1>1 DEF Calm, signals, LoudPc, HolderPc, SleepPc, StopPc
<1>6. JobOf(b) = JobOf(Top(w))
  BY <1>1, SyncedJob
<1> HIDE DEF f, b
<1>7. JobOf(f) = NoJob /\ f.pc \notin LoudPc /\ Knows(w, f, stealer) /\ Ready(w, f, stealer)
      /\ Knows(w, b, stealer)
  BY <1>2, <1>4, NoJobs DEF WorkPc, BodyPc, LoudPc, HolderPc, SleepPc, Knows, Ready, WaitPc, HuntsPc
<1> QED  BY <1>2, <1>4, <1>5, <1>6, <1>7, CalmCall DEF f, b

(* A pop that finds the split at its task, or everything stolen.           *)
LEMMA PopCalm ==
  ASSUME Orderly, Advance, NEW w \in Worker, Pop(w),
         ~(~deque[w].allStolenCopy /\ deque[w].splitCopy # deque[w].head)
  PROVE  Orderly'
<1> DEFINE d == deque[w]
           ref == <<w, d.head - 1>>
<1>1. SInv /\ d \in Deque
  BY GoodParts DEF Orderly
<1>2. Syncs(w) /\ d.head <= kTaskArraySize /\ UNCHANGED <<arrays, signals, sleepers, stopped, history>>
  BY DEF Pop
<1>3. \/ Call(w, OnSlot("stolen", ref), Synced(w)) /\ UNCHANGED deque
      \/ Call(w, OnSlot("stolen", ref), Synced(w)) /\ GiveUpShare(w, d)
      \/ /\ Call(w, OnSlot("shrinkShared", ref), Synced(w))
         /\ deque' = [deque EXCEPT ![w].splitCopy = (d.tail + @) \div 2]
  BY DEF Pop
<1>4. Heads' = Heads
  <2>1. CASE UNCHANGED deque
    BY <2>1 DEF Heads
  <2>2. CASE GiveUpShare(w, d)
    BY <1>1, <2>2, GaveUpHeads
  <2>3. CASE deque' = [deque EXCEPT ![w].splitCopy = (d.tail + @) \div 2]
    <3> DEFINE e == [d EXCEPT !.splitCopy = (d.tail + @) \div 2]
    <3>1. deque' = [deque EXCEPT ![w] = e]
      BY <1>1, <2>3 DEF SInv, TypeOK
    <3>2. e.head = deque[w].head
      BY <1>1 DEF Deque
    <3> HIDE DEF e
    <3> QED  BY <1>1, <3>1, <3>2, HeadsKept
  <2> QED  BY <1>3, <2>1, <2>2, <2>3
<1>5. \E pc \in {"stolen", "shrinkShared"} : Call(w, OnSlot(pc, ref), Synced(w))
  BY <1>3
<1> QED  BY <1>2, <1>4, <1>5, SyncCall

(* A shrink that meets the thieves at the split.                           *)
LEMMA ShrinkCalm ==
  ASSUME Orderly, Advance, NEW w \in Worker, ShrinkShared(w), At(w, "shrinkShared"),
         deque[w].tail > deque[w].splitCopy
  PROVE  Orderly'
<1> DEFINE d == deque[w]
           moved == [d EXCEPT !.split = d.splitCopy]
<1>1. SInv /\ d \in Deque
  BY GoodParts DEF Orderly
<1>2. /\ Depth(w) > 0 /\ Top(w).pc = "shrinkShared" /\ Top(w) \in Frames
  BY <1>1, AtTop
<1>3. /\ UNCHANGED <<arrays, signals, sleepers, stopped, history>>
      /\ \/ GiveUpShare(w, moved) /\ Jump(w, "stolen")
         \/ /\ deque' = [deque EXCEPT ![w] =
                          [moved EXCEPT !.splitCopy = (d.tail + d.head) \div 2]]
            /\ Jump(w, "shrinkStore")
  <2>1. ~At(w, "shrinkStore") /\ ~(d.tail <= d.splitCopy)
    BY <1>1, <1>2, DequeTypes DEF At
  <2> QED  BY <2>1 DEF ShrinkShared
<1>4. moved \in Deque /\ moved.head = d.head
  BY <1>1 DEF Deque
<1>5. Heads' = Heads
  <2>1. CASE GiveUpShare(w, moved)
    BY <1>1, <1>4, <2>1, GaveUpHeads
  <2>2. CASE deque' = [deque EXCEPT ![w] = [moved EXCEPT !.splitCopy = (d.tail + d.head) \div 2]]
    <3> DEFINE e == [moved EXCEPT !.splitCopy = (d.tail + d.head) \div 2]
    <3>1. e.head = deque[w].head
      BY <1>1 DEF Deque
    <3> HIDE DEF e
    <3> QED  BY <1>1, <2>2, <3>1, HeadsKept DEF e
  <2> QED  BY <1>3, <2>1, <2>2
<1>6. Calm(w)
  BY <1>2, <1>3, <1>5 DEF Calm, signals, LoudPc, HolderPc, SleepPc, StopPc
<1>7. ASSUME NEW pc \in {"stolen", "shrinkStore"}, Jump(w, pc)  PROVE Orderly'
  <2> DEFINE f == [Top(w) EXCEPT !.pc = pc]
  <2>1. f \in Frames /\ f.pc = pc /\ Become(w, f)
    BY <1>2, <1>7, JumpFrame DEF Pc, WaitPc, ShrinkPc, Jump
  <2> HIDE DEF f
  <2>2. /\ JobOf(f) = NoJob /\ JobOf(Top(w)) = NoJob /\ f.pc \notin LoudPc
        /\ Knows(w, f, stealer) /\ Ready(w, f, stealer)
    BY <1>2, <2>1, NoJobs DEF WorkPc, BodyPc, LoudPc, HolderPc, SleepPc, Knows, Ready, WaitPc, HuntsPc
  <2> QED  BY <1>6, <2>1, <2>2, CalmBecome
<1> QED  BY <1>3, <1>7

(* A waiter that finds the call finished goes on.                          *)
LEMMA WaitOver ==
  ASSUME Orderly, Advance, NEW w \in Worker, WaitForTaskToFinish(w), Finished(Top(w).ref)
  PROVE  Orderly'
<1>1. SInv /\ At(w, "waitForTaskToFinish")
  BY DEF Orderly, WaitForTaskToFinish
<1>2. /\ Depth(w) > 0 /\ Top(w).pc = "waitForTaskToFinish" /\ Top(w) \in Frames
      /\ FitsHead(w, Top(w), deque[w].head)
  BY <1>1, AtTop
<1>3. /\ UNCHANGED <<deque, slot, signals, bunk, stopped, history>>
      /\ Jump(w, "popStolen") /\ UNCHANGED stealer
  BY DEF WaitForTaskToFinish
<1>4. Calm(w)
  BY <1>2, <1>3, CalmNow DEF arrays, signals, bunk, LoudPc, HolderPc, SleepPc, StopPc
<1> DEFINE f == [Top(w) EXCEPT !.pc = "popStolen"]
<1>5. f \in Frames /\ f.pc = "popStolen" /\ f.ref = Top(w).ref /\ Become(w, f)
  BY <1>2, <1>3, JumpFrame DEF Pc, WaitPc, Jump
<1> HIDE DEF f
<1>6. stealer[w][f.ref[2]] = "finished"
  BY <1>2, <1>5 DEF Finished, Metadata, FitsHead, WaitPc
<1>7. Top(w).pc \in WaitPc /\ f.pc \in WaitPc /\ f.pc \notin HuntsPc /\ Top(w).pc # "stolen"
  BY <1>2, <1>5 DEF WaitPc, HuntsPc
<1> QED  BY <1>4, <1>5, <1>6, <1>7, CalmWait

(* What kind of job a call is.                                             *)
LEMMA JobKinds ==
  ASSUME NEW f
  PROVE  /\ JobOf(f).kind = "own" <=> f.pc = "runOwn"
         /\ JobOf(f).kind = "mark" <=> f.pc = "markAsFinished"
         /\ JobOf(f).kind = "body" <=> f.pc \in BodyPc
         /\ NoJob.kind = "none"
         /\ f.pc \in BodyPc => /\ JobOf(f).task = f.task /\ JobOf(f).todo = Todo(f)
                               /\ JobOf(f).base = f.base
         /\ f.pc = "runOwn" => JobOf(f).at = f.ref[2]
         /\ f.pc = "markAsFinished" => JobOf(f).of = f.ref[1] /\ JobOf(f).at = f.ref[2]
<1>1. NoJob.kind = "none"
  BY DEF NoJob
<1>2. CASE f.pc \in BodyPc
  BY <1>1, <1>2 DEF JobOf, BodyPc
<1>3. CASE f.pc = "runOwn"
  BY <1>1, <1>3 DEF JobOf, BodyPc
<1>4. CASE f.pc = "markAsFinished"
  BY <1>1, <1>4 DEF JobOf, BodyPc
<1>5. CASE f.pc \notin BodyPc \cup {"runOwn", "markAsFinished"}
  BY <1>1, <1>5 DEF JobOf
<1> QED  BY <1>2, <1>3, <1>4, <1>5

(* The kind of each job, from its call.                                    *)
LEMMA JobNow ==
  ASSUME NEW w \in Worker, NEW l \in Nat
  PROVE  /\ IsOwn(Job, w, l) <=> l \in Levels(w) /\ stack[w][l].pc = "runOwn"
         /\ IsMark(Job, w, l) <=> l \in Levels(w) /\ stack[w][l].pc = "markAsFinished"
         /\ IsBody(Job, w, l) <=> l \in Levels(w) /\ stack[w][l].pc \in BodyPc
         /\ l \in Levels(w) => Job[w][l] = JobOf(stack[w][l])
         /\ l \notin Levels(w) => Job[w][l] = NoJob
<1>1. CASE l \in Levels(w)
  <2>1. Job[w][l] = JobOf(stack[w][l])
    BY <1>1, JobAt
  <2> QED  BY <1>1, <2>1, JobKinds DEF IsOwn, IsMark, IsBody
<1>2. CASE l \notin Levels(w)
  <2>1. Job[w][l] = NoJob
    BY <1>2, JobAt
  <2> QED  BY <1>2, <2>1, JobKinds DEF IsOwn, IsMark, IsBody
<1> QED  BY <1>1, <1>2

(* Only a call that grows, publishes or releases runs on an own task.      *)
LEMMA NoOwn ==
  ASSUME SInv, NEW w \in Worker, Depth(w) > 0,
         Top(w).pc \notin GrowPc \cup PublishPc \cup ReleasePc \cup {"runOwn"}
  PROVE  \A m \in Nat : ~IsOwn(Job, w, m)
<1> SUFFICES ASSUME NEW m \in Nat, IsOwn(Job, w, m)  PROVE FALSE
  OBVIOUS
<1>1. m \in Levels(w) /\ stack[w][m].pc = "runOwn"
  BY JobNow
<1>2. PICK s \in Seq(Frames) : s = stack[w]
  BY GoodParts
<1>3. Shape(w, s, deque[w].head) /\ deque[w].head \in Nat /\ Depth(w) = Len(s) /\ Top(w) = s[Len(s)]
  BY <1>2, GoodParts DEF Depth, Top
<1>4. CASE m = Len(s)
  BY <1>1, <1>2, <1>3, <1>4
<1>5. CASE m # Len(s)
  <2>1. m \in 1..(Len(s) - 1)
    BY <1>1, <1>2, <1>3, <1>5 DEF Levels
  <2>2. s[Len(s)].pc \in GrowPc \cup PublishPc \cup ReleasePc
    BY <1>1, <1>2, <1>3, <2>1, Under
  <2> QED  BY <1>3, <2>2
<1> QED  BY <1>4, <1>5

(* The body of a job, from its call.                                       *)
LEMMA BodyAt ==
  ASSUME NEW w \in Worker, NEW l \in Nat
  PROVE  /\ IsBody(Job, w, l) <=> l \in Levels(w) /\ stack[w][l].pc \in BodyPc
         /\ IsBody(Job, w, l) => /\ Job[w][l].task = stack[w][l].task
                                 /\ Job[w][l].todo = Todo(stack[w][l])
                                 /\ Job[w][l].base = stack[w][l].base
BY JobNow, JobKinds

(* The running body, and the one that waits for its task.                  *)
LEMMA BodyOnTop ==
  ASSUME SInv, NEW w \in Worker, Depth(w) > 0, Top(w).pc \in BodyPc
  PROVE  /\ TopBody(Job, w, Depth(w)) /\ Depth(w) \in Nat
         /\ Job[w][Depth(w)].task = Top(w).task /\ Job[w][Depth(w)].base = Top(w).base
         /\ Job[w][Depth(w)].todo = Todo(Top(w)) /\ Job[w][Depth(w) + 1] = NoJob
<1>1. Depth(w) \in Nat /\ Depth(w) \in Levels(w) /\ Top(w) = stack[w][Depth(w)]
  BY GoodParts DEF Top
<1>2. \A m \in Nat : IsBody(Job, w, m) => m <= Depth(w)
  BY <1>1, BodyAt DEF Levels
<1>3. \A m \in Nat : ~IsOwn(Job, w, m)
  BY NoOwn DEF BodyPc, GrowPc, PublishPc, ReleasePc
<1>4. Depth(w) + 1 \in Nat /\ Depth(w) + 1 \notin Levels(w)
  BY <1>1 DEF Levels
<1>5. Job[w][Depth(w) + 1] = NoJob
  BY <1>4, JobAt
<1> QED  BY <1>1, <1>2, <1>3, <1>5, BodyAt DEF TopBody

(* Under a wait or a shrink is the body that syncs.                        *)
LEMMA BodyUnder ==
  ASSUME SInv, NEW w \in Worker, Depth(w) > 0, Top(w).pc \in WaitPc \cup ShrinkPc
  PROVE  /\ Depth(w) > 1 /\ Depth(w) - 1 \in Nat /\ TopBody(Job, w, Depth(w) - 1)
         /\ Under1(w).pc = "body" /\ Job[w][Depth(w)] = NoJob
         /\ Job[w][Depth(w) - 1].base = Under1(w).base
         /\ Under1(w).base <= Top(w).ref[2]
<1>1. Depth(w) \in Nat /\ Depth(w) \in Levels(w) /\ Top(w) = stack[w][Depth(w)]
  BY GoodParts DEF Top
<1>2. Depth(w) > 1
  <2> SUFFICES ASSUME Depth(w) = 1  PROVE FALSE
    BY <1>1
  <2>1. AtBottom(w, stack[w][1])
    BY <1>1, GoodParts DEF Shape, Chain, Depth
  <2> QED  BY <1>1, <2>1 DEF AtBottom, StopPc, ThreadPc, WaitPc, ShrinkPc
<1>3. MayCall(Under1(w), Top(w)) /\ Depth(w) - 1 \in Levels(w) /\ Under1(w) = stack[w][Depth(w) - 1]
  BY <1>2, Caller
<1>4. Under1(w).pc = "body" /\ Under1(w).base <= Top(w).ref[2]
  BY <1>3 DEF MayCall, BodyPc, WaitPc, ShrinkPc, PushPc, GrowPc, PublishPc, ReleasePc, TakenPc, SleepPc
<1>5. Job[w][Depth(w)] = NoJob
  <2>1. JobOf(Top(w)) = NoJob
    BY NoJobs DEF WorkPc, BodyPc, WaitPc, ShrinkPc
  <2> QED  BY <1>1, <2>1, JobAt
<1>6. \A m \in Nat : IsBody(Job, w, m) => m <= Depth(w) - 1
  <2> SUFFICES ASSUME NEW m \in Nat, IsBody(Job, w, m)  PROVE m <= Depth(w) - 1
    OBVIOUS
  <2>1. m \in Levels(w)
    BY BodyAt
  <2>2. m # Depth(w)
    BY <1>5 DEF IsBody, NoJob
  <2> QED  BY <1>1, <2>1, <2>2 DEF Levels
<1>7. \A m \in Nat : ~IsOwn(Job, w, m)
  BY NoOwn DEF WaitPc, ShrinkPc, GrowPc, PublishPc, ReleasePc
<1>8. Depth(w) - 1 \in Nat
  BY <1>1, <1>2
<1> QED  BY <1>2, <1>3, <1>4, <1>5, <1>6, <1>7, <1>8, BodyAt DEF TopBody, BodyPc

(* A body that begins.                                                     *)
LEMMA NewBody ==
  ASSUME NEW t \in Task, NEW h \in Nat
  PROVE  /\ JobOf(Body(t, h)) = [kind |-> "body", task |-> t, todo |-> Spawned(t), base |-> h]
         /\ \A v, M : Knows(v, Body(t, h), M) /\ Ready(v, Body(t, h), M)
         /\ Body(t, h).pc \notin LoudPc
<1>1. Body(t, h).pc = "body" /\ Body(t, h).task = t /\ Body(t, h).base = h /\ Body(t, h).todo = Calls[t]
  BY NewFrames
<1>2. Todo(Body(t, h)) = Spawned(t)
  BY <1>1 DEF Todo, Spawned, Tree!Spawned, Tree!Range, Range
<1>3. Body(t, h).pc \notin WaitPc \cup {"randomSteal"} \cup LoudPc
  BY <1>1 DEF WaitPc, LoudPc, HolderPc, SleepPc
<1> HIDE DEF Body
<1> QED  BY <1>1, <1>2, <1>3, NoJobs DEF JobOf, BodyPc

(* The task of an own call, at its start.                                  *)
LEMMA OwnTop ==
  ASSUME SInv, WorkNow, NEW w \in Worker, At(w, "runOwn")
  PROVE  /\ Depth(w) > 1 /\ Depth(w) - 1 \in Nat /\ (Depth(w) - 1) + 1 = Depth(w)
         /\ IsOwn(Job, w, Depth(w)) /\ Top(w).ref = <<w, deque[w].head>>
         /\ deque[w].head \in Slot /\ Job[w][Depth(w)].at = deque[w].head
         /\ OwnOK(Job, Heads, slot, stealer, begun, w, Depth(w) - 1)
         /\ Finished(Top(w).ref) = FALSE /\ Metadata(Top(w).ref) = "unset"
<1>1. /\ Depth(w) > 0 /\ Top(w).pc = "runOwn" /\ Top(w) \in Frames /\ Top(w).ref \in Ref
      /\ FitsHead(w, Top(w), deque[w].head) /\ Depth(w) \in Nat /\ Depth(w) \in Levels(w)
      /\ Top(w) = stack[w][Depth(w)]
  BY AtTop, GoodParts DEF RefPc, Top
<1>2. IsOwn(Job, w, Depth(w)) /\ Job[w][Depth(w)].at = Top(w).ref[2]
  BY <1>1, JobNow, JobKinds
<1>3. Top(w).ref = <<w, deque[w].head>> /\ deque[w].head \in Slot
  BY <1>1, RefTypes DEF FitsHead, AtHead
<1>4. Depth(w) - 1 \in Nat /\ (Depth(w) - 1) + 1 = Depth(w)
  BY <1>1
<1>5. OwnOK(Job, Heads, slot, stealer, begun, w, Depth(w) - 1)
  BY <1>2, <1>4 DEF WorkNow, Work
<1>6. Depth(w) > 1
  <2>1. IsBody(Job, w, Depth(w) - 1)
    BY <1>5 DEF OwnOK
  <2>2. Depth(w) - 1 \in Levels(w)
    BY <1>4, <2>1, BodyAt
  <2> QED  BY <1>1, <2>2 DEF Levels
<1>7. Metadata(Top(w).ref) = "unset"
  <2>1. stealer[w][deque[w].head] = "unset"
    BY <1>2, <1>3, <1>4, <1>5 DEF OwnOK
  <2> QED  BY <1>3, <2>1 DEF Metadata
<1> QED  BY <1>2, <1>3, <1>4, <1>5, <1>6, <1>7, StealingAssumption DEF Finished

(* RunOwn keeps Orderly.                                                   *)
LEMMA RunOwnInv ==
  ASSUME Orderly, Advance, NEW w \in Worker, RunOwn(w)
  PROVE  Orderly'
<1> DEFINE h == deque[w].head
           t == slot[w][h]
           n == Depth(w)
           q == n - 1
           p == Job[w][q].task
           f == Body(t, h)
<1>1. SInv /\ WorkNow /\ WaitsNow /\ At(w, "runOwn") /\ Depth(w) > 0 /\ Top(w).pc = "runOwn" /\ h \in Nat
  <2>1. At(w, "runOwn")
    BY DEF RunOwn
  <2> QED  BY <2>1, AtTop DEF Orderly
<1>2. /\ n > 1 /\ q \in Nat /\ q + 1 = n /\ IsOwn(Job, w, n) /\ Top(w).ref = <<w, h>>
      /\ h \in Slot /\ Job[w][n].at = h /\ OwnOK(Job, Heads, slot, stealer, begun, w, q)
      /\ Metadata(Top(w).ref) = "unset"
  BY <1>1, OwnTop
<1>3. Begin(t) /\ Become(w, f) /\ UNCHANGED <<deque, arrays, signals, bunk, stopped, done>>
  BY <1>2 DEF RunOwn
<1>4. /\ IsBody(Job, w, q) /\ t \in Spawned(p) \ Job[w][q].todo /\ begun[t] = 0
      /\ \A v \in Worker, i \in Slot : i < Heads[v] => slot[v][i] # t
      /\ \A v \in Worker, m \in Nat : IsBody(Job, v, m) => t \notin Job[v][m].todo
      /\ \A v \in Worker, m \in Nat :
              IsOwn(Job, v, m + 1) /\ slot[v][Job[v][m + 1].at] = t => v = w /\ m = q
      /\ p \in Task /\ begun[p] = 1
  <2>1. Work(Job, Heads, slot, stealer, begun, done) /\ IsOwn(Job, w, q + 1) /\ t = slot[w][Job[w][q + 1].at]
    BY <1>1, <1>2 DEF WorkNow
  <2>2. /\ \A v \in Worker, m \in Nat : IsBody(Job, v, m) => t \notin Job[v][m].todo
        /\ \A v \in Worker, i \in Slot : i < Heads[v] => slot[v][i] # t
        /\ \A v \in Worker, m \in Nat :
              IsOwn(Job, v, m + 1) /\ slot[v][Job[v][m + 1].at] = t => v = w /\ m = q
        /\ IsBody(Job, w, q) /\ t \in Spawned(Job[w][q].task) /\ begun[t] = 0
        /\ Job[w][q].task \in Task /\ begun[Job[w][q].task] = 1
    BY <1>2, <2>1, OwnOnly
  <2> QED  BY <1>2, <2>2
<1>5. t \in Task
  BY <1>4, TreeFacts
<1>6. /\ f \in Frames /\ Top(w)' = f /\ SameBut(Job, Job', w, n) /\ Job'[w][n] = JobOf(f)
  <2>1. f \in Frames
    BY <1>1, <1>5, NewFrames
  <2> QED  BY <1>1, <1>3, <2>1, JobBecome
<1>7. JobOf(f) = [kind |-> "body", task |-> t, todo |-> Spawned(t), base |-> h]
      /\ (\A v, M : Knows(v, f, M) /\ Ready(v, f, M)) /\ f.pc \notin LoudPc
  BY <1>1, <1>5, NewBody
<1> HIDE DEF f
<1>8. Heads' = Heads /\ stealer' = stealer /\ slot' = slot /\ done' = done /\ Heads[w] = h
  BY <1>3 DEF Heads, arrays
<1>9. WorkNow'
  <2>1. PICK K : K = Job'
    OBVIOUS
  <2>2. PICK E : E = begun'
    OBVIOUS
  <2>3. PICK k \in Nat : k = q
    BY <1>2
  <2>4. \A v \in Worker, l \in Nat : ~(v = w /\ l \in {k, k + 1}) => K[v][l] = Job[v][l]
    BY <1>2, <1>6, <2>1, <2>3 DEF SameBut
  <2>5. K[w][k] = Job[w][k]
    BY <1>2, <1>6, <2>1, <2>3 DEF SameBut
  <2>6. IsBody(K, w, k + 1) /\ K[w][k + 1].task = t /\ K[w][k + 1].todo = Spawned(t)
        /\ K[w][k + 1].base = Heads[w]
    BY <1>2, <1>6, <1>7, <1>8, <2>1, <2>3 DEF IsBody
  <2>7. ~IsBody(Job, w, k + 1) /\ ~IsMark(Job, w, k + 1)
    BY <1>2, <2>3 DEF IsBody, IsMark, IsOwn
  <2>8. ~IsOwn(Job, w, k + 2)
    <3>1. k + 2 \in Nat /\ k + 2 \notin Levels(w)
      BY <1>2, <2>3 DEF Levels
    <3> QED  BY <3>1, JobNow
  <2>9. E \in [Task -> Nat] /\ E[t] = 1 /\ \A u \in Task \ {t} : E[u] = begun[u]
    <3>1. begun \in [Task -> Nat]
      BY <1>1 DEF SInv, TypeOK
    <3> QED  BY <1>3, <1>4, <1>5, <2>2, <3>1 DEF Begin
  <2>10. IsBody(Job, w, k) /\ IsBody(K, w, k) /\ K[w][k].task = Job[w][k].task
         /\ K[w][k].base = Job[w][k].base /\ K[w][k].todo = Job[w][k].todo \ {t}
    BY <1>4, <2>3, <2>5 DEF IsBody
  <2>11. \A v \in Worker, l \in Nat : IsOwn(Job, v, l + 1) =>
            (slot[v][Job[v][l + 1].at] = t <=> v = w /\ l = k)
    BY <1>2, <1>4, <2>3
  <2>12. \A v \in Worker, l \in Nat : IsBody(Job, v, l) /\ t \in Job[v][l].todo => v = w /\ l = k
    BY <1>4
  <2>13. Work(Job, Heads, slot, stealer, begun, done)
    BY <1>1 DEF WorkNow
  <2>14. p \in Task /\ begun[p] = 1 /\ t \in Spawned(p) /\ begun[t] = 0
         /\ \A v \in Worker, i \in Slot : i < Heads[v] => slot[v][i] # t
    BY <1>4
  <2> HIDE DEF t, q, p, n, h
  <2>16. BodyBegins(Job, Heads, slot, stealer, w, k, t, K, stealer)
    BY <2>10, <2>14 DEF BodyBegins
  <2>17. Begins(Job, Heads, slot, stealer, begun, w, k, t, p, K, stealer, E)
    BY <2>4, <2>6, <2>7, <2>8, <2>9, <2>11, <2>12, <2>14, <2>16 DEF Begins
  <2>15. Work(K, Heads, slot, stealer, E, done)
    BY <2>13, <2>14, <2>17, WorkBegin
  <2> QED  BY <1>8, <2>1, <2>2, <2>15 DEF WorkNow
<1>10. Local(w) /\ Waits(w, stack'[w], stealer')
  BY <1>1, <1>3, <1>6, <1>7, <1>8, BecomeWaits
<1>11. Hushed(w)
  BY <1>1, <1>3, <1>6, <1>7, <1>10 DEF Hushed, Loud, Local, signals, bunk, LoudPc, HolderPc, SleepPc
<1>12. ~stopped
  BY <1>2, AfterStop
<1>13. Top(w).pc \notin StopPc
  BY <1>1 DEF StopPc
<1> QED  BY <1>8, <1>9, <1>10, <1>11, <1>12, <1>13, QuietStep

(* BodyEnds keeps Orderly.                                                 *)
LEMMA BodyEndsInv ==
  ASSUME Orderly, Advance, NEW w \in Worker, BodyEnds(w)
  PROVE  Orderly'
<1> DEFINE n == Depth(w)
<1>1. SInv /\ WorkNow /\ WaitsNow /\ At(w, "body") /\ Depth(w) > 0 /\ Top(w).pc = "body"
  <2>1. At(w, "body")
    BY DEF BodyEnds
  <2> QED  BY <2>1, AtTop DEF Orderly
<1>2. /\ Top(w).todo = <<>> /\ deque[w].head = Top(w).base /\ Return(w)
      /\ done' = done \cup {Top(w).task} /\ UNCHANGED <<deque, arrays, signals, bunk, stopped, begun>>
  BY DEF BodyEnds
<1>3. /\ IsBody(Job, w, n) /\ n \in Nat /\ Job[w][n].task = Top(w).task
      /\ Job[w][n].base = Top(w).base /\ Job[w][n].todo = Todo(Top(w)) /\ Job[w][n + 1] = NoJob
  BY <1>1, BodyOnTop DEF TopBody, BodyPc
<1>4. Heads' = Heads /\ stealer' = stealer /\ slot' = slot /\ begun' = begun
      /\ Heads[w] = deque[w].head
  BY <1>2 DEF Heads, arrays
<1>5. SameBut(Job, Job', w, n) /\ Job'[w][n] = NoJob /\ n > 0
      /\ (n > 1 => Top(w)' = Under1(w) /\ MayCall(Under1(w), Top(w))) /\ Depth(w)' = n - 1
  BY <1>1, <1>2, JobReturn
<1>6. WorkNow'
  <2>1. PICK K : K = Job'
    OBVIOUS
  <2>2. PICK E : E = done'
    OBVIOUS
  <2>3. Job[w][n].todo = {} /\ Job[w][n].base = Heads[w] /\ Job[w][n + 1].kind = "none"
    <3>1. Todo(Top(w)) = {}
      BY <1>2 DEF Todo, Range
    <3> QED  BY <1>2, <1>3, <1>4, <3>1, JobKinds
  <2>4. SameBut(Job, K, w, n) /\ K[w][n].kind = "none" /\ E = done \cup {Job[w][n].task}
    BY <1>2, <1>3, <1>5, <2>1, <2>2, JobKinds
  <2>5. Work(K, Heads, slot, stealer, begun, E)
    BY <1>1, <1>3, <2>3, <2>4, WorkEnd DEF WorkNow
  <2> QED  BY <1>4, <2>1, <2>2, <2>5 DEF WorkNow
<1>7. n > 1 => Under1(w).pc \in {"body", "markAsFinished", "stopWorkerThreads"}
  BY <1>1, <1>5 DEF MayCall, BodyPc, WaitPc, ShrinkPc, PushPc, GrowPc, PublishPc, ReleasePc, TakenPc, SleepPc
<1>8. Local(w) /\ Waits(w, stack'[w], stealer')
  <2>1. Depth(w) > 1 => Ready(w, Under1(w), stealer')
    BY <1>7 DEF Ready
  <2> QED  BY <1>1, <1>2, <1>4, <2>1, ReturnWaits
<1>9. Hushed(w)
  <2>1. ~Loud(w)
    BY <1>1 DEF Loud, LoudPc, HolderPc, SleepPc
  <2>2. ~Loud(w)'
    BY <1>3, <1>5, <1>7 DEF Loud, LoudPc, HolderPc, SleepPc
  <2> QED  BY <1>2, <1>8, <2>1, <2>2 DEF Hushed, Local, signals, bunk
<1>10. ~stopped /\ Top(w).pc \notin StopPc
  BY <1>1, <1>3, AfterStop DEF StopPc
<1> QED  BY <1>4, <1>6, <1>8, <1>9, <1>10, QuietStep

(* A body that takes its next call off its list.                           *)
LEMMA NextCall ==
  ASSUME SInv, NEW w \in Worker, Depth(w) > 0, Top(w).pc \in BodyPc, Top(w).todo # <<>>,
         Head(Top(w).todo) # None
  PROVE  \E b \in Frames :
           /\ b = [Top(w) EXCEPT !.pc = "body", !.todo = Tail(@)] /\ b.pc = "body"
           /\ JobOf(b).kind = "body" /\ JobOf(b).task = Top(w).task /\ JobOf(b).base = Top(w).base
           /\ JobOf(b).todo = Todo(Top(w)) \ {Head(Top(w).todo)}
           /\ Head(Top(w).todo) \in Todo(Top(w))
           /\ Head(Top(w).todo) \in Task /\ Top(w).base \in Nat
           /\ Top(w).pc = "body" => b = [Top(w) EXCEPT !.todo = Tail(@)]
<1>1. Top(w) \in Frames /\ FrameOK(Top(w))
  BY GoodParts
<1>2. Top(w).todo \in Todos /\ Top(w).base \in Nat
  BY <1>1, FrameFields DEF FrameOK
<1>3. PICK z : z = Tail(Top(w).todo)
  OBVIOUS
<1>4. /\ z \in Seq(Task \cup Worker \cup {None}) /\ Head(Top(w).todo) \in Task
      /\ Range(Top(w).todo) = {Head(Top(w).todo)} \cup Range(z)
      /\ Head(Top(w).todo) \notin Range(z)
  BY <1>2, <1>3, TodoFacts
<1> DEFINE b == [Top(w) EXCEPT !.pc = "body", !.todo = Tail(@)]
<1>5. /\ b \in Frames /\ b.pc = "body" /\ b.task = Top(w).task /\ b.base = Top(w).base
      /\ b.todo = z
  <2>1. "body" \in Pc
    BY DEF Pc, BodyPc
  <2>2. b = [Top(w) EXCEPT !.pc = "body", !.todo = z]
    BY <1>1, <1>3 DEF Frames
  <2> HIDE DEF b
  <2> QED  BY <1>1, <1>4, <2>1, <2>2 DEF Frames
<1>6. Top(w).pc = "body" => b = [Top(w) EXCEPT !.todo = Tail(@)]
  BY <1>1 DEF Frames
<1> HIDE DEF b
<1>7. Todo(b) = Todo(Top(w)) \ {Head(Top(w).todo)} /\ Head(Top(w).todo) \in Todo(Top(w))
  <2>1. Head(Top(w).todo) # None
    OBVIOUS
  <2> QED  BY <1>4, <1>5, <2>1 DEF Todo
<1>8. /\ JobOf(b).kind = "body" /\ JobOf(b).task = Top(w).task /\ JobOf(b).base = Top(w).base
      /\ JobOf(b).todo = Todo(b)
  BY <1>5, JobKinds DEF BodyPc
<1>9. b = [Top(w) EXCEPT !.pc = "body", !.todo = Tail(@)]
  BY DEF b
<1> QED  BY <1>2, <1>4, <1>5, <1>6, <1>7, <1>8, <1>9

(* Overflow keeps Orderly.                                                 *)
LEMMA OverflowInv ==
  ASSUME Orderly, Advance, NEW w \in Worker, Overflow(w)
  PROVE  Orderly'
<1> DEFINE h == deque[w].head
           t == Head(Top(w).todo)
           n == Depth(w)
           p == Top(w).task
           g == Body(t, h + 1)
<1>1. /\ SInv /\ WorkNow /\ WaitsNow /\ At(w, "overflow") /\ Depth(w) > 0 /\ Top(w).pc = "overflow" /\ h \in Nat
      /\ Top(w).todo # <<>> /\ t # None /\ kTaskArraySize <= h /\ kTaskArraySize \in Nat
      /\ Top(w).pc \in BodyPc
  <2>1. At(w, "overflow")
    BY DEF Overflow
  <2>2. SInv /\ WorkNow /\ WaitsNow
    BY DEF Orderly
  <2> QED  BY <2>1, <2>2, AtTop, StealingAssumption DEF FrameOK, FitsHead, AtHead, BodyPc
<1>2. /\ Begin(t) /\ deque' = [deque EXCEPT ![w].head = @ + 1]
      /\ Call(w, g, [Top(w) EXCEPT !.pc = "body", !.todo = Tail(@)])
      /\ UNCHANGED <<arrays, signals, bunk, stopped, done>>
  BY DEF Overflow
<1>3. PICK b \in Frames :
           /\ b = [Top(w) EXCEPT !.pc = "body", !.todo = Tail(@)] /\ b.pc = "body"
           /\ JobOf(b).kind = "body" /\ JobOf(b).task = Top(w).task /\ JobOf(b).base = Top(w).base
           /\ JobOf(b).todo = Todo(Top(w)) \ {t}
           /\ t \in Todo(Top(w)) /\ t \in Task
  BY <1>1, NextCall
<1>4. /\ TopBody(Job, w, n) /\ n \in Nat
      /\ Job[w][n].task = p /\ Job[w][n].base = Top(w).base
      /\ Job[w][n].todo = Todo(Top(w)) /\ Job[w][n + 1] = NoJob
  BY <1>1, BodyOnTop
<1>5. g \in Frames /\ g.pc = "body"
      /\ JobOf(g) = [kind |-> "body", task |-> t, todo |-> Spawned(t), base |-> h + 1]
      /\ (\A v, M : Knows(v, g, M) /\ Ready(v, g, M)) /\ g.pc \notin LoudPc
  BY <1>1, <1>3, NewBody, NewFrames
<1>6. Call(w, g, b)
  BY <1>2, <1>3
<1> HIDE DEF g
<1>7. /\ Steps(w) /\ Top(w)' = g
      /\ \A v \in Worker, l \in Nat : ~(v = w /\ l \in {n, n + 1}) => Job'[v][l] = Job[v][l]
      /\ Job'[w][n] = JobOf(b) /\ Job'[w][n + 1] = JobOf(g) /\ Job[w][n + 2] = NoJob
  BY <1>1, <1>5, <1>6, JobCall
<1>8. /\ Heads'[w] = h + 1 /\ Heads[w] = h /\ (\A v \in Worker \ {w} : Heads'[v] = Heads[v])
      /\ \A v \in Worker : Heads[v] \in Nat
  <2> DEFINE e == [deque[w] EXCEPT !.head = @ + 1]
  <2>1. deque[w] \in Deque /\ deque' = [deque EXCEPT ![w] = e]
    BY <1>1, <1>2, GoodParts DEF SInv, TypeOK
  <2>2. e.head = h + 1
    BY <2>1 DEF Deque
  <2> HIDE DEF e
  <2> QED  BY <1>1, <2>1, <2>2, HeadsSet
<1>9. stealer' = stealer /\ slot' = slot /\ done' = done
  BY <1>2 DEF arrays
<1>10. \A v \in Worker, i \in Slot : i < Heads'[v] <=> i < Heads[v]
  <2>1. \A i \in Slot : i \in Nat /\ i < kTaskArraySize
    BY <1>1 DEF Slot
  <2> QED  BY <1>1, <1>8, <2>1
<1>11. WorkNow'
  <2>1. PICK K : K = Job'
    OBVIOUS
  <2>2. PICK E : E = begun'
    OBVIOUS
  <2>3. PICK I : I = Heads'
    OBVIOUS
  <2>4. \A v \in Worker : I[v] \in Nat
    BY <1>1, <1>8, <2>3
  <2>5. Work(Job, I, slot, stealer, begun, done)
    BY <1>1, <1>10, <2>3, <2>4, WorkHeads DEF WorkNow
  <2>6. IsBody(Job, w, n) /\ t \in Job[w][n].todo
    BY <1>3, <1>4 DEF TopBody
  <2>7. /\ \A v \in Worker, i \in Slot : i < I[v] => slot[v][i] # t
        /\ \A v \in Worker, m \in Nat : IsOwn(Job, v, m + 1) => slot[v][Job[v][m + 1].at] # t
        /\ \A v \in Worker, m \in Nat : IsBody(Job, v, m) /\ t \in Job[v][m].todo => v = w /\ m = n
        /\ t \in Spawned(Job[w][n].task) /\ begun[t] = 0 /\ begun[Job[w][n].task] = 1
        /\ Job[w][n].task \in Task
    BY <1>4, <2>5, <2>6, TodoOnly
  <2>8. /\ \A v \in Worker, i \in Slot : i < I[v] => slot[v][i] # t
        /\ \A v \in Worker, m \in Nat : IsOwn(Job, v, m + 1) =>
              (slot[v][Job[v][m + 1].at] = t <=> v = w /\ m = n)
        /\ \A v \in Worker, m \in Nat : IsBody(Job, v, m) /\ t \in Job[v][m].todo => v = w /\ m = n
        /\ t \in Spawned(p) /\ begun[t] = 0 /\ begun[p] = 1 /\ p \in Task
    <3>1. ~IsOwn(Job, w, n + 1)
      BY <1>4, JobKinds DEF IsOwn
    <3> QED  BY <1>4, <2>7, <3>1
  <2>9. \A v \in Worker, l \in Nat : ~(v = w /\ l \in {n, n + 1}) => K[v][l] = Job[v][l]
    BY <1>7, <2>1
  <2>10. /\ IsBody(K, w, n + 1) /\ K[w][n + 1].task = t /\ K[w][n + 1].todo = Spawned(t)
         /\ K[w][n + 1].base = I[w]
    BY <1>5, <1>7, <1>8, <2>1, <2>3 DEF IsBody
  <2>11. ~IsBody(Job, w, n + 1) /\ ~IsMark(Job, w, n + 1) /\ ~IsOwn(Job, w, n + 2)
    BY <1>4, <1>7, JobKinds DEF IsBody, IsMark, IsOwn
  <2>12. E \in [Task -> Nat] /\ E[t] = 1 /\ \A u \in Task \ {t} : E[u] = begun[u]
    <3>1. begun \in [Task -> Nat]
      BY <1>1 DEF SInv, TypeOK
    <3> QED  BY <1>2, <1>3, <2>2, <2>8, <3>1 DEF Begin
  <2>13. /\ IsBody(Job, w, n) /\ IsBody(K, w, n) /\ K[w][n].task = Job[w][n].task
         /\ K[w][n].base = Job[w][n].base /\ K[w][n].todo = Job[w][n].todo \ {t}
    BY <1>3, <1>4, <1>7, <2>1, <2>6 DEF IsBody
  <2>14. n \in Nat
    BY <1>4
  <2> HIDE DEF t, p, n, h
  <2>15. BodyBegins(Job, I, slot, stealer, w, n, t, K, stealer)
    BY <2>8, <2>13 DEF BodyBegins
  <2>16. Begins(Job, I, slot, stealer, begun, w, n, t, p, K, stealer, E)
    BY <2>8, <2>9, <2>10, <2>11, <2>12, <2>15 DEF Begins
  <2>17. Work(K, I, slot, stealer, E, done)
    BY <2>5, <2>8, <2>14, <2>16, WorkBegin
  <2> QED  BY <1>9, <2>1, <2>2, <2>3, <2>17 DEF WorkNow
<1>12. Local(w) /\ Waits(w, stack'[w], stealer')
  <2>1. Knows(w, b, stealer')
    BY <1>3, NoJobs DEF WaitPc
  <2> QED  BY <1>1, <1>5, <1>6, <1>9, <2>1, CallWaits
<1>13. Hushed(w)
  BY <1>1, <1>2, <1>5, <1>7, <1>12 DEF Hushed, Loud, Local, signals, bunk, LoudPc, HolderPc, SleepPc
<1>14. ~stopped /\ Top(w).pc \notin StopPc
  BY <1>1, <1>4, AfterStop DEF StopPc, TopBody
<1> QED  BY <1>9, <1>10, <1>11, <1>12, <1>13, <1>14, QuietStep

(* PopOverflown keeps Orderly.                                             *)
LEMMA PopOverflownInv ==
  ASSUME Orderly, Advance, NEW w \in Worker, PopOverflown(w)
  PROVE  Orderly'
<1> DEFINE h == deque[w].head
<1>1. SInv /\ WorkNow /\ WaitsNow /\ Syncs(w) /\ h > kTaskArraySize /\ Become(w, Synced(w))
      /\ deque' = [deque EXCEPT ![w].head = @ - 1] /\ UNCHANGED <<arrays, signals, bunk, stopped, history>>
  BY DEF Orderly, PopOverflown
<1>2. PICK f \in Frames :
           /\ f = Synced(w) /\ f.pc = "body" /\ Depth(w) > 0 /\ Top(w).pc = "body"
  BY <1>1, SyncedFrame
<1>3. h \in Nat /\ kTaskArraySize \in Nat
  BY <1>1, GoodParts, StealingAssumption
<1>4. Job' = Job /\ Top(w)' = f
  <2>1. JobOf(f) = JobOf(Top(w))
    BY <1>1, <1>2, SyncedJob
  <2> QED  BY <1>1, <1>2, <2>1, JobQuiet, JobBecome
<1>5. /\ Heads'[w] = h - 1 /\ Heads[w] = h /\ (\A v \in Worker \ {w} : Heads'[v] = Heads[v])
      /\ \A v \in Worker : Heads[v] \in Nat
  <2> DEFINE e == [deque[w] EXCEPT !.head = @ - 1]
  <2>1. deque[w] \in Deque /\ deque' = [deque EXCEPT ![w] = e]
    BY <1>1, GoodParts DEF SInv, TypeOK
  <2>2. e.head = h - 1
    BY <2>1 DEF Deque
  <2> HIDE DEF e
  <2> QED  BY <1>1, <2>1, <2>2, HeadsSet
<1>6. \A v \in Worker, i \in Slot : i < Heads'[v] <=> i < Heads[v]
  <2>1. \A i \in Slot : i \in Nat /\ i < kTaskArraySize
    BY <1>3 DEF Slot
  <2>2. \A i \in Slot : i < h - 1 <=> i < h
    BY <1>1, <1>3, <2>1
  <2> QED  BY <1>5, <2>2
<1>7. stealer' = stealer /\ slot' = slot /\ done' = done /\ begun' = begun
  BY <1>1 DEF arrays, history
<1>8. WorkNow'
  <2>1. PICK I : I = Heads'
    OBVIOUS
  <2>2. \A v \in Worker : I[v] \in Nat
    BY <1>1, <1>3, <1>5, <2>1
  <2>3. Work(Job, I, slot, stealer, begun, done)
    BY <1>1, <1>6, <2>1, <2>2, WorkHeads DEF WorkNow
  <2> QED  BY <1>4, <1>7, <2>1, <2>3 DEF WorkNow
<1>9. Local(w) /\ Waits(w, stack'[w], stealer')
  <2>1. Knows(w, f, stealer') /\ Ready(w, f, stealer')
    BY <1>2, NoJobs DEF WaitPc
  <2> QED  BY <1>1, <1>2, <1>7, <2>1, BecomeWaits
<1>10. Hushed(w)
  BY <1>1, <1>2, <1>4, <1>9 DEF Hushed, Loud, Local, signals, bunk, LoudPc, HolderPc, SleepPc
<1>11. Top(w).pc \notin StopPc
  BY <1>2 DEF StopPc
<1> QED  BY <1>4, <1>6, <1>7, <1>8, <1>9, <1>10, <1>11, QuietStep

(* One metadata word is written.                                           *)
LEMMA MetaSet ==
  ASSUME SInv, NEW v \in Worker, NEW i \in Slot, NEW x, stealer' = [stealer EXCEPT ![v][i] = x]
  PROVE  stealer'[v][i] = x /\ SameSlots(stealer, stealer', v, i)
<1>1. stealer \in [Worker -> [Slot -> Worker \cup {"unset", "finished"}]]
  BY DEF SInv, TypeOK
<1> QED  BY <1>1 DEF SameSlots

(* One slot is written.                                                    *)
LEMMA TaskSet ==
  ASSUME SInv, NEW v \in Worker, NEW i \in Slot, NEW x, slot' = [slot EXCEPT ![v][i] = x]
  PROVE  slot'[v][i] = x /\ SameSlots(slot, slot', v, i)
<1>1. slot \in [Worker -> [Slot -> Task \cup {None}]]
  BY DEF SInv, TypeOK
<1> QED  BY <1>1 DEF SameSlots

(* Spawn keeps Orderly.                                                    *)
LEMMA SpawnInv ==
  ASSUME Orderly, Advance, NEW w \in Worker, Spawn(w)
  PROVE  Orderly'
<1> DEFINE h == deque[w].head
           t == Head(Top(w).todo)
           n == Depth(w)
<1>1. /\ SInv /\ WorkNow /\ WaitsNow /\ Depth(w) > 0 /\ Top(w).pc = "body" /\ h \in Nat
      /\ Top(w).todo # <<>> /\ t # None /\ h < kTaskArraySize /\ kTaskArraySize \in Nat
      /\ Top(w).pc \in BodyPc /\ deque[w] \in Deque /\ Top(w).base <= h
  <2>1. At(w, "body")
    BY DEF Spawn, Spawns
  <2>2. SInv /\ WorkNow /\ WaitsNow
    BY DEF Orderly
  <2>3. Top(w).todo # <<>> /\ t # None /\ h < kTaskArraySize
    BY DEF Spawn, Spawns
  <2> QED  BY <2>1, <2>2, <2>3, AtTop, StealingAssumption DEF BodyPc, FitsHead
<1>2. h \in Slot
  BY <1>1 DEF Slot
<1>3. PICK b \in Frames :
           /\ b = [Top(w) EXCEPT !.todo = Tail(@)] /\ b.pc = "body"
           /\ JobOf(b).kind = "body" /\ JobOf(b).task = Top(w).task /\ JobOf(b).base = Top(w).base
           /\ JobOf(b).todo = Todo(Top(w)) \ {t}
           /\ t \in Todo(Top(w)) /\ t \in Task
  BY <1>1, NextCall
<1>4. PICK f \in Frames :
        /\ Call(w, f, b) /\ f.pc \in {"pushShare", "growShared"}
        /\ Heads'[w] = h + 1 /\ (\A v \in Worker \ {w} : Heads'[v] = Heads[v])
  <2>1. "pushShare" \in Pc /\ "growShared" \in Pc
    BY DEF Pc, PushPc, GrowPc
  <2>2. ASSUME NEW e, deque' = [deque EXCEPT ![w] = e], e.head = h + 1
        PROVE  Heads'[w] = h + 1 /\ (\A v \in Worker \ {w} : Heads'[v] = Heads[v])
    BY <1>1, <2>2, HeadsSet
  <2>3. CASE /\ deque' = [deque EXCEPT ![w] =
                            [deque[w] EXCEPT !.head = h + 1, !.tail = h, !.split = h + 1]]
             /\ Call(w, Frame("pushShare"), b)
    <3> DEFINE e == [deque[w] EXCEPT !.head = h + 1, !.tail = h, !.split = h + 1]
    <3>1. e.head = h + 1
      BY <1>1 DEF Deque
    <3> HIDE DEF e
    <3>2. Heads'[w] = h + 1 /\ (\A v \in Worker \ {w} : Heads'[v] = Heads[v])
      BY <2>2, <2>3, <3>1 DEF e
    <3>3. Frame("pushShare") \in Frames /\ Frame("pushShare").pc = "pushShare"
      BY <2>1, NewFrames
    <3> QED  BY <2>3, <3>2, <3>3
  <2>4. CASE deque' = [deque EXCEPT ![w].head = h + 1] /\ Call(w, Frame("growShared"), b)
    <3> DEFINE e == [deque[w] EXCEPT !.head = h + 1]
    <3>1. e.head = h + 1
      BY <1>1 DEF Deque
    <3>2. deque' = [deque EXCEPT ![w] = e]
      BY <1>1, <2>4 DEF SInv, TypeOK
    <3> HIDE DEF e
    <3>3. Heads'[w] = h + 1 /\ (\A v \in Worker \ {w} : Heads'[v] = Heads[v])
      BY <2>2, <3>1, <3>2
    <3>4. Frame("growShared") \in Frames /\ Frame("growShared").pc = "growShared"
      BY <2>1, NewFrames
    <3> QED  BY <2>4, <3>3, <3>4
  <2> QED  BY <1>3, <2>3, <2>4 DEF Spawn
<1>5. /\ stealer' = [stealer EXCEPT ![w][h] = "unset"] /\ slot' = [slot EXCEPT ![w][h] = t]
      /\ begun' = begun /\ done' = done /\ UNCHANGED <<signals, bunk, stopped>>
  BY DEF Spawn, history
<1>6. /\ stealer'[w][h] = "unset" /\ SameSlots(stealer, stealer', w, h)
      /\ slot'[w][h] = t /\ SameSlots(slot, slot', w, h)
  <2>1. PICK i \in Slot : i = h
    BY <1>2
  <2>2. PICK u : u = t
    OBVIOUS
  <2> HIDE DEF h, t
  <2>3. stealer'[w][i] = "unset" /\ SameSlots(stealer, stealer', w, i)
    BY <1>1, <1>5, <2>1, MetaSet
  <2>4. slot'[w][i] = u /\ SameSlots(slot, slot', w, i)
    BY <1>1, <1>5, <2>1, <2>2, TaskSet
  <2> QED  BY <2>1, <2>2, <2>3, <2>4
<1>7. /\ JobOf(f) = NoJob /\ f.pc \notin LoudPc
      /\ Knows(w, f, stealer') /\ Ready(w, f, stealer') /\ Knows(w, b, stealer')
  BY <1>3, <1>4, NoJobs DEF WorkPc, BodyPc, LoudPc, HolderPc, SleepPc, WaitPc
<1>8. /\ TopBody(Job, w, n) /\ n \in Nat
      /\ Job[w][n].task = Top(w).task /\ Job[w][n].base = Top(w).base
      /\ Job[w][n].todo = Todo(Top(w))
  BY <1>1, BodyOnTop
<1>9. /\ Steps(w) /\ Top(w)' = f /\ SameBut(Job, Job', w, n) /\ Job'[w][n] = JobOf(b)
  <2>1. /\ Steps(w) /\ Top(w)' = f
        /\ \A v \in Worker, l \in Nat : ~(v = w /\ l \in {n, n + 1}) => Job'[v][l] = Job[v][l]
        /\ Job'[w][n] = JobOf(b) /\ Job'[w][n + 1] = JobOf(f) /\ Job[w][n + 1] = NoJob
    BY <1>1, <1>4, JobCall
  <2> QED  BY <1>7, <2>1 DEF SameBut
<1>10. WorkNow'
  <2>1. PICK K : K = Job'
    OBVIOUS
  <2>2. PICK I : I = Heads'
    OBVIOUS
  <2>3. PICK R : R = slot'
    OBVIOUS
  <2>4. PICK P : P = stealer'
    OBVIOUS
  <2>5. SpawnsTo(Job, Heads, slot, stealer, w, n, t, h, K, I, R, P)
    <3>1. SameBut(Job, K, w, n) /\ IsBody(K, w, n) /\ K[w][n].task = Job[w][n].task
          /\ K[w][n].base = Job[w][n].base /\ K[w][n].todo = Job[w][n].todo \ {t}
      BY <1>3, <1>8, <1>9, <2>1 DEF IsBody
    <3>2. Heads[w] = h /\ Job[w][n].base <= h /\ I[w] = h + 1
          /\ \A v \in Worker \ {w} : I[v] = Heads[v]
      BY <1>1, <1>4, <1>8, <2>2 DEF Heads
    <3>3. SameSlots(slot, R, w, h) /\ R[w][h] = t /\ SameSlots(stealer, P, w, h) /\ P[w][h] = "unset"
      BY <1>6, <2>3, <2>4
    <3> QED  BY <1>3, <1>8, <3>1, <3>2, <3>3 DEF SpawnsTo
  <2>6. Work(K, I, R, P, begun, done)
    BY <1>1, <1>2, <1>8, <2>5, WorkSpawn DEF WorkNow
  <2> QED  BY <1>5, <2>1, <2>2, <2>3, <2>4, <2>6 DEF WorkNow
<1>11. Local(w) /\ Waits(w, stack'[w], stealer')
  <2>1. \A i \in Slot : i < Heads[w] /\ stealer[w][i] # "unset" => stealer'[w][i] # "unset"
    BY <1>1, <1>2, <1>6, SlotFacts DEF SameSlots, Heads
  <2> QED  BY <1>1, <1>3, <1>4, <1>7, <2>1, CallWaits
<1>12. Hushed(w)
  BY <1>1, <1>5, <1>7, <1>9, <1>11 DEF Hushed, Loud, Local, signals, bunk, LoudPc, HolderPc, SleepPc
<1>13. ~stopped /\ Top(w).pc \notin StopPc
  BY <1>1, <1>8, AfterStop DEF StopPc, TopBody
<1>14. \A v \in Worker, i \in Slot :
           \/ stealer'[v][i] = stealer[v][i]
           \/ v = w /\ stealer'[v][i] = "unset" /\ ~(i < Heads[w])
  BY <1>1, <1>2, <1>6 DEF SameSlots, Heads
<1>15. \A v \in Worker, i \in Slot : /\ i < Heads[v] => i < Heads'[v]
                                     /\ i < Heads'[v] => i < Heads[v] \/ stealer'[v][i] = "unset"
  <2>1. Heads[w] = h
    BY DEF Heads
  <2>2. \A i \in Slot : i < h + 1 <=> i < h \/ i = h
    BY <1>1, SlotFacts
  <2> QED  BY <1>1, <1>2, <1>4, <1>6, <2>1, <2>2
<1> QED  BY <1>10, <1>11, <1>12, <1>13, <1>14, <1>15, QuietStep

(* The owner takes its newest task: what TakeOwn does with the stack.      *)
TookOwn(w, h, y, run, grow, z) ==
  /\ run.pc = "runOwn" /\ run.ref = <<w, h>> /\ grow.pc = "growShared"
  /\ stack' = [stack EXCEPT ![w] = z]
  /\ Len(z) \in {Len(y) + 1, Len(y) + 2} /\ z[Len(y) + 1] = run
  /\ Len(z) = Len(y) + 2 => z[Len(y) + 2] = grow
  /\ \A l \in 1..Len(y) : z[l] = y[l]

(* The stack after a task is taken back from the own part.                 *)
LEMMA TakeOwnStack ==
  ASSUME SInv, NEW w \in Worker, NEW d \in Deque, NEW y \in Seq(Frames), TakeOwn(w, d, y),
         NEW h \in Slot, h = d.head - 1
  PROVE  \E run, grow \in Frames : \E z \in Seq(Frames) : TookOwn(w, h, y, run, grow, z)
<1> DEFINE run == OnSlot("runOwn", <<w, h>>)
           grow == Frame("growShared")
<1>1. <<w, h>> \in Ref
  BY DEF Ref
<1>2. /\ run \in Frames /\ run.pc = "runOwn" /\ run.ref = <<w, h>>
      /\ grow \in Frames /\ grow.pc = "growShared"
  <2>1. "runOwn" \in Pc /\ "growShared" \in Pc
    BY DEF Pc, GrowPc
  <2>2. run \in Frames /\ run.pc = "runOwn" /\ run.ref = <<w, h>>
    BY <1>1, <2>1, NewFrames
  <2> QED  BY <2>1, <2>2, NewFrames
<1>3. stack' = [stack EXCEPT ![w] = IF h # 0 /\ h # d.splitCopy
                                    THEN Append(Append(y, run), grow) ELSE Append(y, run)]
  BY DEF TakeOwn
<1> HIDE DEF run, grow
<1>4. PICK x \in Seq(Frames) : x = Append(y, run)
  <2>1. Append(y, run) \in Seq(Frames)
    BY <1>2
  <2> QED  BY <2>1
<1>5. Len(x) = Len(y) + 1 /\ x[Len(y) + 1] = run /\ \A l \in 1..Len(y) : x[l] = y[l]
  BY <1>2, <1>4
<1>6. CASE h # 0 /\ h # d.splitCopy
  <2>1. PICK z \in Seq(Frames) : z = Append(x, grow)
    <3>1. Append(x, grow) \in Seq(Frames)
      BY <1>2
    <3> QED  BY <3>1
  <2>2. Len(z) = Len(x) + 1 /\ z[Len(x) + 1] = grow /\ \A l \in 1..Len(x) : z[l] = x[l]
    BY <1>2, <2>1
  <2>3. Len(y) \in Nat /\ Len(z) = Len(y) + 2 /\ z[Len(y) + 2] = grow
    BY <1>5, <2>2
  <2>4. z[Len(y) + 1] = run /\ \A l \in 1..Len(y) : z[l] = y[l]
    BY <1>5, <2>2, <2>3
  <2>5. stack' = [stack EXCEPT ![w] = z]
    BY <1>3, <1>4, <1>6, <2>1
  <2>6. TookOwn(w, h, y, run, grow, z)
    BY <1>2, <2>3, <2>4, <2>5 DEF TookOwn
  <2> QED  BY <1>2, <2>6
<1>7. CASE ~(h # 0 /\ h # d.splitCopy)
  <2>1. stack' = [stack EXCEPT ![w] = x]
    BY <1>3, <1>4, <1>7
  <2>2. Len(x) # Len(y) + 2
    BY <1>5
  <2>3. TookOwn(w, h, y, run, grow, x)
    BY <1>2, <1>5, <2>1, <2>2 DEF TookOwn
  <2> QED  BY <1>2, <2>3
<1> QED  BY <1>6, <1>7

(* The heads after a task is taken back.                                   *)
LEMMA TakeOwnHeads ==
  ASSUME SInv, NEW w \in Worker, NEW d \in Deque, NEW y, TakeOwn(w, d, y),
         d.head = deque[w].head, d.head - 1 \in Nat
  PROVE  /\ Heads[w] = deque[w].head /\ Heads'[w] = deque[w].head - 1
         /\ \A v \in Worker \ {w} : Heads'[v] = Heads[v]
<1> DEFINE e == [d EXCEPT !.head = d.head - 1]
<1>1. e \in Deque /\ e.head = deque[w].head - 1
  BY DEF Deque
<1>2. \/ GiveUpShare(w, e) \/ deque' = [deque EXCEPT ![w] = e]
  BY DEF TakeOwn
<1> HIDE DEF e
<1>3. CASE GiveUpShare(w, e)
  <2>1. PICK g : deque' = [deque EXCEPT ![w] = g] /\ g.head = e.head
    BY <1>1, <1>3, GaveUp
  <2> QED  BY <1>1, <2>1, HeadsSet
<1>4. CASE deque' = [deque EXCEPT ![w] = e]
  BY <1>1, <1>4, HeadsSet
<1> QED  BY <1>2, <1>3, <1>4

(* Taking a task back from the own part keeps Orderly.                     *)
LEMMA TakeOwnInv ==
  ASSUME Orderly, Advance, NEW w \in Worker, Depth(w) > 0, Top(w).pc \notin LoudPc \cup StopPc,
         NEW d \in Deque, NEW y \in Seq(Frames), TakeOwn(w, d, y),
         UNCHANGED <<arrays, signals, sleepers, stopped, history>>,
         d.head = deque[w].head, d.head - 1 \in Slot, d.head - 1 \notin TakenNow[w],
         NEW m \in Nat, Len(y) = m, m >= Depth(w) - 1, m <= Depth(w),
         TopBody(Job, w, m), Job[w][m].base <= d.head - 1, Job[w][m + 1] = NoJob,
         \A l \in 1..m : /\ l < Depth(w) => y[l] = stack[w][l]
                         /\ l >= Depth(w) => y[l].pc = "body"
                         /\ JobOf(y[l]) = Job[w][l]
  PROVE  Orderly'
<1> DEFINE h == d.head - 1
           n == Depth(w)
<1>1. /\ SInv /\ WorkNow /\ WaitsNow /\ n \in Nat /\ deque[w].head \in Nat /\ h \in Nat /\ d.head = h + 1
      /\ stack \in [Worker -> Seq(Frames)]
  BY GoodParts, SlotFacts DEF Orderly, SInv, TypeOK
<1>2. \E run, grow \in Frames : \E z \in Seq(Frames) : TookOwn(w, h, y, run, grow, z)
  <2>1. PICK k \in Slot : k = h
    OBVIOUS
  <2>2. SInv /\ k = d.head - 1
    BY <1>1, <2>1
  <2> HIDE DEF h
  <2>3. \E run, grow \in Frames : \E z \in Seq(Frames) : TookOwn(w, k, y, run, grow, z)
    BY <2>2, TakeOwnStack
  <2> QED  BY <2>1, <2>3
<1>3. PICK run \in Frames, grow \in Frames, z \in Seq(Frames) :
           /\ run.pc = "runOwn" /\ run.ref = <<w, h>> /\ grow.pc = "growShared"
           /\ stack' = [stack EXCEPT ![w] = z]
           /\ Len(z) \in {m + 1, m + 2} /\ z[m + 1] = run
           /\ Len(z) = m + 2 => z[m + 2] = grow
           /\ \A l \in 1..m : z[l] = y[l]
  <2> HIDE DEF h
  <2> QED  BY <1>2 DEF TookOwn
<1>4. /\ Heads[w] = h + 1 /\ Heads'[w] = h /\ \A v \in Worker \ {w} : Heads'[v] = Heads[v]
  BY <1>1, TakeOwnHeads
<1>5. stealer' = stealer /\ slot' = slot /\ begun' = begun /\ done' = done
  BY DEF arrays, history
<1> HIDE DEF h, n
<1>6. /\ Steps(w) /\ Depth(w)' = Len(z) /\ stack'[w] = z /\ \A l \in 1..(n - 1) : stack'[w][l] = stack[w][l]
      /\ Top(w)' = z[Len(z)]
  <2>1. stack' \in [Worker -> Seq(Frames)] /\ stack'[w] = z /\ \A v \in Worker \ {w} : stack'[v] = stack[v]
    BY <1>1, <1>3
  <2>2. Depth(w)' = Len(z) /\ Top(w)' = z[Len(z)]
    BY <2>1 DEF Depth, Top
  <2>3. \A l \in 1..(n - 1) : l \in 1..m /\ l < Depth(w)
    BY <1>1 DEF n
  <2>4. \A l \in 1..(n - 1) : z[l] = stack[w][l]
    BY <1>3, <2>3
  <2> QED  BY <2>1, <2>2, <2>4 DEF Steps
<1>7. \A l \in Nat : Job'[w][l] = IF l \in 1..Len(z) THEN JobOf(z[l]) ELSE NoJob
  BY <1>6, JobAt DEF Levels
<1>8. JobOf(run).kind = "own" /\ JobOf(run).at = h /\ JobOf(grow) = NoJob
  <2>1. JobOf(grow) = NoJob
    BY <1>3, NoJobs DEF WorkPc, BodyPc
  <2>2. run.ref[2] = h
    BY <1>3
  <2> QED  BY <1>3, <2>1, <2>2, JobKinds
<1>9. /\ Job'[w][m + 1] = JobOf(run) /\ SameBut(Job, Job', w, m + 1)
  <2>1. Job'[w][m + 1] = JobOf(run)
    <3>1. m + 1 \in Nat /\ m + 1 \in 1..Len(z)
      BY <1>3
    <3> QED  BY <1>3, <1>7, <3>1
  <2>2. ASSUME NEW l \in Nat, l # m + 1  PROVE Job'[w][l] = Job[w][l]
    <3>1. CASE l \in 1..m
      <4>1. l \in 1..Len(z)
        BY <1>3, <3>1
      <4> QED  BY <1>3, <1>7, <3>1, <4>1
    <3>2. CASE l \notin 1..m
      <4>1. l \notin Levels(w)
        BY <1>1, <2>2, <3>2 DEF Levels, n
      <4>2. Job[w][l] = NoJob
        BY <4>1, JobAt
      <4>3. l \notin 1..Len(z) \/ (l = m + 2 /\ Len(z) = m + 2)
        BY <1>3, <2>2, <3>2
      <4> QED  BY <1>3, <1>7, <1>8, <4>2, <4>3
    <3> QED  BY <3>1, <3>2
  <2>3. ASSUME NEW v \in Worker, v # w, NEW l \in Nat  PROVE Job'[v][l] = Job[v][l]
    <3>1. stack'[v] = stack[v]
      BY <1>6, <2>3 DEF Steps
    <3> QED  BY <3>1, JobAt DEF Levels, Depth
  <2> QED  BY <2>1, <2>2, <2>3 DEF SameBut
<1>10. stealer[w][h] = "unset"
  <2>1. h \in Slot /\ h \notin TakenNow[w] /\ h < Heads[w]
    BY <1>1, <1>4 DEF h
  <2> QED  BY <2>1 DEF Orderly, UntakenNow, Untaken
<1>11. WorkNow'
  <2>1. PICK K : K = Job'
    OBVIOUS
  <2>2. PICK I : I = Heads'
    OBVIOUS
  <2>3. SameBut(Job, K, w, m + 1) /\ Job[w][m + 1].kind = "none" /\ IsOwn(K, w, m + 1)
        /\ K[w][m + 1].at = h /\ stealer[w][h] = "unset"
    BY <1>8, <1>9, <1>10, <2>1, JobKinds DEF IsOwn
  <2>4. h \in Slot /\ Heads[w] = h + 1 /\ Job[w][m].base <= h /\ I[w] = h
        /\ \A v \in Worker \ {w} : I[v] = Heads[v]
    BY <1>4, <2>2 DEF h
  <2>5. Drops(Job, Heads, stealer, w, m, h, I, K)
    BY <2>3, <2>4 DEF Drops
  <2>6. Work(K, I, slot, stealer, begun, done)
    BY <1>1, <2>4, <2>5, WorkDrop DEF WorkNow
  <2> QED  BY <1>5, <2>1, <2>2, <2>6 DEF WorkNow
<1>12. Local(w)
  <2>1. Len(z) \in Nat /\ Len(z) >= n - 1
    BY <1>1, <1>3 DEF n
  <2> QED  BY <1>6, <2>1 DEF Local, n
<1>13. Top(w)'.pc \in {"runOwn", "growShared"} /\ Depth(w)' > 0
  <2>1. z[Len(z)] \in {run, grow}
    BY <1>3
  <2> QED  BY <1>3, <1>6, <2>1
<1>14. Waits(w, stack'[w], stealer')
  <2>1. ASSUME NEW l \in 1..Depth(w)', l >= Depth(w)  PROVE Knows(w, stack'[w][l], stealer')
    <3>1. l \in 1..m \/ z[l] \in {run, grow}
      BY <1>3, <1>6, <2>1
    <3>2. l \in 1..m => z[l].pc = "body"
      BY <1>3, <2>1
    <3>3. stack'[w][l].pc \in {"body", "runOwn", "growShared"}
      BY <1>3, <1>6, <3>1, <3>2
    <3> QED  BY <3>3, NoJobs DEF WaitPc
  <2>2. Ready(w, stack'[w][Depth(w)'], stealer')
    BY <1>13 DEF Ready, Top
  <2> QED  BY <1>1, <1>5, <1>12, <2>1, <2>2, WaitsAll
<1>15. Hushed(w)
  <2>1. ~Loud(w)' /\ ~Loud(w)
    BY <1>13 DEF Loud, LoudPc, HolderPc, SleepPc
  <2> QED  BY <1>12, <2>1 DEF Hushed, Local, signals
<1>16. ~stopped
  BY AfterStop DEF TopBody
<1>17. \A v \in Worker, i \in Slot : /\ i < Heads[v] /\ i \in TakenNow[v] => i < Heads'[v]
                                     /\ i < Heads'[v] => i < Heads[v]
  <2>1. \A i \in Slot : i \in TakenNow[w] => i # h
    BY DEF h
  <2>2. \A i \in Slot : i < h + 1 <=> i < h \/ i = h
    BY <1>1, SlotFacts
  <2> QED  BY <1>4, <2>1, <2>2
<1> QED  BY <1>5, <1>11, <1>12, <1>14, <1>15, <1>16, <1>17, QuietStep

(* Pop keeps Orderly.                                                      *)
LEMMA PopInv ==
  ASSUME Orderly, Advance, NEW w \in Worker, Pop(w)
  PROVE  Orderly'
<1> DEFINE d == deque[w]
           n == Depth(w)
           y == With(w, Synced(w))
<1>1. CASE ~(~d.allStolenCopy /\ d.splitCopy # d.head)
  BY <1>1, PopCalm
<1>2. CASE ~d.allStolenCopy /\ d.splitCopy # d.head
  <2>1. /\ SInv /\ Syncs(w) /\ d.head <= kTaskArraySize /\ TakeOwn(w, d, y) /\ d \in Deque
        /\ UNCHANGED <<arrays, signals, sleepers, stopped, history>>
    BY <1>2, GoodParts DEF Orderly, Pop
  <2>2. PICK f \in Frames :
           /\ f = Synced(w) /\ f.pc = "body" /\ n > 0 /\ Top(w).pc = "body"
           /\ Top(w).base \in Nat /\ Top(w).base < d.head
    BY <2>1, SyncedFrame
  <2>3. /\ n \in Nat /\ stack[w] \in Seq(Frames) /\ Len(stack[w]) = n /\ Fits(d, Top(w))
        /\ d.head \in Nat /\ kTaskArraySize \in Nat
    BY <2>1, <2>2, GoodParts, StealingAssumption DEF Depth
  <2>4. /\ TopBody(Job, w, n) /\ Job[w][n].base = Top(w).base /\ Job[w][n + 1] = NoJob
    BY <2>1, <2>2, BodyOnTop DEF BodyPc
  <2>5. d.head - 1 \in Slot /\ Job[w][n].base <= d.head - 1
    BY <2>1, <2>2, <2>3, <2>4 DEF Slot
  <2>6. d.head - 1 \notin TakenNow[w]
    <3>1. Rested(d)
      BY <2>2, <2>3 DEF Fits, Moving
    <3>2. ~(d.head - 1 < d.tail)
      BY <1>2, <2>1, <2>3, <3>1, DequeTypes DEF Rested
    <3>3. Now(w) = Top(w)
      BY <2>2 DEF Now
    <3> QED  BY <1>2, <2>2, <3>2, <3>3 DEF TakenNow, TakenSlot
  <2>7. /\ y \in Seq(Frames) /\ Len(y) = n
        /\ \A l \in 1..n : y[l] = IF l = n THEN f ELSE stack[w][l]
    BY <2>2, <2>3 DEF With
  <2>8. \A l \in 1..n : /\ l < n => y[l] = stack[w][l]
                        /\ l >= n => y[l].pc = "body"
                        /\ JobOf(y[l]) = Job[w][l]
    <3> SUFFICES ASSUME NEW l \in 1..n
                 PROVE  /\ l < n => y[l] = stack[w][l]
                        /\ l >= n => y[l].pc = "body"
                        /\ JobOf(y[l]) = Job[w][l]
      OBVIOUS
    <3>1. Job[w][l] = JobOf(stack[w][l])
      BY <2>3, JobAt DEF Levels
    <3>2. CASE l = n
      <4>1. JobOf(f) = JobOf(Top(w))
        BY <2>1, <2>2, SyncedJob
      <4> QED  BY <2>2, <2>7, <3>1, <3>2, <4>1 DEF Top
    <3>3. CASE l # n
      BY <2>3, <2>7, <3>1, <3>3
    <3> QED  BY <3>2, <3>3
  <2>9. Top(w).pc \notin LoudPc \cup StopPc
    BY <2>2 DEF LoudPc, HolderPc, SleepPc, StopPc
  <2>10. PICK k \in Nat : k = n
    BY <2>3
  <2>11. PICK z \in Seq(Frames) : z = y
    BY <2>7
  <2>12. /\ Len(z) = k /\ k >= Depth(w) - 1 /\ k <= Depth(w) /\ TopBody(Job, w, k)
         /\ Job[w][k].base <= d.head - 1 /\ Job[w][k + 1] = NoJob /\ TakeOwn(w, d, z)
    BY <2>1, <2>3, <2>4, <2>5, <2>7, <2>10, <2>11
  <2>13. \A l \in 1..k : /\ l < Depth(w) => z[l] = stack[w][l]
                         /\ l >= Depth(w) => z[l].pc = "body"
                         /\ JobOf(z[l]) = Job[w][l]
    BY <2>8, <2>10, <2>11
  <2>14. d.head = deque[w].head /\ Depth(w) > 0
    BY <2>2
  <2> HIDE DEF y, n, d
  <2> QED  BY <2>1, <2>5, <2>6, <2>9, <2>12, <2>13, <2>14, TakeOwnInv
<1> QED  BY <1>1, <1>2

(* ShrinkShared keeps Orderly.                                             *)
LEMMA ShrinkSharedInv ==
  ASSUME Orderly, Advance, NEW w \in Worker, ShrinkShared(w)
  PROVE  Orderly'
<1> DEFINE e == deque[w]
           d == [e EXCEPT !.split = e.splitCopy]
           n == Depth(w)
           y == Below(w)
<1>1. CASE At(w, "shrinkShared") /\ e.tail > e.splitCopy
  BY <1>1, ShrinkCalm
<1>2. CASE ~(At(w, "shrinkShared") /\ e.tail > e.splitCopy)
  <2>1. SInv /\ e \in Deque /\ e.tail \in Nat /\ e.splitCopy \in Nat /\ e.head \in Nat
    BY GoodParts, DequeTypes DEF Orderly
  <2>2. PICK pc \in ShrinkPc : At(w, pc)
    BY DEF ShrinkShared, ShrinkPc
  <2>3. /\ n > 0 /\ Top(w).pc = pc /\ Fits(e, Top(w)) /\ FitsHead(w, Top(w), e.head) /\ n \in Nat
        /\ Top(w).ref \in Ref
    BY <2>1, <2>2, AtTop, GoodParts DEF RefPc
  <2>4. e.splitCopy < e.head
    BY <2>3 DEF Fits, ShrinkPc
  <2>5. TakeOwn(w, d, y) /\ UNCHANGED <<arrays, signals, sleepers, stopped, history>>
    <3>1. ~(At(w, "shrinkShared") /\ e.tail = e.head)
      BY <1>2, <2>1, <2>4
    <3> QED  BY <1>2, <3>1 DEF ShrinkShared
  <2>6. d \in Deque /\ d.head = e.head
    BY <2>1 DEF Deque
  <2>7. Top(w).ref[2] + 1 = e.head /\ Top(w).ref[2] \in Slot /\ Top(w).ref[2] = e.head - 1
    <3>1. Top(w).ref[2] + 1 = e.head
      BY <2>3 DEF FitsHead
    <3>2. Top(w).ref[2] \in Slot /\ Top(w).ref[2] \in Nat
      BY <2>3, RefTypes
    <3> QED  BY <3>1, <3>2
  <2>8. e.head - 1 \notin TakenNow[w]
    <3>1. ~e.allStolenCopy /\ e.tail <= e.splitCopy
      BY <1>2, <2>1, <2>2, <2>3 DEF Fits, ShrinkPc
    <3>2. ~(e.head - 1 < e.tail)
      BY <2>1, <2>4, <3>1
    <3>3. Now(w) = Top(w) /\ Top(w).pc # "correctTail"
      BY <2>3 DEF Now, ShrinkPc
    <3> QED  BY <3>1, <3>2, <3>3 DEF TakenNow, TakenSlot
  <2>9. /\ n > 1 /\ n - 1 \in Nat /\ TopBody(Job, w, n - 1) /\ Job[w][n] = NoJob
        /\ Job[w][n - 1].base <= Top(w).ref[2]
    BY <2>1, <2>3, BodyUnder
  <2>10. /\ y \in Seq(Frames) /\ \A l \in 1..Len(y) : y[l] = stack[w][l]
    BY <2>1, <2>3, BelowShrink
  <2>11. Len(y) = n - 1
    <3>1. stack[w] \in Seq(Frames) /\ Len(stack[w]) = n
      BY <2>1, GoodParts DEF Depth
    <3> QED  BY <2>3, <3>1, SubSeqProperties DEF Below, Levels
  <2>12. Top(w).pc \notin LoudPc \cup StopPc
    BY <2>3 DEF LoudPc, HolderPc, SleepPc, StopPc, ShrinkPc
  <2>13. PICK k \in Nat : k = n - 1
    BY <2>9
  <2>14. \A l \in 1..k : /\ l < Depth(w) => y[l] = stack[w][l]
                         /\ l >= Depth(w) => y[l].pc = "body"
                         /\ JobOf(y[l]) = Job[w][l]
    <3> SUFFICES ASSUME NEW l \in 1..k  PROVE y[l] = stack[w][l] /\ l < Depth(w) /\ JobOf(y[l]) = Job[w][l]
      BY <2>3, <2>13
    <3>1. l \in Levels(w) /\ l < Depth(w) /\ y[l] = stack[w][l]
      BY <2>3, <2>10, <2>11, <2>13 DEF Levels
    <3> QED  BY <3>1, JobAt DEF Levels
  <2>15. /\ Len(y) = k /\ k >= Depth(w) - 1 /\ k <= Depth(w) /\ TopBody(Job, w, k)
         /\ Job[w][k].base <= d.head - 1 /\ Job[w][k + 1] = NoJob
    <3>1. k + 1 = n
      BY <2>3, <2>13
    <3> QED  BY <2>3, <2>6, <2>7, <2>9, <2>11, <2>13, <3>1
  <2>16. d.head = deque[w].head /\ Depth(w) > 0 /\ d.head - 1 \in Slot /\ d.head - 1 \notin TakenNow[w]
    BY <2>3, <2>6, <2>7, <2>8
  <2> HIDE DEF y, n, d, e
  <2> QED  BY <2>5, <2>6, <2>10, <2>12, <2>14, <2>15, <2>16, TakeOwnInv
<1> QED  BY <1>1, <1>2

(* PopStolen keeps Orderly.                                                *)
LEMMA PopStolenInv ==
  ASSUME Orderly, Advance, NEW w \in Worker, PopStolen(w)
  PROVE  Orderly'
<1> DEFINE h == deque[w].head
           n == Depth(w)
           d == [deque[w] EXCEPT !.head = @ - 1]
<1>1. /\ SInv /\ WorkNow /\ WaitsNow /\ n > 0 /\ Top(w).pc = "popStolen" /\ deque[w] \in Deque /\ h \in Nat
      /\ FitsHead(w, Top(w), h) /\ Top(w).ref \in Ref /\ n \in Nat /\ Return(w) /\ GiveUpShare(w, d)
      /\ UNCHANGED <<arrays, signals, sleepers, stopped, history>>
  <2>1. At(w, "popStolen")
    BY DEF PopStolen
  <2>2. SInv /\ WorkNow /\ WaitsNow
    BY DEF Orderly
  <2> QED  BY <2>1, <2>2, AtTop, GoodParts DEF PopStolen, RefPc, WaitPc
<1>2. PICK i \in Slot : Top(w).ref = <<w, i>> /\ Top(w).ref[2] = i /\ h = i + 1 /\ i \in Nat
  BY <1>1, RefTypes DEF FitsHead, WaitPc
<1>3. /\ Heads[w] = i + 1 /\ Heads'[w] = i /\ \A v \in Worker \ {w} : Heads'[v] = Heads[v]
  <2>1. d \in Deque /\ d.head = i
    BY <1>1, <1>2 DEF Deque
  <2> HIDE DEF d
  <2>2. PICK g : deque' = [deque EXCEPT ![w] = g] /\ g.head = d.head
    BY <1>1, <2>1, GaveUp
  <2> QED  BY <1>1, <1>2, <2>1, <2>2, HeadsSet
<1>4. stealer[w][i] = "finished"
  <2>1. Ready(w, Top(w), stealer)
    BY <1>1, TopKnows
  <2> QED  BY <1>1, <1>2, <2>1 DEF Ready
<1>5. /\ n > 1 /\ n - 1 \in Nat /\ TopBody(Job, w, n - 1) /\ Under1(w).pc = "body"
      /\ Job[w][n - 1].base <= i
  BY <1>1, <1>2, BodyUnder DEF WaitPc
<1>6. /\ Job' = Job /\ Steps(w) /\ Top(w)' = Under1(w) /\ Depth(w)' = n - 1
  <2>1. JobOf(Top(w)) = NoJob
    BY <1>1, NoJobs DEF WorkPc, BodyPc
  <2> QED  BY <1>1, <1>5, <2>1, JobQuiet, JobReturn
<1>7. stealer' = stealer /\ slot' = slot /\ begun' = begun /\ done' = done
  BY <1>1 DEF arrays, history
<1>8. WorkNow'
  <2>1. PICK I : I = Heads'
    OBVIOUS
  <2>2. PICK k \in Nat : k = n - 1
    BY <1>5
  <2>3. TopBody(Job, w, k) /\ Drops(Job, Heads, stealer, w, k, i, I, Job)
    BY <1>3, <1>4, <1>5, <2>1, <2>2 DEF Drops
  <2>4. Work(Job, I, slot, stealer, begun, done)
    BY <1>1, <2>3, WorkDrop DEF WorkNow
  <2> QED  BY <1>6, <1>7, <2>1, <2>4 DEF WorkNow
<1>9. Local(w) /\ Waits(w, stack'[w], stealer')
  BY <1>1, <1>5, <1>7, ReturnWaits DEF Ready
<1>10. Hushed(w)
  BY <1>1, <1>5, <1>6, <1>9 DEF Hushed, Loud, Local, signals, LoudPc, HolderPc, SleepPc
<1>11. ~stopped /\ Top(w).pc \notin StopPc
  BY <1>1, <1>5, AfterStop DEF TopBody, StopPc
<1>12. \A v \in Worker, j \in Slot :
         /\ j < Heads[v] /\ stealer[v][j] = "unset" /\ j \in TakenNow[v] => j < Heads'[v]
         /\ j < Heads'[v] => j < Heads[v]
  <2>1. \A j \in Slot : j < i + 1 <=> j < i \/ j = i
    BY <1>2, SlotFacts
  <2> QED  BY <1>3, <1>4, <2>1
<1> QED  BY <1>7, <1>8, <1>9, <1>10, <1>11, <1>12, QuietStep

(* No call but the first of a thread is at the bottom.                     *)
LEMMA UnderTop ==
  ASSUME SInv, NEW w \in Worker, Depth(w) > 0, Top(w).pc \notin StopPc \cup ThreadPc
  PROVE  Depth(w) > 1 /\ Depth(w) - 1 \in Nat /\ Under1(w) \in Frames /\ MayCall(Under1(w), Top(w))
<1>1. Depth(w) \in Nat /\ Top(w) = stack[w][Depth(w)]
  BY GoodParts DEF Top
<1>2. Depth(w) > 1
  <2> SUFFICES ASSUME Depth(w) = 1  PROVE FALSE
    BY <1>1
  <2>1. AtBottom(w, stack[w][1])
    BY <1>1, GoodParts DEF Shape, Chain, Depth
  <2> QED  BY <1>1, <2>1 DEF AtBottom
<1> QED  BY <1>1, <1>2, Caller

(* A step of w changes no view of another thread.                          *)
LEMMA OthersSame ==
  ASSUME NEW w \in Worker, Steps(w), \A u \in Worker \ {w} : semaphore'[u] = semaphore[u]
  PROVE  SameViews(w, Held, Freed, Why, Naps, Awaits, Signalled,
                      Held', Freed', Why', Naps', Awaits', Signalled')
BY OtherViews DEF SameViews

(* The views of w in a call that is neither asleep nor at a release.       *)
LEMMA NoViews ==
  ASSUME NEW w \in Worker
  PROVE  /\ Depth(w) > 0 /\ Top(w).pc \notin LoudPc =>
              /\ Held[w] = None /\ Freed[w] = None /\ Why[w] = "none" /\ Naps[w] = "no"
              /\ Awaits[w] = None /\ Claim[w] = None /\ w \notin Injecting /\ ~Pending(w)
              /\ (Signalled[w] <=> semaphore[w] = 1)
         /\ Depth(w)' > 0 /\ Top(w)'.pc \notin LoudPc =>
              /\ Held'[w] = None /\ Freed'[w] = None /\ Why'[w] = "none" /\ Naps'[w] = "no"
              /\ Awaits'[w] = None /\ Claim'[w] = None /\ w \notin Injecting' /\ ~Pending(w)'
              /\ (Signalled'[w] <=> semaphore'[w] = 1)
<1>1. PcFact1(w) /\ PcFact1(w)'
  BY PcNow, PcNext DEF PcFacts
<1> QED  BY <1>1 DEF PcFact1, LoudPc, HolderPc, SleepPc

(* The mark of a thief, while it holds one.                                *)
LEMMA MarkTop ==
  ASSUME SInv, WorkNow, NEW w \in Worker, At(w, "markAsFinished")
  PROVE  \E v \in Worker, i \in Slot :
           /\ Top(w).ref = <<v, i>> /\ v # w /\ i < Heads[v] /\ stealer[v][i] \in {w, v}
           /\ IsMark(Job, w, Depth(w)) /\ Job[w][Depth(w)].of = v /\ Job[w][Depth(w)].at = i
           /\ ~IsBody(Job, w, Depth(w) + 1) /\ Depth(w) \in Nat /\ Depth(w) > 1
           /\ Metadata(Top(w).ref) = stealer[v][i]
           /\ Under1(w).pc \in {"leapt", "yield", "random_steal_loop"}
<1>1. /\ Depth(w) > 0 /\ Top(w).pc = "markAsFinished" /\ Top(w).ref \in Ref /\ Depth(w) \in Nat
      /\ Depth(w) \in Levels(w) /\ Top(w) = stack[w][Depth(w)]
  BY AtTop, GoodParts DEF RefPc, TakenPc, Top
<1>2. PICK v \in Worker, i \in Slot : Top(w).ref = <<v, i>>
  BY <1>1 DEF Ref
<1>3. IsMark(Job, w, Depth(w)) /\ Job[w][Depth(w)].of = v /\ Job[w][Depth(w)].at = i
  BY <1>1, <1>2, JobNow, JobKinds
<1>4. MarkOK(Job, Heads, slot, stealer, done, w, Depth(w))
  BY <1>1, <1>3 DEF WorkNow, Work
<1>5. ~IsBody(Job, w, Depth(w) + 1)
  <2>1. Depth(w) + 1 \in Nat /\ Depth(w) + 1 \notin Levels(w)
    BY <1>1 DEF Levels
  <2> QED  BY <2>1, JobNow
<1>6. Depth(w) > 1 /\ MayCall(Under1(w), Top(w))
  BY <1>1, UnderTop DEF StopPc, ThreadPc
<1>7. Under1(w).pc \in {"leapt", "yield", "random_steal_loop"}
  BY <1>1, <1>6 DEF MayCall, BodyPc, WaitPc, ShrinkPc, PushPc, GrowPc, PublishPc, ReleasePc, TakenPc, SleepPc
<1> QED  BY <1>1, <1>2, <1>3, <1>4, <1>5, <1>6, <1>7 DEF MarkOK, Metadata

(* A mark that wakes nobody keeps Orderly.                                 *)
LEMMA MarkSilent ==
  ASSUME Orderly, Advance, NEW w \in Worker, MarkAsFinished(w), Metadata(Top(w).ref) = w
  PROVE  Orderly'
<1> DEFINE n == Depth(w)
<1>1. SInv /\ WorkNow /\ WaitsNow /\ At(w, "markAsFinished") /\ n > 0 /\ Top(w).pc = "markAsFinished"
  <2>1. At(w, "markAsFinished")
    BY DEF MarkAsFinished
  <2> QED  BY <2>1, AtTop DEF Orderly
<1>2. PICK v \in Worker, i \in Slot :
        /\ Top(w).ref = <<v, i>> /\ v # w /\ i < Heads[v] /\ stealer[v][i] \in {w, v}
        /\ IsMark(Job, w, n) /\ Job[w][n].of = v /\ Job[w][n].at = i
        /\ ~IsBody(Job, w, n + 1) /\ n \in Nat /\ n > 1 /\ Metadata(Top(w).ref) = stealer[v][i]
        /\ Under1(w).pc \in {"leapt", "yield", "random_steal_loop"}
  BY <1>1, MarkTop
<1>3. /\ stealer' = [stealer EXCEPT ![v][i] = "finished"] /\ Return(w) /\ stealer[v][i] = w
      /\ UNCHANGED <<deque, slot, signals, bunk, stopped, history>>
  BY <1>2 DEF MarkAsFinished
<1>4. stealer'[v][i] = "finished" /\ SameSlots(stealer, stealer', v, i)
  BY <1>1, <1>3, MetaSet
<1>5. Heads' = Heads /\ slot' = slot /\ begun' = begun /\ done' = done
  BY <1>3 DEF Heads, history
<1>6. /\ SameBut(Job, Job', w, n) /\ Job'[w][n].kind = "none" /\ Steps(w) /\ Top(w)' = Under1(w)
      /\ Depth(w)' = n - 1
  <2>1. NoJob.kind = "none"
    BY DEF NoJob
  <2> QED  BY <1>1, <1>2, <1>3, <2>1, JobReturn
<1>7. WorkNow'
  <2>1. PICK K : K = Job'
    OBVIOUS
  <2>2. PICK P : P = stealer'
    OBVIOUS
  <2>3. Finishes(Job, stealer, w, n, v, i, K, P)
    BY <1>2, <1>4, <1>6, <2>1, <2>2 DEF Finishes
  <2>4. Work(K, Heads, slot, P, begun, done)
    BY <1>1, <1>2, <2>3, WorkMark DEF WorkNow
  <2> QED  BY <1>5, <2>1, <2>2, <2>4 DEF WorkNow
<1>8. \A u \in Worker, j \in Slot :
        \/ stealer'[u][j] = stealer[u][j]
        \/ stealer[u][j] \in Worker /\ stealer[u][j] # u /\ stealer'[u][j] = "finished"
  BY <1>2, <1>3, <1>4 DEF SameSlots
<1>9. Local(w) /\ Waits(w, stack'[w], stealer')
  <2>1. \A j \in Slot : stealer'[w][j] = stealer[w][j]
    BY <1>2, <1>4 DEF SameSlots
  <2>2. Ready(w, Under1(w), stealer')
    BY <1>2 DEF Ready
  <2> QED  BY <1>1, <1>3, <2>1, <2>2, ReturnWaits
<1>10. Hushed(w)
  BY <1>1, <1>2, <1>3, <1>6, <1>9 DEF Hushed, Loud, Local, signals, bunk, LoudPc, HolderPc, SleepPc
<1>11. ~stopped /\ Top(w).pc \notin StopPc
  BY <1>1, <1>2, AfterStop DEF StopPc
<1> QED  BY <1>5, <1>7, <1>8, <1>9, <1>10, <1>11, QuietStep

(* Claims where nobody gains one.                                          *)
LEMMA ClaimsQuiet ==
  ASSUME Orderly, Advance, NEW w \in Worker, Steps(w), UNCHANGED <<sleepers, injected, stopped>>,
         Held'[w] = Held[w], Claim'[w] \in {None, Claim[w]}, Pending(w)' => Pending(w),
         Claim'[w] # None /\ w \in Injecting => w \in Injecting',
         \A v \in Worker, i \in Slot :
            i < Heads[v] /\ stealer[v][i] = "unset" /\ (\E u \in Worker : Claim'[u] = <<v, i>>)
              => i < Heads'[v] /\ stealer'[v][i] = "unset"
  PROVE  ClaimsNow'
<1>1. \A u \in Worker \ {w} : /\ Claim'[u] = Claim[u] /\ (Pending(u)' <=> Pending(u))
                              /\ (u \in Injecting => u \in Injecting')
  BY OtherClaims
<1>2. Claims(Claim, Injecting, Heads, stealer, TakenNow) /\ PendOK
  BY DEF Orderly, ClaimsNow
<1>3. \A v \in Worker, i \in Slot : i < Heads[v] /\ i \in TakenNow[v] => i \in TakenNow'[v]
  BY TakenStays
<1>4. \A v \in Worker : Claim'[v] # None => Claim'[v] = Claim[v] /\ (v \in Injecting => v \in Injecting')
  BY <1>1
<1>5. Claims(Claim', Injecting', Heads', stealer', TakenNow')
  <2> DEFINE E == Claim'
             Y == Injecting'
             I == Heads'
             P == stealer'
             U == TakenNow'
  <2>1. \A v \in Worker, i \in Slot :
          i < Heads[v] /\ stealer[v][i] = "unset" /\ i \in TakenNow[v] /\ (\E u \in Worker : E[u] = <<v, i>>)
            => i < I[v] /\ P[v][i] = "unset"
    OBVIOUS
  <2>0. Claims(Claim, Injecting, Heads, stealer, TakenNow)
    BY <1>2
  <2>2. \A v \in Worker : E[v] # None => E[v] = Claim[v] /\ (v \in Injecting => v \in Y)
    BY <1>4
  <2>3. \A v \in Worker, i \in Slot : i < Heads[v] /\ i \in TakenNow[v] => i \in U[v]
    BY <1>3
  <2> HIDE DEF E, Y, I, P, U
  <2>4. Claims(E, Y, I, P, U)
    BY <2>0, <2>1, <2>2, <2>3, ClaimsKeep, SMTT(40)
  <2> QED  BY <2>4 DEF E, Y, I, P, U
<1>6. PendOK'
  BY <1>1, <1>2 DEF PendOK
<1> QED  BY <1>5, <1>6 DEF ClaimsNow

(* A mark whose owner sleeps for it keeps Orderly.                         *)
LEMMA MarkLoud ==
  ASSUME Orderly, Advance, NEW w \in Worker, MarkAsFinished(w), Metadata(Top(w).ref) # w
  PROVE  Orderly'
<1> DEFINE n == Depth(w)
<1>1. SInv /\ WorkNow /\ WaitsNow /\ At(w, "markAsFinished") /\ n > 0 /\ Top(w).pc = "markAsFinished"
  <2>1. At(w, "markAsFinished")
    BY DEF MarkAsFinished
  <2> QED  BY <2>1, AtTop DEF Orderly
<1>2. PICK v \in Worker, i \in Slot :
        /\ Top(w).ref = <<v, i>> /\ v # w /\ i < Heads[v] /\ stealer[v][i] \in {w, v}
        /\ IsMark(Job, w, n) /\ Job[w][n].of = v /\ Job[w][n].at = i
        /\ ~IsBody(Job, w, n + 1) /\ n \in Nat /\ n > 1 /\ Metadata(Top(w).ref) = stealer[v][i]
        /\ Under1(w).pc \in {"leapt", "yield", "random_steal_loop"}
  BY <1>1, MarkTop
<1> DEFINE f == Release(v)
<1>3. /\ stealer' = [stealer EXCEPT ![v][i] = "finished"] /\ Become(w, f) /\ stealer[v][i] = v
      /\ UNCHANGED <<deque, slot, signals, bunk, stopped, history>>
  BY <1>2 DEF MarkAsFinished
<1>4. stealer'[v][i] = "finished" /\ SameSlots(stealer, stealer', v, i)
  BY <1>1, <1>3, MetaSet
<1>5. Heads' = Heads /\ slot' = slot /\ begun' = begun /\ done' = done
  BY <1>3 DEF Heads, history
<1>6. f \in Frames /\ f.pc = "release" /\ f.other = v
  BY NewFrames
<1> HIDE DEF f
<1>7. /\ SameBut(Job, Job', w, n) /\ Job'[w][n].kind = "none" /\ Steps(w) /\ Top(w)' = f
      /\ Depth(w)' = n /\ \A l \in 1..(n - 1) : stack'[w][l] = stack[w][l]
  <2>1. NoJob.kind = "none" /\ JobOf(f) = NoJob
    BY <1>6, NoJobs DEF NoJob, WorkPc, BodyPc
  <2> QED  BY <1>1, <1>3, <1>6, <2>1, JobBecome
<1>8. WorkNow'
  <2>1. PICK K : K = Job'
    OBVIOUS
  <2>2. PICK P : P = stealer'
    OBVIOUS
  <2>3. Finishes(Job, stealer, w, n, v, i, K, P)
    BY <1>2, <1>4, <1>7, <2>1, <2>2 DEF Finishes
  <2>4. Work(K, Heads, slot, P, begun, done)
    BY <1>1, <1>2, <2>3, WorkMark DEF WorkNow
  <2> QED  BY <1>5, <2>1, <2>2, <2>4 DEF WorkNow
<1>9. Local(w) /\ Waits(w, stack'[w], stealer')
  <2>1. \A j \in Slot : stealer'[w][j] = stealer[w][j]
    BY <1>2, <1>4 DEF SameSlots
  <2>2. Ready(w, f, stealer') /\ Knows(w, f, stealer')
    BY <1>6 DEF Ready, Knows, WaitPc, HuntsPc
  <2> QED  BY <1>1, <1>3, <1>6, <2>1, <2>2, BecomeWaits
<1>10. ~stopped /\ Top(w).pc \notin StopPc /\ ~stopped'
  BY <1>1, <1>2, <1>3, AfterStop DEF StopPc
<1>11. /\ Held[w] = None /\ Freed[w] = None /\ Why[w] = "none" /\ Naps[w] = "no"
       /\ Awaits[w] = None /\ Claim[w] = None /\ w \notin Injecting /\ ~Pending(w)
       /\ (Signalled[w] <=> semaphore[w] = 1)
  BY <1>1, NoViews DEF LoudPc, HolderPc, SleepPc
<1>12. PcFact1(w)'
  BY PcNext DEF PcFacts
<1>13. /\ Held'[w] = None /\ Freed'[w] = v /\ Naps'[w] = "no" /\ Awaits'[w] = None
       /\ Claim'[w] = None /\ ~Pending(w)' /\ (Signalled'[w] <=> semaphore'[w] = 1)
  BY <1>1, <1>6, <1>7, <1>12 DEF PcFact1, HolderPc, SleepPc
<1>14. Why'[w] = "end"
  <2>1. Under1(w)' = Under1(w)
    BY <1>2, <1>7 DEF Under1
  <2>2. At(w, "release")'
    BY <1>1, <1>6, <1>7 DEF At
  <2> QED  BY <1>2, <2>1, <2>2 DEF Why
<1>15. UNCHANGED <<sleepers, injected, stopped, semaphore>>
  BY <1>3 DEF signals, bunk
<1>16. Tokens(sleepers', Held', Freed', Why', Naps', Awaits', Signalled', stealer')
  <2>1. SameViews(w, Held, Freed, Why, Naps, Awaits, Signalled,
                     Held', Freed', Why', Naps', Awaits', Signalled')
    BY <1>7, <1>15, OthersSame
  <2>2. Tokens(sleepers, Held, Freed, Why, Naps, Awaits, Signalled, stealer)
    BY <1>10 DEF Orderly, TokensNow
  <2>3. sleepers \in Seq(Worker)
    BY <1>1 DEF SInv, TypeOK
  <2>5. stealer[v][i] = v /\ (Signalled'[w] <=> Signalled[w])
    BY <1>3, <1>11, <1>13, <1>15
  <2>6. /\ Held[w] = None /\ Held'[w] = None /\ Freed'[w] = v /\ Why'[w] = "end"
        /\ Naps'[w] = Naps[w] /\ Awaits'[w] = Awaits[w]
    BY <1>11, <1>13, <1>14
  <2>4. Tokens(sleepers, Held', Freed', Why', Naps', Awaits', Signalled', stealer')
    BY <1>4, <2>1, <2>2, <2>3, <2>5, <2>6, TokensEnd
  <2> QED  BY <1>15, <2>4
<1>17. \A u \in Worker, j \in Slot :
          stealer'[u][j] = stealer[u][j] \/ (stealer[u][j] \in Worker /\ stealer'[u][j] = "finished")
  BY <1>3, <1>4 DEF SameSlots
<1>18. "unset" \notin Worker /\ "finished" \notin Worker
  BY StealingAssumption
<1>19. ClaimsNow'
  BY <1>5, <1>7, <1>11, <1>13, <1>15, <1>17, <1>18, ClaimsQuiet
<1>20. UntakenNow'
  BY <1>5, <1>17, <1>18, UntakenNext DEF Orderly
<1>21. \A u \in Worker \ {w}, j \in Slot :
         stealer'[u][j] = stealer[u][j] \/ (stealer[u][j] # "finished" /\ stealer'[u][j] # "unset")
  BY <1>17, <1>18
<1> QED  BY <1>8, <1>9, <1>10, <1>16, <1>19, <1>20, <1>21, LoudStep

(* MarkAsFinished keeps Orderly.                                           *)
LEMMA MarkAsFinishedInv ==
  ASSUME Orderly, Advance, NEW w \in Worker, MarkAsFinished(w)
  PROVE  Orderly'
BY MarkSilent, MarkLoud

(* A claim is not None.                                                    *)
LEMMA ClaimIsSome ==
  ASSUME NEW r \in Ref
  PROVE  r # None
BY StealingAssumption DEF Ref, Slot

(* The task a thief is about to run is claimed by it alone.                *)
LEMMA StolenTop ==
  ASSUME Orderly, NEW w \in Worker, At(w, "runStolenTask")
  PROVE  \E v \in Worker, i \in Slot :
           /\ Top(w).ref = <<v, i>> /\ v # w /\ i < Heads[v] /\ stealer[v][i] = "unset"
           /\ Metadata(Top(w).ref) = "unset"
           /\ \A u \in Worker : Claim[u] = <<v, i>> => u = w
           /\ ~stopped /\ slot[v][i] \in Task
<1>1. /\ SInv /\ Depth(w) > 0 /\ Top(w).pc = "runStolenTask" /\ Top(w).ref \in Ref
      /\ slot[Top(w).ref[1]][Top(w).ref[2]] \in Task
  BY AtTop DEF RefPc, TakenPc, Orderly, FrameOK, FullRef
<1>2. PICK v \in Worker, i \in Slot : Top(w).ref = <<v, i>>
  BY <1>1 DEF Ref
<1>3. PcFact1(w)
  BY PcNow DEF PcFacts
<1>4. Claim[w] = <<v, i>> /\ w \notin Injecting
  BY <1>1, <1>2, <1>3 DEF PcFact1
<1>5. <<v, i>> # None
  BY <1>1, <1>2, ClaimIsSome
<1>6. Claims(Claim, Injecting, Heads, stealer, TakenNow)
  BY DEF Orderly, ClaimsNow
<1>7. i < Heads[v] /\ stealer[v][i] = "unset" /\ v # w /\ \A u \in Worker : Claim[u] = <<v, i>> => u = w
  <2>1. PICK r : r = Claim[w]
    OBVIOUS
  <2>2. /\ r[2] < Heads[r[1]] /\ stealer[r[1]][r[2]] = "unset"
        /\ (\A u \in Worker : Claim[u] = r => u = w) /\ (r[1] # w \/ w \in Injecting)
    BY <1>4, <1>5, <1>6, <2>1 DEF Claims
  <2>3. r = <<v, i>> /\ r[1] = v /\ r[2] = i
    BY <1>4, <2>1
  <2> QED  BY <1>4, <2>2, <2>3
<1>8. ~stopped
  BY <1>4, <1>5, AfterStop
<1> QED  BY <1>1, <1>2, <1>7, <1>8 DEF Metadata

(* A thief begins the task of its claim.                                   *)
LEMMA RunStolenWork ==
  ASSUME Orderly, NEW w \in Worker, At(w, "runStolenTask"), NEW v \in Worker, NEW i \in Slot,
         v # w, i < Heads[v], stealer[v][i] = "unset",
         NEW t \in Task, t = slot[v][i], NEW E, Begin(t), E = begun',
         NEW P, P[v][i] = w, SameSlots(stealer, P, v, i),
         NEW n \in Nat, n = Depth(w), NEW K,
         \A u \in Worker, l \in Nat : ~(u = w /\ l \in {n, n + 1}) => K[u][l] = Job[u][l],
         IsMark(K, w, n), K[w][n].of = v, K[w][n].at = i,
         K[w][n + 1] = [kind |-> "body", task |-> t, todo |-> Spawned(t), base |-> Heads[w]]
  PROVE  /\ Work(K, Heads, slot, P, E, done)
         /\ begun[t] = 0 /\ \E p \in Task : begun[p] = 1 /\ t \in Spawned(p)
<1>1. Work(Job, Heads, slot, stealer, begun, done) /\ SInv
  BY DEF Orderly, WorkNow
<1>2. /\ \A u \in Worker, m \in Nat : IsBody(Job, u, m) => t \notin Job[u][m].todo
      /\ \A u \in Worker, m \in Nat : IsOwn(Job, u, m + 1) => slot[u][Job[u][m + 1].at] # t
      /\ \E p \in Task : begun[p] = 1 /\ t \in Spawned(p)
  BY <1>1, LiveOnly
<1>3. PICK p \in Task : begun[p] = 1 /\ t \in Spawned(p)
  BY <1>2
<1>4. begun[t] = 0
  <2>1. SlotOK(Job, Heads, slot, stealer, begun, done, v, i)
    BY <1>1 DEF Work
  <2> QED  BY <2>1 DEF SlotOK
<1>5. E \in [Task -> Nat] /\ E[t] = 1 /\ \A u \in Task \ {t} : E[u] = begun[u]
  <2>1. begun \in [Task -> Nat]
    BY <1>1 DEF SInv, TypeOK
  <2> QED  BY <1>4, <2>1 DEF Begin
<1>6. n > 0 /\ Top(w).pc = "runStolenTask" /\ n \in Levels(w) /\ Top(w) = stack[w][n]
  BY <1>1, AtTop DEF Levels, Top
<1>7. /\ Job[w][n].kind = "none" /\ ~IsBody(Job, w, n + 1) /\ ~IsMark(Job, w, n + 1)
      /\ ~IsOwn(Job, w, n + 1) /\ ~IsOwn(Job, w, n + 2)
  <2>1. n + 1 \in Nat /\ n + 1 \notin Levels(w) /\ n + 2 \in Nat /\ n + 2 \notin Levels(w)
    BY DEF Levels
  <2>2. JobOf(Top(w)) = NoJob
    BY <1>6, NoJobs DEF WorkPc, BodyPc
  <2>3. Job[w][n] = NoJob
    BY <1>6, <2>2, JobNow
  <2> QED  BY <2>1, <2>3, JobNow DEF NoJob
<1>8. IsBody(K, w, n + 1) /\ K[w][n + 1].task = t /\ K[w][n + 1].todo = Spawned(t)
      /\ K[w][n + 1].base = Heads[w]
  BY DEF IsBody
<1>9. ThiefBegins(Job, Heads, slot, stealer, w, n, t, K, P)
  BY <1>6, <1>7 DEF ThiefBegins
<1>10. Begins(Job, Heads, slot, stealer, begun, w, n, t, p, K, P, E)
  BY <1>2, <1>3, <1>4, <1>5, <1>7, <1>8, <1>9 DEF Begins
<1>11. Work(K, Heads, slot, P, E, done)
  BY <1>1, <1>10, WorkBegin
<1> QED  BY <1>3, <1>4, <1>11

(* RunStolenTask keeps Orderly.                                            *)
LEMMA RunStolenTaskInv ==
  ASSUME Orderly, Advance, NEW w \in Worker, RunStolenTask(w)
  PROVE  Orderly'
<1> DEFINE n == Depth(w)
           b == [Top(w) EXCEPT !.pc = "markAsFinished"]
<1>1. SInv /\ WaitsNow /\ At(w, "runStolenTask") /\ n > 0 /\ Top(w).pc = "runStolenTask" /\ Top(w) \in Frames
      /\ n \in Nat /\ deque[w].head \in Nat
  <2>1. At(w, "runStolenTask")
    BY DEF RunStolenTask
  <2> QED  BY <2>1, AtTop, GoodParts DEF Orderly
<1>2. PICK v \in Worker, i \in Slot :
           /\ Top(w).ref = <<v, i>> /\ v # w /\ i < Heads[v] /\ stealer[v][i] = "unset"
           /\ Metadata(Top(w).ref) = "unset"
           /\ \A u \in Worker : Claim[u] = <<v, i>> => u = w
           /\ ~stopped /\ slot[v][i] \in Task
  BY <1>1, StolenTop
<1>3. PICK t \in Task : t = slot[v][i]
  BY <1>2
<1> DEFINE f == Body(t, deque[w].head)
<1>4. /\ stealer' = [stealer EXCEPT ![v][i] = w] /\ Begin(t) /\ Call(w, f, b)
      /\ UNCHANGED <<deque, slot, signals, bunk, stopped, done>>
  BY <1>2, <1>3 DEF RunStolenTask, CallThen
<1>5. stealer'[v][i] = w /\ SameSlots(stealer, stealer', v, i)
  BY <1>1, <1>4, MetaSet
<1>6. f \in Frames /\ JobOf(f) = [kind |-> "body", task |-> t, todo |-> Spawned(t), base |-> Heads[w]]
      /\ (\A u, M : Knows(u, f, M) /\ Ready(u, f, M)) /\ f.pc \notin LoudPc
  BY <1>1, NewFrames, NewBody DEF Heads
<1>7. b \in Frames /\ b.pc = "markAsFinished" /\ b.ref = <<v, i>>
  BY <1>1, <1>2, JumpFrame DEF Pc, TakenPc
<1> HIDE DEF f, b
<1>8. JobOf(b).kind = "mark" /\ JobOf(b).of = v /\ JobOf(b).at = i /\ \A u, M : Knows(u, b, M)
  BY <1>7, JobKinds, NoJobs DEF WaitPc
<1>9. /\ Steps(w) /\ Depth(w)' = n + 1 /\ Top(w)' = f
      /\ \A u \in Worker, l \in Nat : ~(u = w /\ l \in {n, n + 1}) => Job'[u][l] = Job[u][l]
      /\ Job'[w][n] = JobOf(b) /\ Job'[w][n + 1] = JobOf(f)
  BY <1>1, <1>4, <1>6, <1>7, JobCall
<1>10. Heads' = Heads /\ slot' = slot /\ done' = done
       /\ UNCHANGED <<sleepers, injected, stopped, semaphore>>
  BY <1>4 DEF Heads, signals, bunk
<1>11. WorkNow'
  <2>1. PICK K : K = Job'
    OBVIOUS
  <2>2. PICK P : P = stealer'
    OBVIOUS
  <2>3. PICK E : E = begun'
    OBVIOUS
  <2>4. PICK k \in Nat : k = n
    BY <1>1
  <2>5. /\ \A u \in Worker, l \in Nat : ~(u = w /\ l \in {k, k + 1}) => K[u][l] = Job[u][l]
        /\ IsMark(K, w, k) /\ K[w][k].of = v /\ K[w][k].at = i
        /\ K[w][k + 1] = [kind |-> "body", task |-> t, todo |-> Spawned(t), base |-> Heads[w]]
    BY <1>6, <1>8, <1>9, <2>1, <2>4 DEF IsMark
  <2>6. P[v][i] = w /\ SameSlots(stealer, P, v, i)
    BY <1>5, <2>2
  <2>7. Work(K, Heads, slot, P, E, done)
    BY <1>1, <1>2, <1>3, <1>4, <2>3, <2>4, <2>5, <2>6, RunStolenWork
  <2> QED  BY <1>10, <2>1, <2>2, <2>3, <2>7 DEF WorkNow
<1>12. \A u \in Worker, j \in Slot :
          stealer'[u][j] = stealer[u][j] \/ (u = v /\ j = i)
  BY <1>5 DEF SameSlots
<1>13. Local(w) /\ Waits(w, stack'[w], stealer')
  <2>1. \A j \in Slot : stealer'[w][j] = stealer[w][j]
    BY <1>2, <1>12
  <2> QED  BY <1>1, <1>4, <1>6, <1>7, <1>8, <2>1, CallWaits
<1>14. PcFact1(w)
  BY PcNow DEF PcFacts
<1>15. /\ Held[w] = None /\ Freed[w] = None /\ Why[w] = "none" /\ Naps[w] = "no"
       /\ Awaits[w] = None /\ w \notin Injecting /\ (Signalled[w] <=> semaphore[w] = 1)
  BY <1>1, <1>14 DEF PcFact1, HolderPc, SleepPc
<1>16. /\ Held'[w] = None /\ Freed'[w] = None /\ Why'[w] = "none" /\ Naps'[w] = "no"
       /\ Awaits'[w] = None /\ Claim'[w] = None /\ ~Pending(w)'
       /\ (Signalled'[w] <=> semaphore'[w] = 1)
  BY <1>1, <1>6, <1>9, NoViews
<1>17. "unset" \notin Worker /\ "finished" \notin Worker
  BY StealingAssumption
<1>18. Tokens(sleepers', Held', Freed', Why', Naps', Awaits', Signalled', stealer')
  <2>1. SameViews(w, Held, Freed, Why, Naps, Awaits, Signalled,
                     Held', Freed', Why', Naps', Awaits', Signalled')
    BY <1>9, <1>10, OthersSame
  <2>2. Tokens(sleepers, Held, Freed, Why, Naps, Awaits, Signalled, stealer)
    BY <1>2 DEF Orderly, TokensNow
  <2>3. sleepers \in Seq(Worker)
    BY <1>1 DEF SInv, TypeOK
  <2>4. \A u \in Worker :
           /\ Held'[u] = Held[u] /\ Freed'[u] = Freed[u] /\ Why'[u] = Why[u] /\ Naps'[u] = Naps[u]
           /\ Awaits'[u] = Awaits[u] /\ (Signalled'[u] <=> Signalled[u])
    BY <1>10, <1>15, <1>16, <2>1 DEF SameViews
  <2>5. \A u \in Worker, j \in Slot :
          stealer'[u][j] = stealer[u][j] \/ (stealer'[u][j] # u /\ stealer[u][j] \notin {u, "finished"})
    BY <1>2, <1>5, <1>12, <1>17
  <2>6. Tokens(sleepers, Held', Freed', Why', Naps', Awaits', Signalled', stealer')
    BY <2>2, <2>3, <2>4, <2>5, TokensKeep
  <2> QED  BY <1>10, <2>6
<1>19. ClaimsNow'
  <2>1. \A u \in Worker, j \in Slot : (\E z \in Worker : Claim'[z] = <<u, j>>) => ~(u = v /\ j = i)
    <3>1. SUFFICES ASSUME NEW z \in Worker, Claim'[z] = <<v, i>>  PROVE FALSE
      OBVIOUS
    <3>2. \A u \in Worker \ {w} : Claim'[u] = Claim[u]
      BY <1>9, <1>10, <1>15, <1>16, OtherClaims
    <3>3. <<v, i>> # None
      BY ClaimIsSome DEF Ref
    <3> QED  BY <1>2, <1>16, <3>1, <3>2, <3>3
  <2>2. \A u \in Worker, j \in Slot :
            j < Heads[u] /\ stealer[u][j] = "unset" /\ (\E z \in Worker : Claim'[z] = <<u, j>>)
              => j < Heads'[u] /\ stealer'[u][j] = "unset"
    BY <1>10, <1>12, <2>1
  <2>3. Held'[w] = Held[w]
    BY <1>15, <1>16
  <2> QED  BY <1>9, <1>10, <1>16, <2>2, <2>3, ClaimsQuiet
<1>20. UntakenNow'
  <2>1. i \in TakenNow[v]
    <3>1. Claims(Claim, Injecting, Heads, stealer, TakenNow)
      BY DEF Orderly, ClaimsNow
    <3>2. Claim[w] = <<v, i>>
      BY <1>1, <1>2, <1>14 DEF PcFact1
    <3>3. <<v, i>> # None
      BY ClaimIsSome DEF Ref
    <3>4. Claim[w] # None /\ Claim[w][1] = v /\ Claim[w][2] = i
      BY <3>2, <3>3
    <3>5. Claim[w][2] \in TakenNow[Claim[w][1]]
      BY <3>1, <3>4 DEF Claims
    <3> QED  BY <3>4, <3>5
  <2> QED  BY <1>2, <1>10, <1>12, <2>1, UntakenNext DEF Orderly
<1>21. \A u \in Worker \ {w}, j \in Slot :
         stealer'[u][j] = stealer[u][j] \/ (stealer[u][j] # "finished" /\ stealer'[u][j] # "unset")
  BY <1>2, <1>5, <1>12, <1>17
<1>22. Top(w).pc \notin StopPc /\ ~stopped'
  BY <1>1, <1>2, <1>10 DEF StopPc
<1> QED  BY <1>2, <1>11, <1>13, <1>18, <1>19, <1>20, <1>21, <1>22, LoudStep

(* The views of a worker that sleeps.                                      *)
NapFact1(w) ==
  /\ Why[w] # "no"
  /\ Depth(w) > 1 /\ Top(w).pc \in SleepPc =>
       /\ Under1(w).pc = "woken" => Naps[w] = "task" /\ Awaits[w] = None
       /\ Under1(w).pc # "woken" => Naps[w] = "end" /\ Awaits[w] = Under1(w).ref /\ ~Pending(w)
NapFacts == \A w \in Worker : NapFact1(w)

(* Why a thread sleeps, from the call under the sleep.                     *)
LEMMA NapNow == NapFacts
BY DEF NapFacts, NapFact1, Why, Naps, Awaits, Pending, At, SleepPc

(* The same after the step.                                                *)
LEMMA NapNext == NapFacts'
BY NapNow, PTL

(* A waiter that leaves its name and goes to sleep keeps Orderly.          *)
LEMMA AskInv ==
  ASSUME Orderly, Advance, NEW w \in Worker, WaitForTaskToFinish(w), ~Finished(Top(w).ref)
  PROVE  Orderly'
<1> DEFINE n == Depth(w)
           f == Frame("acquireSlow")
           b == [Top(w) EXCEPT !.pc = "popStolen"]
<1>1. /\ SInv /\ WaitsNow /\ At(w, "waitForTaskToFinish") /\ n > 0 /\ Top(w).pc = "waitForTaskToFinish"
      /\ Top(w) \in Frames /\ n \in Nat /\ FitsHead(w, Top(w), deque[w].head) /\ Top(w).ref \in Ref
      /\ Top(w).ref[1] = w /\ Top(w).ref[2] + 1 = deque[w].head
  <2>1. At(w, "waitForTaskToFinish")
    BY DEF WaitForTaskToFinish
  <2> QED  BY <2>1, AtTop, GoodParts DEF Orderly, FitsHead, RefPc, WaitPc
<1>2. PICK i \in Slot : Top(w).ref = <<w, i>> /\ i < Heads[w]
  <2>1. Top(w).ref[2] \in Slot /\ Top(w).ref[2] \in Nat /\ Top(w).ref = <<w, Top(w).ref[2]>>
    BY <1>1, RefTypes
  <2> QED  BY <1>1, <2>1 DEF Heads
<1>3. stealer[w][i] \in Worker
  <2>1. Knows(w, Top(w), stealer)
    BY <1>1, TopKnows
  <2>2. stealer[w][i] # "unset"
    BY <1>1, <1>2, <2>1 DEF Knows, WaitPc
  <2>3. stealer[w][i] # "finished"
    BY <1>2 DEF Finished, Metadata
  <2>4. stealer[w][i] \in Worker \cup {"unset", "finished"}
    BY <1>1 DEF SInv, TypeOK
  <2> QED  BY <2>2, <2>3, <2>4
<1>4. /\ stealer' = [stealer EXCEPT ![w][i] = w] /\ Call(w, f, b)
      /\ UNCHANGED <<deque, slot, signals, bunk, stopped, history>>
  BY <1>2 DEF WaitForTaskToFinish, CallThen
<1>5. stealer'[w][i] = w /\ SameSlots(stealer, stealer', w, i)
  BY <1>1, <1>4, MetaSet
<1>6. /\ f \in Frames /\ f.pc = "acquireSlow" /\ b \in Frames /\ b.pc = "popStolen"
      /\ b.ref = <<w, i>>
  BY <1>1, <1>2, NewFrames, JumpFrame DEF Pc, SleepPc, WaitPc
<1> HIDE DEF f, b
<1>7. "unset" \notin Worker /\ "finished" \notin Worker /\ None \notin Worker
  BY StealingAssumption
<1>8. /\ JobOf(f) = NoJob /\ JobOf(b) = NoJob /\ JobOf(Top(w)) = NoJob
      /\ Knows(w, f, stealer') /\ Ready(w, f, stealer')
  BY <1>1, <1>6, NoJobs DEF WorkPc, BodyPc, WaitPc
<1>9. Knows(w, b, stealer')
  BY <1>5, <1>6, <1>7 DEF Knows, HuntsPc
<1>10. /\ Steps(w) /\ Depth(w)' = n + 1 /\ Top(w)' = f /\ Under1(w)' = b
  BY <1>1, <1>4, <1>6, JobCall
<1>11. Job' = Job
  BY <1>1, <1>4, <1>6, <1>8, JobQuiet
<1>12. Heads' = Heads /\ slot' = slot /\ begun' = begun /\ done' = done
       /\ UNCHANGED <<sleepers, injected, stopped, semaphore>>
  BY <1>4 DEF Heads, signals, bunk, history
<1>13. WorkNow'
  <2>1. Work(Job, Heads, slot, stealer', begun, done)
    BY <1>2, <1>3, <1>5, WorkMeta DEF Orderly, WorkNow
  <2> QED  BY <1>11, <1>12, <2>1 DEF WorkNow
<1>14. \A u \in Worker, j \in Slot :
          stealer'[u][j] = stealer[u][j] \/ (u = w /\ j = i)
  BY <1>5 DEF SameSlots
<1>15. Local(w) /\ Waits(w, stack'[w], stealer')
  <2>1. \A j \in Slot : j < Heads[w] /\ stealer[w][j] # "unset" => stealer'[w][j] # "unset"
    BY <1>5, <1>7, <1>14
  <2> QED  BY <1>1, <1>4, <1>6, <1>8, <1>9, <2>1, CallWaits
<1>16. ~stopped /\ ~stopped' /\ Top(w).pc \notin StopPc
  BY <1>1, <1>2, <1>12, AfterStop DEF StopPc
<1>17. /\ Held[w] = None /\ Freed[w] = None /\ Why[w] = "none" /\ Naps[w] = "no"
       /\ Awaits[w] = None /\ Claim[w] = None /\ w \notin Injecting /\ ~Pending(w)
       /\ (Signalled[w] <=> semaphore[w] = 1)
  BY <1>1, NoViews DEF LoudPc, HolderPc, SleepPc
<1>18. PcFact1(w)' /\ NapFact1(w)' /\ NapFacts
  BY PcNext, NapNow, NapNext DEF PcFacts, NapFacts
<1>19. /\ Naps'[w] = "end" /\ Awaits'[w] = <<w, i>> /\ ~Pending(w)'
  BY <1>1, <1>6, <1>10, <1>18 DEF NapFact1, SleepPc
<1>20. /\ Held'[w] = None /\ Freed'[w] = None /\ Why'[w] = "none"
       /\ Claim'[w] = None /\ (Signalled'[w] <=> semaphore'[w] = 1)
  BY <1>1, <1>6, <1>10, <1>18, <1>19 DEF PcFact1, HolderPc
<1>21. Tokens(sleepers', Held', Freed', Why', Naps', Awaits', Signalled', stealer')
  <2>1. SameViews(w, Held, Freed, Why, Naps, Awaits, Signalled,
                     Held', Freed', Why', Naps', Awaits', Signalled')
    BY <1>10, <1>12, OthersSame
  <2>2. Tokens(sleepers, Held, Freed, Why, Naps, Awaits, Signalled, stealer)
    BY <1>16 DEF Orderly, TokensNow
  <2>3. sleepers \in Seq(Worker)
    BY <1>1 DEF SInv, TypeOK
  <2>4. Signalled'[w] <=> Signalled[w]
    BY <1>12, <1>17, <1>20
  <2>5. \A u \in Worker : Why[u] # "no"
    BY <1>18 DEF NapFacts, NapFact1
  <2>6. Tokens(sleepers, Held', Freed', Why', Naps', Awaits', Signalled', stealer')
    BY <1>5, <1>17, <1>19, <1>20, <2>1, <2>2, <2>3, <2>4, <2>5, TokensAsk
  <2> QED  BY <1>12, <2>6
<1>22. ClaimsNow'
  <2>1. \A u \in Worker, j \in Slot : stealer[u][j] = "unset" => stealer'[u][j] = "unset"
    BY <1>3, <1>7, <1>14
  <2> QED  BY <1>10, <1>12, <1>17, <1>19, <1>20, <2>1, ClaimsQuiet
<1>23. UntakenNow'
  <2>1. stealer[w][i] # "unset"
    BY <1>3, <1>7
  <2> QED  BY <1>2, <1>12, <1>14, <2>1, UntakenNext DEF Orderly
<1> QED  BY <1>13, <1>14, <1>15, <1>16, <1>21, <1>22, <1>23, LoudStep

(* WaitForTaskToFinish keeps Orderly.                                      *)
LEMMA WaitForTaskToFinishInv ==
  ASSUME Orderly, Advance, NEW w \in Worker, WaitForTaskToFinish(w)
  PROVE  Orderly'
BY WaitOver, AskInv

(* A step that touches neither deque, metadata nor history.                *)
LEMMA LoudQuiet ==
  ASSUME Orderly, Advance, NEW w \in Worker, Local(w), Top(w).pc \notin StopPc, ~stopped,
         Job' = Job, Heads' = Heads, UNCHANGED <<arrays, history, sleepers, injected, stopped>>,
         Held'[w] = Held[w], Claim'[w] \in {None, Claim[w]}, Pending(w)' => Pending(w),
         Claim'[w] # None /\ w \in Injecting => w \in Injecting',
         Waits(w, stack'[w], stealer),
         Tokens(sleepers, Held', Freed', Why', Naps', Awaits', Signalled', stealer)
  PROVE  Orderly'
<1>1. stealer' = stealer /\ Steps(w) /\ sleepers' = sleepers /\ ~stopped'
  BY DEF arrays, Local
<1>2. ClaimsNow'
  BY <1>1, ClaimsQuiet
<1> QED  BY <1>1, <1>2, LoudCalm

(* Claims where nobody gains one, though the stack of sleepers changes.    *)
LEMMA ClaimsFewer ==
  ASSUME Orderly, Advance, NEW w \in Worker, Steps(w), UNCHANGED injected,
         Claim'[w] \in {None, Claim[w]}, \A u \in Worker : Pending(u)' => Pending(u),
         Claim'[w] # None /\ w \in Injecting => w \in Injecting',
         Heads' = Heads, stealer' = stealer
  PROVE  ClaimsNow'
<1>1. Claims(Claim, Injecting, Heads, stealer, TakenNow) /\ PendOK
  BY DEF Orderly, ClaimsNow
<1>2. \A v \in Worker, i \in Slot : i < Heads[v] /\ i \in TakenNow[v] => i \in TakenNow'[v]
  BY TakenStays
<1>3. \A u \in Worker : Claim'[u] # None => Claim'[u] = Claim[u] /\ (u \in Injecting => u \in Injecting')
  <2> SUFFICES ASSUME NEW u \in Worker, u # w, Claim'[u] # None
               PROVE  Claim'[u] = Claim[u] /\ (u \in Injecting => u \in Injecting')
    OBVIOUS
  <2>1. /\ (\A pc : At(u, pc)' <=> At(u, pc)) /\ Top(u)' = Top(u)
        /\ (u \in Injecting => u \in Injecting')
    BY OtherViews
  <2>2. injected' = injected /\ (Pending(u)' => Pending(u))
    OBVIOUS
  <2> QED  BY <2>1, <2>2 DEF Claim
<1>4. Claims(Claim', Injecting', Heads', stealer', TakenNow')
  <2> DEFINE E == Claim'
             Y == Injecting'
             U == TakenNow'
  <2>1. \A v \in Worker, i \in Slot :
          i < Heads[v] /\ stealer[v][i] = "unset" /\ i \in TakenNow[v] /\ (\E u \in Worker : E[u] = <<v, i>>)
            => i < Heads[v] /\ stealer[v][i] = "unset"
    OBVIOUS
  <2>2. \A v \in Worker : E[v] # None => E[v] = Claim[v] /\ (v \in Injecting => v \in Y)
    BY <1>3
  <2>3. \A v \in Worker, i \in Slot : i < Heads[v] /\ i \in TakenNow[v] => i \in U[v]
    BY <1>2
  <2> HIDE DEF E, Y, U
  <2>4. Claims(E, Y, Heads, stealer, U)
    BY <1>1, <2>1, <2>2, <2>3, ClaimsKeep
  <2> QED  BY <2>4 DEF E, Y, U
<1>5. PendOK'
  BY <1>1 DEF PendOK
<1> QED  BY <1>4, <1>5 DEF ClaimsNow

(* A publisher that takes a sleeper off the list keeps Orderly.            *)
LEMMA SomebodyWakes ==
  ASSUME Orderly, Advance, NEW w \in Worker, PopSleeper(w), sleepers # <<>>
  PROVE  Orderly'
<1> DEFINE n == Depth(w)
           v == Head(sleepers)
           f == [Top(w) EXCEPT !.pc = "selfSteal", !.other = v]
<1>1. /\ SInv /\ WaitsNow /\ At(w, "publishWork") /\ n > 0 /\ Top(w).pc = "publishWork" /\ Top(w) \in Frames
  <2>1. At(w, "publishWork")
    BY DEF PopSleeper
  <2> QED  BY <2>1, AtTop DEF Orderly
<1>2. sleepers \in Seq(Worker) /\ v \in Worker
  BY <1>1 DEF SInv, TypeOK
<1>3. Become(w, f) /\ sleepers' = Tail(sleepers)
      /\ UNCHANGED <<deque, arrays, signals, haveJobs, stopped, history>>
  BY DEF PopSleeper
<1>4. f \in Frames /\ f.pc = "selfSteal" /\ f.other = v
  BY <1>1, <1>2 DEF Frames, Pc, PublishPc
<1> HIDE DEF f
<1>5. /\ JobOf(f) = NoJob /\ JobOf(Top(w)) = NoJob /\ Knows(w, f, stealer) /\ Ready(w, f, stealer)
  BY <1>1, <1>4, NoJobs DEF WorkPc, BodyPc, WaitPc
<1>6. Steps(w) /\ Depth(w)' = n /\ Top(w)' = f
  BY <1>1, <1>3, <1>4, JobBecome
<1>7. Job' = Job
  BY <1>1, <1>3, <1>4, <1>5, JobQuiet
<1>8. Heads' = Heads /\ UNCHANGED <<arrays, history>> /\ stealer' = stealer
      /\ injected' = injected /\ semaphore' = semaphore /\ stopped' = stopped
  BY <1>3 DEF Heads, signals, arrays
<1>9. ~stopped /\ ~stopped' /\ Top(w).pc \notin StopPc
  <2>1. Top(w).pc \notin IdlePc /\ Top(w).pc \notin StopPc
    BY <1>1 DEF IdlePc, SleepPc, ReleasePc, ThreadPc, StopPc
  <2> QED  BY <1>1, <1>8, <2>1, AfterStop
<1>10. Local(w) /\ Waits(w, stack'[w], stealer)
  <2>1. Local(w) /\ Waits(w, stack'[w], stealer')
    BY <1>1, <1>3, <1>4, <1>5, <1>8, BecomeWaits
  <2> QED  BY <1>8, <2>1
<1>11. /\ Held[w] = None /\ Freed[w] = None /\ Why[w] = "none" /\ Naps[w] = "no"
       /\ Awaits[w] = None /\ Claim[w] = None /\ w \notin Injecting /\ ~Pending(w)
       /\ (Signalled[w] <=> semaphore[w] = 1)
  BY <1>1, NoViews DEF LoudPc, HolderPc, SleepPc
<1>12. PcFact1(w)'
  BY PcNext DEF PcFacts
<1>13. /\ Held'[w] = v /\ Freed'[w] = None /\ Why'[w] = "none" /\ Naps'[w] = "no"
       /\ Awaits'[w] = None /\ ~Pending(w)' /\ (Signalled'[w] <=> semaphore'[w] = 1)
       /\ Claim'[w] = None
  BY <1>1, <1>4, <1>6, <1>12 DEF PcFact1, HolderPc, SleepPc
<1>14. SameViews(w, Held, Freed, Why, Naps, Awaits, Signalled,
                    Held', Freed', Why', Naps', Awaits', Signalled')
  BY <1>6, <1>8, OthersSame
<1>15. Tokens(sleepers, Held, Freed, Why, Naps, Awaits, Signalled, stealer)
  BY <1>9 DEF Orderly, TokensNow
<1>16. Tokens(sleepers', Held', Freed', Why', Naps', Awaits', Signalled', stealer)
  <2>1. /\ Held'[w] = Head(sleepers) /\ Freed'[w] = Freed[w] /\ Why'[w] = Why[w] /\ Naps'[w] = Naps[w]
        /\ Awaits'[w] = Awaits[w] /\ (Signalled'[w] <=> Signalled[w])
    BY <1>8, <1>11, <1>13
  <2>2. Tokens(Tail(sleepers), Held', Freed', Why', Naps', Awaits', Signalled', stealer)
    BY <1>2, <1>14, <1>15, <2>1, TokensPop
  <2> QED  BY <1>3, <2>2
<1>17. \A u \in Worker : Pending(u)' => Pending(u)
  <2> SUFFICES ASSUME NEW u \in Worker, Pending(u)'  PROVE Pending(u)
    OBVIOUS
  <2>1. u # w
    BY <1>13
  <2>2. Naps'[u] = Naps[u] /\ (At(u, "woken")' <=> At(u, "woken"))
    BY <1>6, <2>1, OtherViews
  <2>3. u # v
    BY <1>13 DEF Pending
  <2>4. Listed(u) => Listed(u)'
    <3> SUFFICES ASSUME NEW k \in DOMAIN sleepers, sleepers[k] = u  PROVE Listed(u)'
      BY DEF Listed
    <3>1. k # 1 /\ k \in 1..Len(sleepers)
      BY <1>2, <2>3
    <3>2. k - 1 \in DOMAIN Tail(sleepers) /\ Tail(sleepers)[k - 1] = u
      BY <1>2, <3>1
    <3> QED  BY <1>3, <3>2 DEF Listed
  <2>5. \A z \in Worker : Held[z] # u
    <3>1. None # u
      BY StealingAssumption
    <3> QED  BY <1>11, <1>14, <3>1 DEF Pending, SameViews
  <2> QED  BY <1>8, <2>2, <2>4, <2>5 DEF Pending
<1>18. ClaimsNow'
  BY <1>6, <1>8, <1>11, <1>13, <1>17, ClaimsFewer
<1> QED  BY <1>7, <1>8, <1>9, <1>10, <1>16, <1>18, LoudCalm

(* PopSleeper keeps Orderly.                                               *)
LEMMA PopSleeperInv ==
  ASSUME Orderly, Advance, NEW w \in Worker, PopSleeper(w)
  PROVE  Orderly'
BY SomebodyWakes, NobodySleeps

(* A frame of publishWork becomes another.                                 *)
LEMMA PublishFrame ==
  ASSUME Orderly, NEW w \in Worker, Depth(w) > 0, Top(w).pc \in PublishPc,
         NEW f \in Frames, f.pc \in PublishPc, Become(w, f), stealer' = stealer
  PROVE  /\ Job' = Job /\ Local(w) /\ Waits(w, stack'[w], stealer) /\ Steps(w) /\ Top(w)' = f
         /\ Depth(w)' > 0 /\ ~stopped /\ Top(w).pc \notin StopPc
<1>1. SInv /\ WaitsNow
  BY DEF Orderly
<1>2. \A pc \in PublishPc : pc \notin IdlePc /\ pc \notin StopPc /\ pc \notin WorkPc
                            /\ pc \notin WaitPc \cup {"randomSteal"}
  BY DEF PublishPc, IdlePc, SleepPc, ReleasePc, ThreadPc, StopPc, WorkPc, BodyPc, WaitPc
<1>3. JobOf(f) = NoJob /\ JobOf(Top(w)) = NoJob /\ Knows(w, f, stealer') /\ Ready(w, f, stealer')
  BY <1>2, NoJobs
<1>4. Steps(w) /\ Depth(w)' = Depth(w) /\ Top(w)' = f
  BY <1>1, JobBecome
<1>5. Job' = Job
  BY <1>1, <1>3, JobQuiet
<1>6. Local(w) /\ Waits(w, stack'[w], stealer')
  BY <1>1, <1>3, BecomeWaits
<1>7. ~stopped
  BY <1>2, AfterStop
<1> QED  BY <1>2, <1>4, <1>5, <1>6, <1>7

(* SelfSteal keeps Orderly.                                                *)
LEMMA SelfStealInv ==
  ASSUME Orderly, Advance, NEW w \in Worker, SelfSteal(w)
  PROVE  Orderly'
<1> DEFINE d == deque[w]
           t == d.tail
           e == [d EXCEPT !.tail = t + 1]
           f == [Top(w) EXCEPT !.t = t, !.pc = IF t = d.splitCopy THEN "correctTail" ELSE "inject"]
<1>1. /\ SInv /\ At(w, "selfSteal") /\ Depth(w) > 0 /\ Top(w).pc = "selfSteal" /\ Top(w) \in Frames
      /\ Fits(d, Top(w)) /\ d \in Deque
  <2>1. At(w, "selfSteal")
    BY DEF SelfSteal
  <2> QED  BY <2>1, AtTop DEF Orderly
<1>2. Become(w, f) /\ deque' = [deque EXCEPT ![w] = e]
      /\ UNCHANGED <<arrays, signals, bunk, stopped, history>>
  <2>1. deque' = [deque EXCEPT ![w].tail = t + 1]
    BY DEF SelfSteal
  <2>2. deque' = [deque EXCEPT ![w] = e]
    BY <1>1, <2>1 DEF SInv, TypeOK
  <2> QED  BY <2>2 DEF SelfSteal
<1>3. e.head = d.head /\ e.tail = t + 1 /\ t \in Nat
  BY <1>1 DEF Deque
<1>4. /\ f \in Frames /\ f.other = Top(w).other /\ f.t = t
      /\ f.pc = (IF t = d.splitCopy THEN "correctTail" ELSE "inject")
  <2>1. PICK pc \in {"correctTail", "inject"} : pc = IF t = d.splitCopy THEN "correctTail" ELSE "inject"
    OBVIOUS
  <2>2. pc \in Pc
    BY DEF Pc, PublishPc
  <2>3. PICK g \in Frames : g = Top(w)
    BY <1>1
  <2>4. f = [g EXCEPT !.t = t, !.pc = pc]
    BY <2>1, <2>3
  <2> HIDE DEF t, f
  <2>5. [g EXCEPT !.t = t, !.pc = pc] \in Frames
    BY <1>3, <2>2, <2>3 DEF Frames
  <2>6. f.other = g.other /\ f.t = t /\ f.pc = pc
    BY <2>3, <2>4 DEF Frames
  <2> QED  BY <2>1, <2>3, <2>4, <2>5, <2>6
<1> HIDE DEF e, f
<1>5. Heads' = Heads
  BY <1>1, <1>2, <1>3, HeadsKept
<1>6. /\ UNCHANGED <<sleepers, injected, stopped, semaphore>> /\ UNCHANGED <<arrays, history>>
      /\ stealer' = stealer
  BY <1>2 DEF signals, bunk, arrays
<1>7. /\ Job' = Job /\ Local(w) /\ Waits(w, stack'[w], stealer) /\ Steps(w) /\ Top(w)' = f
      /\ Depth(w)' > 0 /\ ~stopped /\ Top(w).pc \notin StopPc
  BY <1>1, <1>2, <1>4, <1>6, PublishFrame DEF PublishPc
<1>8. PcFact1(w) /\ PcFact1(w)'
  BY PcNow, PcNext DEF PcFacts
<1>9. /\ Held[w] = Top(w).other /\ Freed[w] = None /\ Why[w] = "none" /\ Naps[w] = "no"
      /\ Awaits[w] = None /\ (Signalled[w] <=> semaphore[w] = 1) /\ Claim[w] = None
      /\ w \notin Injecting
  BY <1>1, <1>8 DEF PcFact1, HolderPc, SleepPc
<1>10. /\ Held'[w] = Top(w).other /\ Freed'[w] = None /\ Why'[w] = "none" /\ Naps'[w] = "no"
       /\ Awaits'[w] = None /\ (Signalled'[w] <=> semaphore'[w] = 1) /\ ~Pending(w)'
  BY <1>4, <1>7, <1>8 DEF PcFact1, HolderPc, SleepPc
<1>11. Tokens(sleepers', Held', Freed', Why', Naps', Awaits', Signalled', stealer)
  BY <1>6, <1>7, <1>9, <1>10, TokensSame
<1>12. CASE t = d.splitCopy
  <2>1. f.pc = "correctTail"
    BY <1>4, <1>12
  <2>2. Claim'[w] = None
    BY <1>7, <1>8, <1>10, <2>1 DEF PcFact1
  <2> QED  BY <1>5, <1>6, <1>7, <1>9, <1>10, <1>11, <2>2, LoudQuiet
<1>13. CASE t # d.splitCopy
  <2>1. f.pc = "inject" /\ Claim'[w] = <<w, t>> /\ w \in Injecting'
    <3>1. f.pc = "inject"
      BY <1>4, <1>13
    <3> QED  BY <1>4, <1>7, <1>8, <3>1 DEF PcFact1
  <2>2. d.tail < d.split
    <3>1. ~d.allStolenCopy /\ Rested(d)
      BY <1>1 DEF Fits, Sharing, Moving
    <3>2. d.tail \in Nat /\ d.split \in Nat /\ d.split = d.splitCopy /\ d.tail <= d.split
      BY <1>1, <3>1, DequeTypes DEF Rested
    <3> QED  BY <1>13, <3>2
  <2>3. PICK i \in Slot : i = t /\ i < Heads[w] /\ i \notin TakenNow[w]
    BY <1>1, <2>2, TailShared
  <2>4. i \in TakenNow'[w]
    <3>1. Now(w)' = f
      BY <1>7 DEF Now
    <3>2. deque'[w] = e
      BY <1>1, <1>2, DequeNow
    <3>3. TakenSlot(e, f, i)
      BY <1>3, <2>1, <2>3 DEF TakenSlot
    <3> QED  BY <3>1, <3>2, <3>3 DEF TakenNow
  <2>5. stealer[w][i] = "unset"
    BY <2>3 DEF Orderly, UntakenNow, Untaken
  <2>6. \A u \in Worker \ {w} : /\ Claim'[u] = Claim[u] /\ (Pending(u)' <=> Pending(u))
                                 /\ (u \in Injecting => u \in Injecting')
    BY <1>6, <1>7, <1>9, <1>10, OtherClaims
  <2>7. ClaimsNow'
    <3>1. Claims(Claim, Injecting, Heads, stealer, TakenNow)
      BY DEF Orderly, ClaimsNow
    <3>2. \A u \in Worker, j \in Slot : j < Heads[u] /\ j \in TakenNow[u] => j \in TakenNow'[u]
      BY TakenStays
    <3>3. Claim'[w] = <<w, i>>
      BY <2>1, <2>3
    <3>4. Claims(Claim', Injecting', Heads, stealer, TakenNow')
      BY <2>1, <2>3, <2>4, <2>5, <2>6, <3>1, <3>2, <3>3, ClaimsMore
    <3>5. PendOK'
      BY <1>6, <1>10, <2>6 DEF PendOK, Orderly, ClaimsNow
    <3> QED  BY <1>5, <1>6, <3>4, <3>5 DEF ClaimsNow
  <2> QED  BY <1>5, <1>6, <1>7, <1>11, <2>7, LoudCalm
<1> QED  BY <1>12, <1>13

(* The tail goes back and what was shared is given up.                     *)
LEMMA GiveUpInv ==
  ASSUME Orderly, Advance, NEW w \in Worker, GiveBack(w), ~At(w, "pushBack")
  PROVE  Orderly'
<1>1. PICK pc \in {"correctTail", "giveUp"} : At(w, pc)
  BY DEF GiveBack
<1>2. /\ SInv /\ Depth(w) > 0 /\ Top(w).pc = pc /\ Top(w) \in Frames /\ deque[w] \in Deque
  BY <1>1, AtTop DEF Orderly
<1>3. \E pc2 \in {"giveUp", "pushBack"} : Jump(w, pc2)
  BY <1>2 DEF GiveBack, At
<1>4. PICK f \in Frames : f.pc \in {"giveUp", "pushBack"} /\ f.other = Top(w).other /\ Become(w, f)
  BY <1>2, <1>3, JumpFrame DEF Jump, Pc, PublishPc
<1>5. /\ UNCHANGED <<sleepers, injected, stopped, semaphore>> /\ UNCHANGED <<arrays, history>>
      /\ stealer' = stealer
  BY <1>2 DEF GiveBack, At, signals, bunk, arrays
<1>6. Heads' = Heads
  <2>1. CASE pc = "correctTail"
    <3> DEFINE e == [deque[w] EXCEPT !.tail = Top(w).t]
    <3>1. deque' = [deque EXCEPT ![w].tail = Top(w).t]
      BY <1>2, <2>1 DEF GiveBack, At
    <3>2. deque' = [deque EXCEPT ![w] = e]
      BY <1>2, <3>1 DEF SInv, TypeOK
    <3>3. e.head = deque[w].head
      BY <1>2 DEF Deque
    <3> HIDE DEF e
    <3> QED  BY <1>2, <3>2, <3>3, HeadsKept
  <2>2. CASE pc = "giveUp"
    <3>1. GiveUpShare(w, deque[w]) \/ UNCHANGED deque
      BY <1>2, <2>2 DEF GiveBack, At
    <3> QED  BY <1>2, <3>1, GaveUpHeads DEF Heads
  <2> QED  BY <2>1, <2>2
<1>7. /\ Job' = Job /\ Local(w) /\ Waits(w, stack'[w], stealer) /\ Steps(w) /\ Top(w)' = f
      /\ Depth(w)' > 0 /\ ~stopped /\ Top(w).pc \notin StopPc
  BY <1>2, <1>4, <1>5, PublishFrame DEF PublishPc
<1>8. PcFact1(w) /\ PcFact1(w)'
  BY PcNow, PcNext DEF PcFacts
<1>9. /\ Held[w] = Top(w).other /\ Freed[w] = None /\ Why[w] = "none" /\ Naps[w] = "no"
      /\ Awaits[w] = None /\ (Signalled[w] <=> semaphore[w] = 1) /\ Claim[w] = None
  BY <1>2, <1>8 DEF PcFact1, HolderPc, SleepPc
<1>10. /\ Held'[w] = Top(w).other /\ Freed'[w] = None /\ Why'[w] = "none" /\ Naps'[w] = "no"
       /\ Awaits'[w] = None /\ (Signalled'[w] <=> semaphore'[w] = 1) /\ ~Pending(w)'
       /\ Claim'[w] = None
  BY <1>4, <1>7, <1>8 DEF PcFact1, HolderPc, SleepPc
<1>11. Tokens(sleepers', Held', Freed', Why', Naps', Awaits', Signalled', stealer)
  BY <1>5, <1>7, <1>9, <1>10, TokensSame
<1> QED  BY <1>5, <1>6, <1>7, <1>9, <1>10, <1>11, LoudQuiet

(* PushBack keeps Orderly.                                                 *)
LEMMA PushBackInv ==
  ASSUME Orderly, Advance, NEW w \in Worker, GiveBack(w), At(w, "pushBack")
  PROVE  Orderly'
<1> DEFINE v == Top(w).other
<1>1. /\ SInv /\ WaitsNow /\ Depth(w) > 0 /\ Top(w).pc = "pushBack" /\ Top(w) \in Frames /\ v \in Worker
      /\ sleepers \in Seq(Worker)
  <2>1. SInv /\ WaitsNow
    BY DEF Orderly
  <2>2. Depth(w) > 0 /\ Top(w).pc = "pushBack" /\ Top(w) \in Frames /\ FrameOK(Top(w))
    BY <2>1, AtTop
  <2> QED  BY <2>1, <2>2 DEF FrameOK, OtherPc, SInv, TypeOK
<1>2. /\ sleepers' = <<v>> \o sleepers /\ Return(w)
      /\ UNCHANGED <<deque, arrays, signals, haveJobs, stopped, history>>
  BY <1>1 DEF GiveBack, At
<1>3. Heads' = Heads /\ UNCHANGED <<arrays, history>> /\ stealer' = stealer
      /\ injected' = injected /\ semaphore' = semaphore /\ stopped' = stopped
  BY <1>2 DEF Heads, signals, arrays
<1>4. Depth(w) > 1 /\ Under1(w).pc \in {"body", "overflow", "runOwn"}
  <2>1. Depth(w) > 1 /\ MayCall(Under1(w), Top(w))
    BY <1>1, UnderTop DEF StopPc, ThreadPc
  <2> QED  BY <1>1, <2>1 DEF MayCall, BodyPc, WaitPc, ShrinkPc, PushPc, GrowPc, PublishPc,
               ReleasePc, TakenPc, SleepPc
<1>5. JobOf(Top(w)) = NoJob
  BY <1>1, NoJobs DEF WorkPc, BodyPc
<1>6. Job' = Job /\ Steps(w) /\ Depth(w)' = Depth(w) - 1 /\ Top(w)' = Under1(w) /\ Depth(w) \in Nat
  BY <1>1, <1>2, <1>4, <1>5, JobQuiet, JobReturn
<1>7. Local(w) /\ Waits(w, stack'[w], stealer)
  <2>1. Ready(w, Under1(w), stealer')
    BY <1>4 DEF Ready
  <2>2. Local(w) /\ Waits(w, stack'[w], stealer')
    BY <1>1, <1>2, <1>3, <2>1, ReturnWaits
  <2> QED  BY <1>3, <2>2
<1>8. ~stopped /\ ~stopped' /\ Top(w).pc \notin StopPc
  <2>1. Top(w).pc \notin IdlePc /\ Top(w).pc \notin StopPc
    BY <1>1 DEF IdlePc, SleepPc, ReleasePc, ThreadPc, StopPc
  <2> QED  BY <1>1, <1>3, <2>1, AfterStop
<1>9. PcFact1(w)
  BY PcNow DEF PcFacts
<1>10. /\ Held[w] = v /\ Freed[w] = None /\ Why[w] = "none" /\ Naps[w] = "no"
       /\ Awaits[w] = None /\ (Signalled[w] <=> semaphore[w] = 1)
  BY <1>1, <1>9 DEF PcFact1, HolderPc, SleepPc
<1>11. /\ Held'[w] = None /\ Freed'[w] = None /\ Why'[w] = "none" /\ Naps'[w] = "no"
       /\ Awaits'[w] = None /\ Claim'[w] = None /\ ~Pending(w)'
       /\ (Signalled'[w] <=> semaphore'[w] = 1)
  <2>1. Depth(w)' > 0 /\ Top(w)'.pc \notin LoudPc
    BY <1>4, <1>6 DEF LoudPc, HolderPc, SleepPc
  <2> QED  BY <2>1, NoViews
<1>12. SameViews(w, Held, Freed, Why, Naps, Awaits, Signalled,
                    Held', Freed', Why', Naps', Awaits', Signalled')
  BY <1>6, <1>3, OthersSame
<1>13. None \notin Worker
  BY StealingAssumption
<1>14. Tokens(sleepers', Held', Freed', Why', Naps', Awaits', Signalled', stealer)
  <2>1. Tokens(sleepers, Held, Freed, Why, Naps, Awaits, Signalled, stealer)
    BY <1>8 DEF Orderly, TokensNow
  <2>2. /\ Held[w] # None /\ Held'[w] = None /\ Freed'[w] = Freed[w] /\ Why'[w] = Why[w]
        /\ Naps'[w] = Naps[w] /\ Awaits'[w] = Awaits[w] /\ (Signalled'[w] <=> Signalled[w])
    BY <1>1, <1>3, <1>10, <1>11, <1>13
  <2>3. Tokens(<<Held[w]>> \o sleepers, Held', Freed', Why', Naps', Awaits', Signalled', stealer)
    BY <1>1, <1>12, <2>1, <2>2, TokensBack
  <2> QED  BY <1>2, <1>10, <2>3
<1>15. \A u \in Worker : Pending(u)' => Pending(u)
  <2> SUFFICES ASSUME NEW u \in Worker, Pending(u)'  PROVE Pending(u)
    OBVIOUS
  <2>1. u # w
    BY <1>11
  <2>2. Naps'[u] = Naps[u] /\ (At(u, "woken")' <=> At(u, "woken"))
    BY <1>6, <2>1, OtherViews
  <2>3. Len(sleepers') = Len(sleepers) + 1 /\ sleepers' \in Seq(Worker) /\ Len(sleepers) \in Nat
        /\ sleepers'[1] = v /\ \A k \in 1..Len(sleepers) : sleepers'[k + 1] = sleepers[k]
    BY <1>1, <1>2
  <2>4. u # v
    <3>1. 1 \in DOMAIN sleepers'
      BY <2>3
    <3> QED  BY <2>3, <3>1 DEF Pending, Listed
  <2>5. ~Listed(u)
    <3> SUFFICES ASSUME NEW k \in 1..Len(sleepers), sleepers[k] = u  PROVE Listed(u)'
      BY <1>1 DEF Listed, Pending
    <3>1. k + 1 \in DOMAIN sleepers' /\ sleepers'[k + 1] = u
      BY <2>3
    <3> QED  BY <3>1 DEF Listed
  <2>6. \A z \in Worker : Held[z] # u
    BY <1>10, <1>12, <2>4 DEF Pending, SameViews
  <2> QED  BY <1>3, <2>2, <2>5, <2>6 DEF Pending
<1>16. ClaimsNow'
  BY <1>3, <1>6, <1>11, <1>15, ClaimsFewer
<1> QED  BY <1>3, <1>6, <1>7, <1>8, <1>14, <1>16, LoudCalm

(* GiveBack keeps Orderly.                                                 *)
LEMMA GiveBackInv ==
  ASSUME Orderly, Advance, NEW w \in Worker, GiveBack(w)
  PROVE  Orderly'
BY GiveUpInv, PushBackInv

(* A worker that is asked to wait for a task sleeps in waitForNewTask.     *)
LEMMA NapIsSleep ==
  ASSUME NEW v \in Worker, Naps[v] # "no"
  PROVE  Depth(v) > 1 /\ Top(v).pc \in SleepPc
         /\ (Naps[v] = "task" => Under1(v).pc = "woken")
         /\ (Naps[v] = "end" => Under1(v).pc # "woken" /\ Awaits[v] = Under1(v).ref)
BY DEF Naps, Awaits

Passes(C, X, E, Y, w, v) ==
  /\ v # w /\ C[w] # None /\ E[w] = None /\ E[v] = C[w] /\ C[w][1] # v
  /\ \A u \in Worker \ {v, w} : E[u] = C[u] /\ (u \in X => u \in Y)

(* A claim passes from a thread to the sleeper it wakes.                   *)
LEMMA ClaimsPassed ==
  ASSUME NEW C, NEW X, NEW H, NEW M, NEW T, Claims(C, X, H, M, T),
         NEW E, NEW Y, NEW U, NEW w \in Worker, NEW v \in Worker, Passes(C, X, E, Y, w, v),
         \A u \in Worker, j \in Slot : j < H[u] /\ j \in T[u] => j \in U[u]
  PROVE  Claims(E, Y, H, M, U)
<1>1. /\ v # w /\ C[w] # None /\ E[w] = None /\ E[v] = C[w] /\ C[w][1] # v
      /\ \A u \in Worker \ {v, w} : E[u] = C[u] /\ (u \in X => u \in Y)
  BY DEF Passes
<1>0. PICK q : q = C[w]
  OBVIOUS
<1>2. /\ q \in Ref /\ q[2] < H[q[1]] /\ q[2] \in T[q[1]] /\ M[q[1]][q[2]] = "unset"
      /\ (\A x \in Worker : C[x] = q => x = w) /\ q # None /\ q[1] # v /\ E[v] = q
  BY <1>0, <1>1 DEF Claims
<1> SUFFICES ASSUME NEW u \in Worker, E[u] # None
             PROVE  LET r == E[u] IN
                    /\ r \in Ref /\ r[2] < H[r[1]] /\ r[2] \in U[r[1]] /\ M[r[1]][r[2]] = "unset"
                    /\ \A x \in Worker : E[x] = r => x = u
                    /\ r[1] # u \/ u \in Y
  BY DEF Claims
<1>3. CASE u = v
  <2>1. \A x \in Worker : E[x] = q => x = v
    BY <1>1, <1>2
  <2>2. q[2] \in U[q[1]]
    BY <1>2, RefTypes
  <2> QED  BY <1>2, <1>3, <2>1, <2>2
<1>4. CASE u # v
  <2>1. PICK r : r = E[u]
    OBVIOUS
  <2>2. u # w
    BY <1>1
  <2>3. /\ r \in Ref /\ r[2] < H[r[1]] /\ r[2] \in T[r[1]] /\ M[r[1]][r[2]] = "unset"
        /\ (\A x \in Worker : C[x] = r => x = u) /\ (r[1] # u \/ u \in X) /\ r = C[u] /\ r # None
    BY <1>1, <1>4, <2>1, <2>2 DEF Claims
  <2>4. r # q
    BY <1>2, <2>2, <2>3
  <2>5. \A x \in Worker : E[x] = r => x = u
    BY <1>1, <1>2, <2>3, <2>4
  <2>6. r[2] \in U[r[1]]
    BY <2>3, RefTypes
  <2> QED  BY <1>1, <1>4, <2>1, <2>2, <2>3, <2>5, <2>6
<1> QED  BY <1>3, <1>4

(* InjectTask keeps Orderly.                                               *)
LEMMA InjectTaskInv ==
  ASSUME Orderly, Advance, NEW w \in Worker, At(w, "inject"), Inject(w)
  PROVE  Orderly'
<1>0. PICK v, r : v = Top(w).other /\ r = <<w, Top(w).t>>
  OBVIOUS
<1> DEFINE f == Release(v)
           b == [Top(w) EXCEPT !.pc = "injectNext"]
<1>1. /\ SInv /\ WaitsNow /\ Depth(w) > 0 /\ Top(w).pc = "inject" /\ Top(w) \in Frames /\ v \in Worker
      /\ sleepers \in Seq(Worker) /\ Top(w).t \in Nat
  <2>1. SInv /\ WaitsNow
    BY DEF Orderly
  <2>2. Depth(w) > 0 /\ Top(w).pc = "inject" /\ Top(w) \in Frames /\ FrameOK(Top(w))
    BY <2>1, AtTop
  <2> QED  BY <1>0, <2>1, <2>2, FrameFields DEF FrameOK, OtherPc, SInv, TypeOK
<1>2. /\ injected' = [injected EXCEPT ![v] = r] /\ Call(w, f, b)
      /\ UNCHANGED <<deque, arrays, semaphore, notified, bunk, stopped, history>>
  BY <1>0, <1>1 DEF Inject, At, CallThen
<1>3. f \in Frames /\ f.pc = "release" /\ f.other = v /\ b \in Frames /\ b.pc = "injectNext"
  BY <1>1, NewFrames, JumpFrame DEF Pc, PublishPc
<1>4. r # None /\ None \notin Worker
  BY <1>0, <1>1, StealingAssumption
<1> HIDE DEF f, b
<1>5. Heads' = Heads /\ UNCHANGED <<arrays, history>> /\ stealer' = stealer
      /\ UNCHANGED <<semaphore, stopped, sleepers>>
  BY <1>2 DEF Heads, signals, arrays, bunk
<1>6. /\ JobOf(f) = NoJob /\ JobOf(b) = NoJob /\ JobOf(Top(w)) = NoJob
      /\ Knows(w, f, stealer') /\ Ready(w, f, stealer') /\ Knows(w, b, stealer')
  BY <1>1, <1>3, NoJobs DEF WorkPc, BodyPc, WaitPc
<1>7. /\ Steps(w) /\ Depth(w)' = Depth(w) + 1 /\ Top(w)' = f /\ Under1(w)' = b /\ Job' = Job
      /\ Depth(w)' > 0
  <2>1. Depth(w) \in Nat
    BY <1>1, GoodParts
  <2> QED  BY <1>1, <1>2, <1>3, <1>6, <2>1, JobQuiet, JobCall
<1>8. Local(w) /\ Waits(w, stack'[w], stealer)
  <2>1. Local(w) /\ Waits(w, stack'[w], stealer')
    BY <1>1, <1>2, <1>3, <1>5, <1>6, CallWaits
  <2> QED  BY <1>5, <2>1
<1>9. ~stopped /\ ~stopped' /\ Top(w).pc \notin StopPc
  <2>1. Top(w).pc \notin IdlePc /\ Top(w).pc \notin StopPc
    BY <1>1 DEF IdlePc, SleepPc, ReleasePc, ThreadPc, StopPc
  <2> QED  BY <1>1, <1>5, <2>1, AfterStop
<1>10. PcFact1(w) /\ PcFact1(w)'
  BY PcNow, PcNext DEF PcFacts
<1>11. /\ Held[w] = v /\ Freed[w] = None /\ Naps[w] = "no"
       /\ Awaits[w] = None /\ (Signalled[w] <=> semaphore[w] = 1) /\ Claim[w] = r
  BY <1>0, <1>1, <1>10 DEF PcFact1, HolderPc, SleepPc
<1>12. /\ Held'[w] = None /\ Freed'[w] = v /\ Naps'[w] = "no"
       /\ Awaits'[w] = None /\ Claim'[w] = None /\ ~Pending(w)'
       /\ (Signalled'[w] <=> semaphore'[w] = 1)
  BY <1>3, <1>7, <1>10 DEF PcFact1, HolderPc, SleepPc
<1>13. Why'[w] = "task"
  BY <1>3, <1>7 DEF Why, At
<1>14. SameViews(w, Held, Freed, Why, Naps, Awaits, Signalled,
                    Held', Freed', Why', Naps', Awaits', Signalled')
  BY <1>7, <1>5, OthersSame
<1>15. Tokens(sleepers, Held, Freed, Why, Naps, Awaits, Signalled, stealer)
  BY <1>9 DEF Orderly, TokensNow
<1>16. Tokens(sleepers', Held', Freed', Why', Naps', Awaits', Signalled', stealer)
  <2>1. /\ Held[w] # None /\ Held'[w] = None /\ Freed'[w] = Held[w] /\ Why'[w] = "task"
        /\ Naps'[w] = Naps[w] /\ Awaits'[w] = Awaits[w] /\ (Signalled'[w] <=> Signalled[w])
    BY <1>1, <1>4, <1>5, <1>11, <1>12, <1>13
  <2>3. Tokens(sleepers, Held', Freed', Why', Naps', Awaits', Signalled', stealer)
    BY <1>1, <1>14, <1>15, <2>1, TokensInject
  <2> QED  BY <1>5, <2>3
<1>17. Naps[v] = "task" /\ ~Listed(v) /\ \A u \in Worker : Held[u] = v => u = w
  <2>1. Held[w] # None
    BY <1>1, <1>4, <1>11
  <2> QED  BY <1>11, <1>15, <2>1 DEF Tokens, Listed
<1>18. v # w
  BY <1>11, <1>17
<1>19. Pending(v)'
  <2>1. Naps'[v] = "task"
    BY <1>1, <1>14, <1>17, <1>18 DEF SameViews
  <2>2. ~Listed(v)'
    BY <1>5, <1>17 DEF Listed
  <2>3. \A u \in Worker : Held'[u] # v
    BY <1>1, <1>4, <1>12, <1>14, <1>17 DEF SameViews
  <2> QED  BY <1>9, <2>1, <2>2, <2>3 DEF Pending
<1>20. injected'[v] = r /\ \A u \in Worker \ {v} : injected'[u] = injected[u]
  <2>1. injected \in [Worker -> Ref \cup {None}]
    BY <1>1 DEF SInv, TypeOK
  <2> QED  BY <1>1, <1>2, <2>1
<1>21. Claim'[v] = r
  <2>1. Depth(v) > 0 /\ Top(v).pc \in SleepPc
    <3>1. Depth(v) > 1 /\ Top(v).pc \in SleepPc
      BY <1>1, <1>17, NapIsSleep
    <3>2. Depth(v) \in Nat
      BY <1>1, GoodParts
    <3> QED  BY <3>1, <3>2
  <2>2. Depth(v)' > 0 /\ Top(v)'.pc \in SleepPc
    BY <1>1, <1>7, <1>18, <2>1, OtherViews
  <2>3. PcFact1(v)'
    BY <1>1, PcNext DEF PcFacts
  <2> QED  BY <1>19, <1>20, <2>2, <2>3 DEF PcFact1, SleepPc
<1>22. \A u \in Worker \ {v, w} : /\ (Pending(u)' => Pending(u))
                                   /\ Claim'[u] = Claim[u] /\ (u \in Injecting => u \in Injecting')
  <2> SUFFICES ASSUME NEW u \in Worker \ {v, w}
               PROVE  /\ (Pending(u)' <=> Pending(u))
                      /\ Claim'[u] = Claim[u] /\ (u \in Injecting => u \in Injecting')
    OBVIOUS
  <2>1. /\ (\A pc : At(u, pc)' <=> At(u, pc)) /\ Top(u)' = Top(u) /\ Naps'[u] = Naps[u]
        /\ (u \in Injecting => u \in Injecting')
    BY <1>7, OtherViews
  <2>2. Listed(u)' <=> Listed(u)
    BY <1>5 DEF Listed
  <2>3. (\A z \in Worker : Held'[z] # u) <=> (\A z \in Worker : Held[z] # u)
    BY <1>4, <1>11, <1>12, <1>14 DEF SameViews
  <2>4. Pending(u)' <=> Pending(u)
    BY <1>5, <2>1, <2>2, <2>3 DEF Pending
  <2> QED  BY <1>20, <2>1, <2>4 DEF Claim
<1>23. ClaimsNow'
  <2>1. Claims(Claim, Injecting, Heads, stealer, TakenNow) /\ PendOK
    BY DEF Orderly, ClaimsNow
  <2>2. \A u \in Worker, j \in Slot : j < Heads[u] /\ j \in TakenNow[u] => j \in TakenNow'[u]
    BY TakenStays
  <2>3. Claim[w] # None /\ Claim'[w] = None /\ Claim'[v] = Claim[w] /\ Claim[w][1] # v
    BY <1>0, <1>4, <1>11, <1>12, <1>18, <1>21
  <2>4. Claims(Claim', Injecting', Heads, stealer, TakenNow')
    <3>1. PICK E, Y, U : E = Claim' /\ Y = Injecting' /\ U = TakenNow'
      OBVIOUS
    <3>2. \A u \in Worker \ {v, w} : E[u] = Claim[u] /\ (u \in Injecting => u \in Y)
      BY <1>22, <3>1
    <3>3. \A u \in Worker, j \in Slot : j < Heads[u] /\ j \in TakenNow[u] => j \in U[u]
      BY <2>2, <3>1
    <3>4. v \in Worker /\ v # w /\ Claim[w] # None /\ E[w] = None /\ E[v] = Claim[w] /\ Claim[w][1] # v
      BY <1>1, <1>18, <2>3, <3>1
    <3>6. Passes(Claim, Injecting, E, Y, w, v)
      BY <3>2, <3>4 DEF Passes
    <3>5. Claims(E, Y, Heads, stealer, U)
      BY <1>1, <2>1, <3>3, <3>6, ClaimsPassed
    <3> QED  BY <3>1, <3>5
  <2>5. PendOK'
    BY <1>4, <1>12, <1>20, <1>22, <2>1 DEF PendOK
  <2> QED  BY <1>5, <2>4, <2>5 DEF ClaimsNow
<1> QED  BY <1>5, <1>7, <1>8, <1>9, <1>16, <1>23, LoudCalm

(* Inject keeps Orderly.                                                   *)
LEMMA InjectInv ==
  ASSUME Orderly, Advance, NEW w \in Worker, Inject(w)
  PROVE  Orderly'
<1>1. At(w, "inject") \/ At(w, "injectNext")
  BY DEF Inject
<1> QED  BY <1>1, InjectTaskInv, InjectNextInv

(* A step after the shutdown.                                              *)
LEMMA IdleStep ==
  ASSUME Orderly, Advance, NEW w \in Worker, Local(w), stopped',
         \A v \in Worker, l \in Nat : ~IsBody(Job, v, l),
         Job' = Job, Heads' = Heads, UNCHANGED <<arrays, history>>,
         Depth(w)' > 0 => Top(w)'.pc \notin {"runStolenTask", "inject"},
         Waits(w, stack'[w], stealer), Stops'
  PROVE  Orderly'
<1>1. stealer' = stealer /\ slot' = slot /\ begun' = begun /\ done' = done /\ Steps(w) /\ SInv /\ WaitsNow
      /\ SInv'
  BY DEF arrays, history, Local, Orderly, Advance
<1>2. WorkNow'
  BY <1>1 DEF WorkNow, Orderly
<1>3. UntakenNow'
  BY <1>1, UntakenNext DEF Orderly
<1>4. WaitsNow'
  BY <1>1, OthersWait
<1>5. \A u \in Worker : Claim'[u] = None /\ ~Pending(u)'
  <2> SUFFICES ASSUME NEW u \in Worker  PROVE Claim'[u] = None /\ ~Pending(u)'
    OBVIOUS
  <2>1. ~Pending(u)'
    BY DEF Pending
  <2>2. ~At(u, "runStolenTask")' /\ ~At(u, "inject")'
    <3>1. CASE u = w
      BY <3>1 DEF At
    <3>2. CASE u # w
      <4>1. Depth(u) > 0 => Top(u).pc \in IdlePc
        BY Idle
      <4>2. ~At(u, "runStolenTask") /\ ~At(u, "inject")
        BY <4>1 DEF At, IdlePc, SleepPc, ReleasePc, ThreadPc, StopPc
      <4> QED  BY <1>1, <3>2, <4>2, OtherViews
    <3> QED  BY <3>1, <3>2
  <2> QED  BY <2>1, <2>2 DEF Claim
<1>6. ClaimsNow'
  BY <1>5 DEF ClaimsNow, Claims, PendOK
<1> QED  BY <1>1, <1>2, <1>3, <1>4, <1>6 DEF Orderly, TokensNow

(* After the shutdown began, a step keeps Orderly when it keeps Stops.     *)
LEMMA StoppedStep ==
  ASSUME Orderly, Advance, NEW w \in Worker, Local(w), stopped, stopped',
         Job' = Job, Heads' = Heads, UNCHANGED <<arrays, history>>,
         Depth(w)' > 0 => Top(w)'.pc \notin {"runStolenTask", "inject"},
         Waits(w, stack'[w], stealer), Stops'
  PROVE  Orderly'
<1>1. \A v \in Worker, l \in Nat : ~IsBody(Job, v, l)
  BY AfterStop
<1> QED  BY <1>1, IdleStep

(* Why somebody releases nobody does not matter.                           *)
LEMMA TokensWhy ==
  ASSUME NEW L, NEW C, NEW F, NEW Y, NEW N, NEW A, NEW G, NEW M, Tokens(L, C, F, Y, N, A, G, M),
         NEW Z, \A u \in Worker : F[u] # None => Z[u] = Y[u]
  PROVE  Tokens(L, C, F, Z, N, A, G, M)
BY DEF Tokens

(* Those to be told are workers.                                           *)
LEMMA UntoldWorkers ==
  ASSUME SInv
  PROVE  Untold \in Seq(Worker) /\ Range(Untold) \subseteq Worker
<1>1. Main \in Worker
  BY StealingAssumption
<1>2. CASE Depth(Main) > 0
  <2>1. 1 \in Levels(Main)
    BY <1>1, <1>2, GoodParts DEF Levels
  <2>2. FrameOK(stack[Main][1])
    BY <1>1, <2>1, GoodParts
  <2>3. Untold \in Seq(Worker)
    BY <2>2 DEF FrameOK, Untold
  <2> QED  BY <2>3 DEF Range
<1>3. CASE ~(Depth(Main) > 0)
  BY <1>3 DEF Untold, Range
<1> QED  BY <1>2, <1>3

(* Release keeps Orderly.                                                  *)
LEMMA ReleaseInv ==
  ASSUME Orderly, Advance, NEW w \in Worker, At(w, "release"), ReleaseSemaphore(w)
  PROVE  Orderly'
<1>1. /\ SInv /\ WaitsNow /\ Depth(w) > 0 /\ Top(w).pc = "release" /\ Top(w) \in Frames
      /\ semaphore \in [Worker -> {-1, 0, 1}] /\ sleepers \in Seq(Worker) /\ Depth(w) \in Nat
  <2>1. SInv /\ WaitsNow
    BY DEF Orderly
  <2> QED  BY <2>1, AtTop, GoodParts DEF SInv, TypeOK
<1>2. PICK v : v = Top(w).other
  OBVIOUS
<1>3. /\ semaphore' = [semaphore EXCEPT ![v] = 1] /\ (Jump(w, "notify") \/ Return(w))
      /\ UNCHANGED <<deque, arrays, notified, injected, bunk, stopped, history>>
  BY <1>1, <1>2 DEF ReleaseSemaphore, At
<1>4. Heads' = Heads /\ UNCHANGED <<arrays, history>> /\ stealer' = stealer
      /\ UNCHANGED <<injected, stopped, sleepers>>
  BY <1>3 DEF Heads, arrays, bunk
<1>5. /\ Job' = Job /\ Local(w) /\ Waits(w, stack'[w], stealer) /\ Steps(w)
      /\ Depth(w)' > 0 /\ Top(w)'.pc \notin LoudPc
  <2>1. JobOf(Top(w)) = NoJob
    BY <1>1, NoJobs DEF WorkPc, BodyPc
  <2>2. CASE Jump(w, "notify")
    <3>1. PICK f \in Frames : f.pc = "notify" /\ Become(w, f)
      BY <1>1, <2>2, JumpFrame DEF Jump, Pc, ReleasePc
    <3>2. JobOf(f) = NoJob /\ Knows(w, f, stealer') /\ Ready(w, f, stealer')
      BY <3>1, NoJobs DEF WorkPc, BodyPc, WaitPc
    <3>3. Steps(w) /\ Depth(w)' = Depth(w) /\ Top(w)' = f
      BY <1>1, <3>1, JobBecome
    <3>4. Job' = Job
      BY <1>1, <2>1, <3>1, <3>2, JobQuiet
    <3>5. Local(w) /\ Waits(w, stack'[w], stealer')
      BY <1>1, <1>4, <3>1, <3>2, BecomeWaits
    <3> QED  BY <1>1, <1>4, <3>1, <3>3, <3>4, <3>5 DEF LoudPc, HolderPc, SleepPc
  <2>3. CASE Return(w)
    <3>1. Depth(w) > 1 /\ MayCall(Under1(w), Top(w))
      BY <1>1, UnderTop DEF StopPc, ThreadPc
    <3>2. Under1(w).pc \in {"injectNext", "leapt", "yield", "random_steal_loop", "stopping"}
      BY <1>1, <3>1 DEF MayCall, BodyPc, WaitPc, ShrinkPc, PushPc, GrowPc, PublishPc,
                 ReleasePc, TakenPc, SleepPc
    <3>3. Steps(w) /\ Depth(w)' = Depth(w) - 1 /\ Top(w)' = Under1(w)
      BY <1>1, <2>3, <3>1, JobReturn
    <3>4. Job' = Job
      BY <1>1, <2>1, <2>3, JobQuiet
    <3>5. Ready(w, Under1(w), stealer')
      BY <3>2 DEF Ready
    <3>6. Local(w) /\ Waits(w, stack'[w], stealer')
      BY <1>1, <1>4, <2>3, <3>5, ReturnWaits
    <3> QED  BY <1>1, <1>4, <3>1, <3>2, <3>3, <3>4, <3>6 DEF LoudPc, HolderPc, SleepPc
  <2> QED  BY <1>3, <2>2, <2>3
<1>6. PcFact1(w)
  BY PcNow DEF PcFacts
<1>7. /\ Held[w] = None /\ Freed[w] = v /\ Naps[w] = "no" /\ Awaits[w] = None
      /\ Claim[w] = None /\ w \notin Injecting
      /\ (Signalled[w] <=> semaphore[w] = 1)
  BY <1>1, <1>2, <1>6 DEF PcFact1, HolderPc, SleepPc
<1>8. /\ Held'[w] = None /\ Freed'[w] = None /\ Why'[w] = "none" /\ Naps'[w] = "no"
      /\ Awaits'[w] = None /\ Claim'[w] = None /\ ~Pending(w)'
      /\ (Signalled'[w] <=> semaphore'[w] = 1)
  BY <1>5, NoViews
<1>9. None \notin Worker /\ Main \in Worker
  BY StealingAssumption
<1>10. \A u \in Worker \ {w} :
         /\ Held'[u] = Held[u] /\ Freed'[u] = Freed[u] /\ Why'[u] = Why[u] /\ Naps'[u] = Naps[u]
         /\ Awaits'[u] = Awaits[u] /\ (semaphore'[u] = semaphore[u] => (Signalled'[u] <=> Signalled[u]))
         /\ (At(u, "woken")' <=> At(u, "woken"))
  BY <1>5, OtherViews
<1>11. \A u \in Worker \ {v} : (Signalled'[u] <=> Signalled[u])
  <2>1. \A u \in Worker \ {v} : semaphore'[u] = semaphore[u]
    BY <1>1, <1>3
  <2> QED  BY <1>7, <1>8, <1>10, <2>1
<1>12. CASE v = None
  <2>1. semaphore' = semaphore
    BY <1>1, <1>3, <1>9, <1>12
  <2>2. \A u \in Worker :
          /\ Held'[u] = Held[u] /\ Freed'[u] = Freed[u] /\ Naps'[u] = Naps[u]
          /\ Awaits'[u] = Awaits[u] /\ (Signalled'[u] <=> Signalled[u])
          /\ (Freed[u] # None => Why'[u] = Why[u])
    BY <1>7, <1>8, <1>9, <1>10, <1>11, <1>12
  <2>3. CASE ~stopped
    <3>1. Tokens(sleepers, Held, Freed, Why, Naps, Awaits, Signalled, stealer)
      BY <2>3 DEF Orderly, TokensNow
    <3>2. Tokens(sleepers, Held, Freed, Why', Naps, Awaits, Signalled, stealer)
      BY <2>2, <3>1, TokensWhy
    <3>3. Tokens(sleepers, Held', Freed', Why', Naps', Awaits', Signalled', stealer)
      BY <1>1, <2>2, <3>2, TokensKeep
    <3> QED  BY <1>1, <1>4, <1>5, <1>7, <1>8, <2>3, <3>3, LoudQuiet DEF StopPc
  <2>4. CASE stopped
    <3>1. \A u \in Worker : At(u, "woken")' => At(u, "woken")
      BY <1>5, <1>10 DEF At, LoudPc
    <3>2. Stops'
      BY <1>1, <1>4, <1>5, <2>2, <2>4, <3>1, StopsStay DEF StopPc
    <3> QED  BY <1>4, <1>5, <2>4, <3>2, StoppedStep DEF LoudPc, HolderPc
  <2> QED  BY <2>3, <2>4
<1>13. CASE v # None /\ ~stopped
  <2>1. Tokens(sleepers, Held, Freed, Why, Naps, Awaits, Signalled, stealer)
    BY <1>13 DEF Orderly, TokensNow
  <2>2. v \in Worker /\ Naps[v] = Why[w]
    BY <1>7, <1>13, <2>1 DEF Tokens
  <2>3. \A u \in Worker : Why[u] # "no"
    BY NapNow DEF NapFacts, NapFact1
  <2>4. v # w
    BY <1>7, <2>2, <2>3
  <2>5. Signalled'[v]
    <3>1. semaphore'[v] = 1
      BY <1>1, <1>3, <2>2
    <3> QED  BY <2>2, <3>1, MutedNext DEF MutedFacts, Muted1
  <2>6. Tokens(sleepers, Held', Freed', Why', Naps', Awaits', Signalled', stealer)
    <3>1. PICK C2, F2, Y2, N2, A2, G2 :
            C2 = Held' /\ F2 = Freed' /\ Y2 = Why' /\ N2 = Naps' /\ A2 = Awaits' /\ G2 = Signalled'
      OBVIOUS
    <3>2. \A u \in Worker : N2[u] = Naps[u] /\ A2[u] = Awaits[u] /\ C2[u] = Held[u]
      BY <1>7, <1>8, <1>10, <3>1
    <3>3. \A u \in Worker \ {w} : F2[u] = Freed[u] /\ Y2[u] = Why[u]
      BY <1>10, <3>1
    <3>4. Freed[w] # None /\ F2[w] = None /\ G2[Freed[w]]
          /\ \A u \in Worker \ {Freed[w]} : (G2[u] <=> Signalled[u])
      BY <1>7, <1>8, <1>11, <1>13, <2>5, <3>1
    <3>6. Frees(w, Held, Freed, Why, Naps, Awaits, Signalled, C2, F2, Y2, N2, A2, G2)
      BY <3>2, <3>3, <3>4 DEF Frees
    <3>5. Tokens(sleepers, C2, F2, Y2, N2, A2, G2, stealer)
      BY <1>1, <2>1, <2>3, <3>6, TokensFree
    <3> QED  BY <3>1, <3>5
  <2> QED  BY <1>1, <1>4, <1>5, <1>7, <1>8, <1>13, <2>6, LoudQuiet DEF StopPc
<1>14. CASE v # None /\ stopped
  <2>1. Stops
    BY DEF Orderly
  <2>2. w = Main /\ v \in Worker /\ v \notin Range(Untold)
    BY <1>7, <1>14, <2>1 DEF Stops
  <2>3. Stops'
    <3>1. /\ Depth(Main)' > 0 <=> Depth(Main) > 0
          /\ Depth(Main) > 0 => stack'[Main][1] = stack[Main][1]
          /\ Untold' = Untold
      BY <1>1, <1>5, Bottom DEF StopPc
    <3>2. \A u \in Worker : Freed'[u] = None
      BY <1>8, <1>9, <1>10, <1>14, <2>1, <2>2 DEF Stops
    <3>3. \A u \in Range(Untold) : ~Signalled'[u]
      <4>1. SUFFICES ASSUME NEW u \in Range(Untold)  PROVE ~Signalled'[u]
        OBVIOUS
      <4>2. ~Signalled[u] /\ u # v
        BY <1>14, <2>1, <2>2 DEF Stops
      <4>3. u \in Worker
        BY <1>1, UntoldWorkers
      <4> QED  BY <1>11, <4>2, <4>3
    <3>4. \A u \in Worker : At(u, "woken")' => At(u, "woken")
      BY <1>5, <1>10 DEF At, LoudPc
    <3>5. Range(Untold)' = Range(Untold) /\ stopped'
      BY <1>4, <1>14, <3>1
    <3> QED  BY <1>4, <1>5, <1>9, <1>14, <2>1, <3>1, <3>2, <3>3, <3>4, <3>5 DEF Stops
  <2> QED  BY <1>4, <1>5, <1>14, <2>3, StoppedStep DEF LoudPc, HolderPc
<1> QED  BY <1>12, <1>13, <1>14

(* ReleaseSemaphore keeps Orderly.                                         *)
LEMMA ReleaseSemaphoreInv ==
  ASSUME Orderly, Advance, NEW w \in Worker, ReleaseSemaphore(w)
  PROVE  Orderly'
<1>1. At(w, "release") \/ At(w, "notify")
  BY DEF ReleaseSemaphore
<1> QED  BY <1>1, ReleaseInv, NotifyInv

(* What a sleeper sleeps for.                                              *)
LEMMA SleepsFor ==
  ASSUME SInv, NEW w \in Worker, Depth(w) > 0, Top(w).pc \in SleepPc
  PROVE  /\ Depth(w) > 1 /\ Depth(w) \in Nat /\ Under1(w).pc \in {"popStolen", "woken"}
         /\ Depth(w) - 1 \in Levels(w) /\ Under1(w) = stack[w][Depth(w) - 1]
         /\ Under1(w).pc = "popStolen" =>
              \E i \in Slot : Under1(w).ref = <<w, i>> /\ i < Heads[w]
<1>1. Depth(w) > 1 /\ MayCall(Under1(w), Top(w)) /\ Depth(w) \in Nat
  <2>1. Top(w).pc \notin StopPc \cup ThreadPc
    BY DEF SleepPc, StopPc, ThreadPc
  <2> QED  BY <2>1, UnderTop, GoodParts
<1>2. Under1(w).pc \in {"popStolen", "woken"}
  BY <1>1 DEF MayCall, BodyPc, WaitPc, ShrinkPc, PushPc, GrowPc, PublishPc, ReleasePc, TakenPc, SleepPc
<1>3. Depth(w) - 1 \in Levels(w) /\ Under1(w) = stack[w][Depth(w) - 1]
  BY <1>1, Caller
<1>4. ASSUME Under1(w).pc = "popStolen"
      PROVE  \E i \in Slot : Under1(w).ref = <<w, i>> /\ i < Heads[w]
  <2>1. PICK l \in Nat : l = Depth(w) - 1 /\ l \in 1..Len(stack[w]) /\ stack[w][l] = Under1(w)
    BY <1>1, <1>3 DEF Levels, Depth
  <2>2. Shape(w, stack[w], deque[w].head) /\ ~(l + 2 <= Len(stack[w])) /\ deque[w].head \in Nat
    BY <1>1, <2>1, GoodParts DEF Depth
  <2>3. stack[w][l].ref \in Ref
    BY <1>4, <2>1, <2>2 DEF Shape, Chain, RefPc, WaitPc
  <2>4. stack[w][l].ref[1] = w /\ deque[w].head = stack[w][l].ref[2] + 1
    BY <1>4, <2>1, <2>2 DEF Shape, Heights, WaitPc
  <2>5. PICK i \in Slot : stack[w][l].ref = <<w, i>> /\ deque[w].head = i + 1
    BY <2>3, <2>4 DEF Ref
  <2> QED  BY <2>1, <2>5, SlotFacts DEF Heads
<1> QED  BY <1>1, <1>2, <1>3, <1>4

Dozes(w) == /\ Depth(w) > 0 /\ Top(w).pc \in SleepPc
            /\ \A u \in Worker \ {w} : semaphore'[u] = semaphore[u]
            /\ UNCHANGED <<deque, arrays, injected, bunk, stopped, history>>

(* The views of the worker that acts in its sleep.                         *)
LEMMA DozeViews ==
  ASSUME SInv, NEW w \in Worker, Dozes(w)
  PROVE  /\ Held[w] = None /\ Freed[w] = None /\ Why[w] = "none" /\ w \notin Injecting
         /\ Claim[w] = IF Pending(w) THEN injected[w] ELSE None
         /\ (Pending(w) => Naps[w] = "task")
         /\ Heads' = Heads /\ stealer' = stealer /\ UNCHANGED <<arrays, history>>
         /\ UNCHANGED <<injected, sleepers, stopped>>
         /\ JobOf(Top(w)) = NoJob /\ Top(w).pc \notin StopPc
<1>1. PcFact1(w)
  BY PcNow DEF PcFacts
<1>2. Top(w).pc \notin HolderPc \cup {"release", "runStolenTask", "inject", "woken"} \cup WorkPc \cup StopPc
  BY DEF Dozes, SleepPc, HolderPc, WorkPc, BodyPc, StopPc
<1>3. Pending(w) => Naps[w] = "task"
  BY <1>2 DEF Pending, At
<1> QED  BY <1>1, <1>2, <1>3, NoJobs DEF Dozes, PcFact1, Heads, arrays, bunk

(* A sleeper that goes on sleeping keeps Orderly.                          *)
LEMMA SleepOnInv ==
  ASSUME Orderly, Advance, NEW w \in Worker, Dozes(w), NEW f \in Frames, Become(w, f),
         f.pc \in SleepPc, Signalled'[w] <=> Signalled[w]
  PROVE  Orderly'
<1>1. SInv /\ WaitsNow /\ Depth(w) > 0 /\ Top(w).pc \in SleepPc /\ Depth(w) \in Nat
  BY GoodParts DEF Orderly, Dozes
<1>2. /\ Held[w] = None /\ Freed[w] = None /\ Why[w] = "none" /\ w \notin Injecting
      /\ Claim[w] = (IF Pending(w) THEN injected[w] ELSE None)
      /\ Heads' = Heads /\ stealer' = stealer /\ UNCHANGED <<arrays, history>>
      /\ UNCHANGED <<injected, sleepers, stopped>>
      /\ JobOf(Top(w)) = NoJob /\ Top(w).pc \notin StopPc
  BY <1>1, DozeViews
<1>3. f.pc \notin HolderPc \cup {"release", "runStolenTask", "inject", "woken"} \cup WorkPc \cup WaitPc
                       \cup {"randomSteal"}
  BY DEF SleepPc, HolderPc, WorkPc, BodyPc, WaitPc
<1>4. JobOf(f) = NoJob /\ Knows(w, f, stealer') /\ Ready(w, f, stealer')
  BY <1>3, NoJobs
<1>5. /\ Steps(w) /\ Depth(w)' = Depth(w) /\ Top(w)' = f
      /\ \A l \in 1..(Depth(w) - 1) : stack'[w][l] = stack[w][l]
  BY <1>1, JobBecome
<1>6. Job' = Job
  BY <1>1, <1>2, <1>4, JobQuiet
<1>7. Local(w) /\ Waits(w, stack'[w], stealer)
  BY <1>1, <1>2, <1>4, BecomeWaits
<1>8. PcFact1(w)'
  BY PcNext DEF PcFacts
<1>9. Depth(w) > 1 /\ Under1(w)' = Under1(w)
  <2>1. Depth(w) > 1
    BY <1>1, SleepsFor
  <2> QED  BY <1>1, <1>5, <2>1 DEF Under1
<1>10. Naps'[w] = Naps[w] /\ Awaits'[w] = Awaits[w]
  <2>1. Naps'[w] = Naps[w]
    BY <1>1, <1>5, <1>9 DEF Naps
  <2> QED  BY <1>9, <2>1 DEF Awaits
<1>11. Pending(w)' <=> Pending(w)
  <2>1. Listed(w)' <=> Listed(w)
    BY <1>2 DEF Listed
  <2>2. \A u \in Worker : Held'[u] = Held[u]
    BY <1>1, <1>2, <1>3, <1>5, <1>8, OtherViews DEF PcFact1
  <2>3. At(w, "woken")' <=> At(w, "woken")
    BY <1>1, <1>3, <1>5 DEF At, SleepPc
  <2> QED  BY <1>2, <1>10, <2>1, <2>2, <2>3 DEF Pending
<1>12. /\ Held'[w] = None /\ Freed'[w] = None /\ Why'[w] = "none"
       /\ Claim'[w] = (IF Pending(w)' THEN injected'[w] ELSE None)
  BY <1>1, <1>3, <1>5, <1>8 DEF PcFact1
<1>13. Claim'[w] = Claim[w]
  BY <1>2, <1>11, <1>12
<1>14. \A u \in Worker :
         /\ Held'[u] = Held[u] /\ Freed'[u] = Freed[u] /\ Why'[u] = Why[u] /\ Naps'[u] = Naps[u]
         /\ Awaits'[u] = Awaits[u] /\ (Signalled'[u] <=> Signalled[u])
         /\ (At(u, "woken")' => At(u, "woken"))
  <2>1. ~At(w, "woken")'
    BY <1>3, <1>5 DEF At
  <2> QED  BY <1>2, <1>5, <1>10, <1>12, <2>1, OtherViews DEF Dozes
<1>15. CASE ~stopped
  <2>1. Tokens(sleepers, Held, Freed, Why, Naps, Awaits, Signalled, stealer)
    BY <1>15 DEF Orderly, TokensNow
  <2>2. sleepers \in Seq(Worker)
    BY <1>1 DEF SInv, TypeOK
  <2>3. Tokens(sleepers, Held', Freed', Why', Naps', Awaits', Signalled', stealer)
    BY <1>14, <2>1, <2>2, TokensKeep
  <2> QED  BY <1>2, <1>6, <1>7, <1>11, <1>13, <1>14, <1>15, <2>3, LoudQuiet
<1>16. CASE stopped
  <2>1. Stops'
    BY <1>2, <1>6, <1>7, <1>14, <1>16, StopsStay
  <2> QED  BY <1>2, <1>3, <1>5, <1>6, <1>7, <1>16, <2>1, StoppedStep DEF HolderPc
<1> QED  BY <1>15, <1>16

(* The sleep is over.                                                      *)
LEMMA WakesInv ==
  ASSUME Orderly, Advance, NEW w \in Worker, Dozes(w), Return(w), Signalled[w], semaphore'[w] = 0
  PROVE  Orderly'
<1>1. SInv /\ WaitsNow /\ Depth(w) > 0 /\ Top(w).pc \in SleepPc /\ Depth(w) \in Nat
  BY GoodParts DEF Orderly, Dozes
<1>2. /\ Held[w] = None /\ Freed[w] = None /\ Why[w] = "none" /\ w \notin Injecting
      /\ Claim[w] = (IF Pending(w) THEN injected[w] ELSE None)
      /\ (Pending(w) => Naps[w] = "task")
      /\ Heads' = Heads /\ stealer' = stealer /\ UNCHANGED <<arrays, history>>
      /\ UNCHANGED <<injected, sleepers, stopped>>
      /\ JobOf(Top(w)) = NoJob /\ Top(w).pc \notin StopPc
  BY <1>1, DozeViews
<1>3. /\ Depth(w) > 1 /\ Under1(w).pc \in {"popStolen", "woken"}
      /\ Under1(w).pc = "popStolen" =>
              \E i \in Slot : Under1(w).ref = <<w, i>> /\ i < Heads[w]
  BY <1>1, SleepsFor
<1>4. NapFact1(w) /\ PcFact1(w)'
  BY NapNow, PcNext DEF NapFacts, PcFacts
<1>5. ASSUME Under1(w).pc = "popStolen"
      PROVE  ~stopped /\ Ready(w, Under1(w), stealer)
  <2>1. PICK i \in Slot : Under1(w).ref = <<w, i>> /\ i < Heads[w]
    BY <1>3, <1>5
  <2>2. ~stopped
    BY <2>1, AfterStop
  <2>3. Naps[w] = "end" /\ Awaits[w] = <<w, i>>
    BY <1>1, <1>3, <1>4, <1>5, <2>1 DEF NapFact1
  <2>4. stealer[w][i] \in {w, "finished"} /\ stealer[w][i] # w
    BY <2>2, <2>3 DEF Orderly, TokensNow, Tokens
  <2> QED  BY <2>1, <2>2, <2>4 DEF Ready
<1>6. Ready(w, Under1(w), stealer')
  BY <1>2, <1>3, <1>5 DEF Ready
<1>7. Steps(w) /\ Depth(w)' = Depth(w) - 1 /\ Top(w)' = Under1(w) /\ Depth(w)' > 0
  BY <1>1, <1>3, JobReturn
<1>8. Job' = Job
  BY <1>1, <1>2, JobQuiet
<1>9. Local(w) /\ Waits(w, stack'[w], stealer)
  BY <1>1, <1>2, <1>6, ReturnWaits
<1>10. /\ Held'[w] = None /\ Freed'[w] = None /\ Why'[w] = "none" /\ Naps'[w] = "no"
       /\ Awaits'[w] = None /\ ~Signalled'[w]
       /\ Claim'[w] = (IF Pending(w)' THEN injected'[w] ELSE None)
  BY <1>3, <1>4, <1>7 DEF PcFact1, HolderPc, SleepPc
<1>11. Pending(w)' => Pending(w)
  <2>1. SUFFICES ASSUME Pending(w)'  PROVE Pending(w)
    OBVIOUS
  <2>2. At(w, "woken")'
    BY <1>10, <2>1 DEF Pending
  <2>3. Naps[w] = "task"
    BY <1>1, <1>3, <1>4, <1>7, <2>2 DEF NapFact1, At
  <2>4. Listed(w)' <=> Listed(w)
    BY <1>2 DEF Listed
  <2>5. \A u \in Worker : Held'[u] = Held[u]
    BY <1>2, <1>7, <1>10, OtherViews
  <2> QED  BY <1>2, <2>1, <2>3, <2>4, <2>5 DEF Pending
<1>12. Claim'[w] \in {None, Claim[w]}
  BY <1>2, <1>10, <1>11
<1>13. \A u \in Worker \ {w} :
         /\ Freed'[u] = Freed[u] /\ (Signalled'[u] <=> Signalled[u])
         /\ (At(u, "woken")' => At(u, "woken"))
  BY <1>7, OtherViews DEF Dozes
<1>15. CASE ~stopped
  <2>1. Tokens(sleepers, Held, Freed, Why, Naps, Awaits, Signalled, stealer)
    BY <1>15 DEF Orderly, TokensNow
  <2>2. sleepers \in Seq(Worker)
    BY <1>1 DEF SInv, TypeOK
  <2>3. SameViews(w, Held, Freed, Why, Naps, Awaits, Signalled,
                     Held', Freed', Why', Naps', Awaits', Signalled')
    BY <1>7, OthersSame DEF Dozes
  <2>4. Tokens(sleepers, Held', Freed', Why', Naps', Awaits', Signalled', stealer)
    BY <1>2, <1>10, <2>1, <2>2, <2>3, TokensTake
  <2> QED  BY <1>2, <1>8, <1>9, <1>10, <1>11, <1>12, <1>15, <2>4, LoudQuiet
<1>16. CASE stopped
  <2>1. w \notin Range(Untold)
    BY <1>16 DEF Orderly, Stops
  <2>2. \A v \in Worker : /\ Freed'[v] = Freed[v] \/ Freed'[v] = None
                          /\ Signalled'[v] => Signalled[v]
                          /\ At(v, "woken")' => At(v, "woken") \/ v \notin Range(Untold)
    BY <1>10, <1>13, <2>1
  <2>3. Stops'
    BY <1>2, <1>8, <1>9, <1>16, <2>2, StopsStay
  <2> QED  BY <1>2, <1>3, <1>7, <1>8, <1>9, <1>16, <2>3, StoppedStep
<1> QED  BY <1>15, <1>16

(* One semaphore is written.                                               *)
LEMMA SemaphoreIs ==
  ASSUME SInv, NEW w \in Worker, NEW x, semaphore' = [semaphore EXCEPT ![w] = x]
  PROVE  semaphore'[w] = x /\ \A u \in Worker \ {w} : semaphore'[u] = semaphore[u]
<1>1. semaphore \in [Worker -> {-1, 0, 1}]
  BY DEF SInv, TypeOK
<1> QED  BY <1>1

(* The sleep goes on elsewhere, as much signalled as before.               *)
LEMMA SleepJump ==
  ASSUME Orderly, Advance, NEW w \in Worker, Dozes(w), NEW pc \in SleepPc, Jump(w, pc),
         (semaphore'[w] = 1 \/ pc = "reset") <=> (semaphore[w] = 1 \/ At(w, "reset"))
  PROVE  Orderly'
<1>1. SInv /\ Depth(w) > 0 /\ Depth(w) \in Nat
  BY GoodParts DEF Orderly, Dozes
<1>2. PICK g \in Frames : g = Top(w)
  BY <1>1, GoodParts
<1>3. pc \in Pc
  BY DEF Pc, SleepPc
<1>4. PICK f \in Frames : f = [g EXCEPT !.pc = pc] /\ f.pc = pc
  BY <1>3, JumpFrame
<1>5. Become(w, f)
  BY <1>2, <1>4 DEF Jump
<1>6. Depth(w)' = Depth(w) /\ Top(w)' = f
  BY <1>1, <1>5, JobBecome
<1>7. At(w, "reset")' <=> pc = "reset"
  BY <1>1, <1>4, <1>6 DEF At
<1>8. Signalled[w] <=> (semaphore[w] = 1 \/ At(w, "reset"))
  BY Muted DEF MutedFacts, Muted1
<1>9. Signalled'[w] <=> (semaphore'[w] = 1 \/ At(w, "reset")')
  BY MutedNext DEF MutedFacts, Muted1
<1>10. Signalled'[w] <=> Signalled[w]
  BY <1>7, <1>8, <1>9
<1> QED  BY <1>4, <1>5, <1>10, SleepOnInv

(* Acquire keeps Orderly.                                                  *)
LEMMA AcquireInv ==
  ASSUME Orderly, Advance, NEW w \in Worker, Acquire(w)
  PROVE  Orderly'
<1>1. SInv /\ semaphore[w] \in {-1, 0, 1}
  <2>1. SInv
    BY DEF Orderly
  <2> QED  BY <2>1 DEF SInv, TypeOK
<1>2. Depth(w) > 0 /\ Top(w).pc \in SleepPc
  BY DEF Acquire, At, SleepPc
<1>3. \A u \in Worker \ {w} : semaphore'[u] = semaphore[u]
  BY <1>1, SemaphoreIs DEF Acquire
<1>4. Dozes(w)
  BY <1>2, <1>3 DEF Acquire, Dozes
<1>5. Signalled[w] <=> (semaphore[w] = 1 \/ At(w, "reset"))
  BY Muted DEF MutedFacts, Muted1
<1>6. CASE /\ At(w, "acquire") /\ semaphore[w] = 1
           /\ semaphore' = [semaphore EXCEPT ![w] = 0] /\ Return(w)
  BY <1>1, <1>4, <1>5, <1>6, SemaphoreIs, WakesInv
<1>7. CASE At(w, "reset") /\ semaphore' = [semaphore EXCEPT ![w] = 0] /\ Return(w)
  BY <1>1, <1>4, <1>5, <1>7, SemaphoreIs, WakesInv
<1>8. CASE At(w, "acquire") /\ semaphore[w] # 1 /\ Jump(w, "acquireSlow") /\ UNCHANGED semaphore
  <2>1. ~At(w, "reset") /\ "acquireSlow" \in SleepPc
    BY <1>8 DEF At, SleepPc
  <2> QED  BY <1>4, <1>8, <2>1, SleepJump
<1>9. CASE /\ At(w, "acquireSlow") /\ semaphore' = [semaphore EXCEPT ![w] = -1]
           /\ Jump(w, IF semaphore[w] = 1 THEN "reset" ELSE "asleep")
  <2>1. ~At(w, "reset") /\ semaphore'[w] = -1
    BY <1>1, <1>9, SemaphoreIs DEF At
  <2>2. PICK pc \in SleepPc : pc = IF semaphore[w] = 1 THEN "reset" ELSE "asleep"
    BY DEF SleepPc
  <2> QED  BY <1>4, <1>9, <2>1, <2>2, SleepJump
<1> QED  BY <1>6, <1>7, <1>8, <1>9 DEF Acquire

(* Wake keeps Orderly.                                                     *)
LEMMA WakeInv ==
  ASSUME Orderly, Advance, NEW w \in Worker, WakeUp(w) \/ SpuriousWakeUp(w)
  PROVE  Orderly'
<1>1. Dozes(w) /\ ~At(w, "reset") /\ semaphore'[w] = semaphore[w]
  BY DEF WakeUp, SpuriousWakeUp, Dozes, At, SleepPc
<1>2. PICK pc \in SleepPc : pc = (IF semaphore[w] = 1 THEN "reset" ELSE "asleep") /\ Jump(w, pc)
  BY DEF WakeUp, SpuriousWakeUp, SleepPc
<1> QED  BY <1>1, <1>2, SleepJump

(* The loop of a worker is the bottom of its stack.                        *)
LEMMA ThreadBottom ==
  ASSUME SInv, NEW w \in Worker, Depth(w) > 0, Top(w).pc \in ThreadPc
  PROVE  Depth(w) = 1
<1>1. Depth(w) \in Nat
  BY GoodParts
<1>2. SUFFICES ASSUME Depth(w) > 1  PROVE FALSE
  BY <1>1
<1>3. MayCall(Under1(w), Top(w))
  BY <1>2, Caller
<1> QED  BY <1>3 DEF MayCall, BodyPc, WaitPc, ShrinkPc, PushPc, GrowPc, PublishPc,
              ReleasePc, TakenPc, SleepPc, ThreadPc

(* A worker puts itself on the stack of sleepers.                          *)
LEMMA NapInv ==
  ASSUME Orderly, Advance, NEW w \in Worker, RunWorker(w), At(w, "waitForNewTask")
  PROVE  Orderly'
<1>1. /\ SInv /\ WaitsNow /\ Depth(w) > 0 /\ Top(w).pc = "waitForNewTask" /\ Top(w) \in Frames
      /\ sleepers \in Seq(Worker) /\ Depth(w) \in Nat
  <2>1. SInv /\ WaitsNow
    BY DEF Orderly
  <2> QED  BY <2>1, AtTop, GoodParts DEF SInv, TypeOK
<1>2. /\ sleepers' = <<w>> \o sleepers
      /\ CallThen(w, Frame("acquire"), "woken")
      /\ UNCHANGED <<deque, arrays, signals, haveJobs, stopped, history>>
  BY <1>1 DEF RunWorker, At
<1>3. Heads' = Heads /\ UNCHANGED <<arrays, history>> /\ stealer' = stealer
      /\ injected' = injected /\ semaphore' = semaphore /\ stopped' = stopped
  BY <1>2 DEF Heads, signals, arrays
<1>4. PICK f \in Frames : f = Frame("acquire") /\ f.pc = "acquire"
  <2>1. "acquire" \in Pc
    BY DEF Pc, SleepPc
  <2> QED  BY <2>1, NewFrames
<1>5. PICK b \in Frames : b = [Top(w) EXCEPT !.pc = "woken"] /\ b.pc = "woken"
  <2>1. "woken" \in Pc
    BY DEF Pc, ThreadPc
  <2> QED  BY <1>1, <2>1, JumpFrame
<1>6. Call(w, f, b)
  BY <1>2, <1>4, <1>5 DEF CallThen
<1>7. /\ JobOf(Top(w)) = NoJob /\ JobOf(f) = NoJob /\ JobOf(b) = NoJob
      /\ Knows(w, f, stealer') /\ Ready(w, f, stealer') /\ Knows(w, b, stealer')
  BY <1>1, <1>4, <1>5, NoJobs DEF WorkPc, BodyPc, WaitPc
<1>8. /\ Job' = Job /\ Steps(w) /\ Depth(w)' = Depth(w) + 1 /\ Top(w)' = f /\ Under1(w)' = b
  BY <1>1, <1>6, <1>7, JobQuiet, JobCall
<1>9. Local(w) /\ Waits(w, stack'[w], stealer)
  <2>1. Local(w) /\ Waits(w, stack'[w], stealer')
    BY <1>1, <1>3, <1>6, <1>7, CallWaits
  <2> QED  BY <1>3, <2>1
<1>10. Top(w).pc \notin StopPc \cup LoudPc
  BY <1>1 DEF StopPc, LoudPc, HolderPc, SleepPc
<1>11. /\ Held[w] = None /\ Freed[w] = None /\ Why[w] = "none" /\ Naps[w] = "no"
       /\ Awaits[w] = None /\ Claim[w] = None /\ w \notin Injecting /\ ~Pending(w)
       /\ (Signalled[w] <=> semaphore[w] = 1)
  BY <1>1, <1>10, NoViews
<1>12. /\ Held'[w] = None /\ Freed'[w] = None /\ Why'[w] = "none" /\ Naps'[w] = "task"
       /\ Claim'[w] = (IF Pending(w)' THEN injected'[w] ELSE None)
       /\ (Signalled'[w] <=> semaphore'[w] = 1)
  <2>1. PcFact1(w)' /\ NapFact1(w)'
    BY PcNext, NapNext DEF PcFacts, NapFacts
  <2>2. Depth(w)' > 0 /\ Depth(w)' > 1 /\ Top(w)'.pc = "acquire" /\ Under1(w)'.pc = "woken"
    BY <1>1, <1>4, <1>5, <1>8
  <2>3. Naps'[w] = "task"
    BY <2>1, <2>2 DEF NapFact1, SleepPc
  <2>4. Held'[w] = None /\ Freed'[w] = None /\ Why'[w] = "none"
    BY <2>1, <2>2 DEF PcFact1, HolderPc
  <2>5. /\ Claim'[w] = (IF Pending(w)' THEN injected'[w] ELSE None)
        /\ (Signalled'[w] <=> semaphore'[w] = 1)
    BY <2>1, <2>2 DEF PcFact1
  <2> QED  BY <2>3, <2>4, <2>5
<1>13. SameViews(w, Held, Freed, Why, Naps, Awaits, Signalled,
                    Held', Freed', Why', Naps', Awaits', Signalled')
  BY <1>3, <1>8, OthersSame
<1>14. CASE ~stopped
  <2>1. Tokens(sleepers', Held', Freed', Why', Naps', Awaits', Signalled', stealer)
    <3>1. Tokens(sleepers, Held, Freed, Why, Naps, Awaits, Signalled, stealer)
      BY <1>14 DEF Orderly, TokensNow
    <3>2. \A u \in Worker : Why[u] # "no"
      BY NapNow DEF NapFacts, NapFact1
    <3>3. Signalled'[w] <=> Signalled[w]
      BY <1>3, <1>11, <1>12
    <3> QED  BY <1>1, <1>2, <1>11, <1>12, <1>13, <3>1, <3>2, <3>3, TokensNap
  <2>2. /\ Len(sleepers') = Len(sleepers) + 1 /\ sleepers' \in Seq(Worker) /\ Len(sleepers) \in Nat
        /\ sleepers'[1] = w /\ \A k \in 1..Len(sleepers) : sleepers'[k + 1] = sleepers[k]
    BY <1>1, <1>2
  <2>3. ~Pending(w)'
    <3>1. 1 \in DOMAIN sleepers'
      BY <2>2
    <3> QED  BY <2>2, <3>1 DEF Pending, Listed
  <2>4. \A u \in Worker : Pending(u)' => Pending(u)
    <3> SUFFICES ASSUME NEW u \in Worker, Pending(u)'  PROVE Pending(u)
      OBVIOUS
    <3>1. u # w
      BY <2>3
    <3>2. Naps'[u] = Naps[u] /\ (At(u, "woken")' <=> At(u, "woken"))
      BY <1>8, <3>1, OtherViews
    <3>3. ~Listed(u)
      <4> SUFFICES ASSUME NEW k \in 1..Len(sleepers), sleepers[k] = u  PROVE Listed(u)'
        BY <1>1 DEF Listed, Pending
      <4>1. k + 1 \in DOMAIN sleepers' /\ sleepers'[k + 1] = u
        BY <2>2
      <4> QED  BY <4>1 DEF Listed
    <3>4. \A z \in Worker : Held[z] # u
      BY <1>11, <1>12, <1>13 DEF Pending, SameViews
    <3> QED  BY <1>14, <3>2, <3>3, <3>4 DEF Pending
  <2>5. ClaimsNow'
    BY <1>3, <1>8, <1>12, <2>3, <2>4, ClaimsFewer
  <2> QED  BY <1>3, <1>8, <1>9, <1>10, <1>14, <2>1, <2>5, LoudCalm
<1>15. CASE stopped
  <2>1. \A u \in Worker : /\ Freed'[u] = Freed[u]
                          /\ Signalled'[u] => Signalled[u]
                          /\ At(u, "woken")' => At(u, "woken")
    <3> SUFFICES ASSUME NEW u \in Worker
                 PROVE  /\ Freed'[u] = Freed[u]
                        /\ Signalled'[u] => Signalled[u]
                        /\ At(u, "woken")' => At(u, "woken")
      OBVIOUS
    <3>1. CASE u = w
      BY <1>3, <1>4, <1>8, <1>11, <1>12, <3>1 DEF At
    <3>2. CASE u # w
      BY <1>3, <1>8, <3>2, OtherViews
    <3> QED  BY <3>1, <3>2
  <2>2. Stops'
    BY <1>3, <1>8, <1>9, <1>10, <1>15, <2>1, StopsStay
  <2> QED  BY <1>3, <1>4, <1>8, <1>9, <1>15, <2>2, StoppedStep
<1> QED  BY <1>14, <1>15

(* It is told what to do.                                                  *)
LEMMA WokenInv ==
  ASSUME Orderly, Advance, NEW w \in Worker, RunWorker(w), At(w, "woken")
  PROVE  Orderly'
<1>1. /\ SInv /\ WaitsNow /\ Depth(w) > 0 /\ Top(w).pc = "woken" /\ Top(w) \in Frames
      /\ injected \in [Worker -> Ref \cup {None}] /\ Depth(w) \in Nat /\ Depth(w) = 1
  <2>1. SInv /\ WaitsNow
    BY DEF Orderly
  <2>2. Depth(w) > 0 /\ Top(w).pc = "woken"
    BY DEF At
  <2> QED  BY <2>1, <2>2, GoodParts, ThreadBottom DEF SInv, TypeOK, ThreadPc
<1>2. /\ \/ injected[w] = None /\ Return(w)
         \/ injected[w] # None
            /\ CallThen(w, OnSlot("runStolenTask", injected[w]), "random_steal_loop")
      /\ UNCHANGED <<deque, arrays, signals, bunk, stopped, history>>
  BY <1>1 DEF RunWorker, At
<1>3. Heads' = Heads /\ UNCHANGED <<arrays, history>> /\ stealer' = stealer
      /\ UNCHANGED <<injected, sleepers, stopped, semaphore>>
  BY <1>2 DEF Heads, signals, arrays, bunk
<1>4. JobOf(Top(w)) = NoJob /\ Top(w).pc \notin StopPc
  BY <1>1, NoJobs DEF WorkPc, BodyPc, StopPc
<1>5. /\ Held[w] = None /\ Freed[w] = None /\ Why[w] = "none" /\ Naps[w] = "no"
      /\ Awaits[w] = None /\ w \notin Injecting /\ (Signalled[w] <=> semaphore[w] = 1)
      /\ Claim[w] = (IF Pending(w) THEN injected[w] ELSE None)
  <2>1. PcFact1(w)
    BY PcNow DEF PcFacts
  <2> QED  BY <1>1, <2>1 DEF PcFact1, HolderPc, SleepPc
<1>6. CASE ~stopped
  <2>1. Tokens(sleepers, Held, Freed, Why, Naps, Awaits, Signalled, stealer)
    BY <1>6 DEF Orderly, TokensNow
  <2>2. Pending(w)
    <3>1. ~Listed(w) /\ \A u \in Worker : Held[u] # w
      <4>1. None # w
        BY StealingAssumption
      <4> QED  BY <1>5, <2>1, <4>1 DEF Tokens, Listed
    <3> QED  BY <1>6, <3>1 DEF Pending
  <2>3. injected[w] # None /\ Claim[w] = injected[w] /\ injected[w] \in Ref
    BY <1>1, <1>5, <2>2 DEF Orderly, ClaimsNow, PendOK
  <2>4. PICK r \in Ref : r = injected[w]
    BY <2>3
  <2>5. PICK f \in Frames : f = OnSlot("runStolenTask", r) /\ f.pc = "runStolenTask" /\ f.ref = r
    <3>1. "runStolenTask" \in Pc
      BY DEF Pc, TakenPc
    <3> QED  BY <2>4, <3>1, NewFrames
  <2>6. PICK b \in Frames : b = [Top(w) EXCEPT !.pc = "random_steal_loop"] /\ b.pc = "random_steal_loop"
    <3>1. "random_steal_loop" \in Pc
      BY DEF Pc, ThreadPc
    <3> QED  BY <1>1, <3>1, JumpFrame
  <2>7. Call(w, f, b)
    BY <1>2, <2>3, <2>4, <2>5, <2>6 DEF CallThen
  <2>8. /\ JobOf(f) = NoJob /\ JobOf(b) = NoJob
        /\ Knows(w, f, stealer') /\ Ready(w, f, stealer') /\ Knows(w, b, stealer')
    BY <2>5, <2>6, NoJobs DEF WorkPc, BodyPc, WaitPc
  <2>9. Job' = Job /\ Steps(w) /\ Depth(w)' = Depth(w) + 1 /\ Top(w)' = f /\ Under1(w)' = b
    BY <1>1, <1>4, <2>7, <2>8, JobQuiet, JobCall
  <2>10. Local(w) /\ Waits(w, stack'[w], stealer)
    <3>1. Local(w) /\ Waits(w, stack'[w], stealer')
      BY <1>1, <1>3, <2>7, <2>8, CallWaits
    <3> QED  BY <1>3, <3>1
  <2>11. /\ Held'[w] = None /\ Freed'[w] = None /\ Why'[w] = "none" /\ Naps'[w] = "no"
         /\ Awaits'[w] = None /\ ~Pending(w)' /\ Claim'[w] = r
         /\ (Signalled'[w] <=> semaphore'[w] = 1)
    <3>1. PcFact1(w)'
      BY PcNext DEF PcFacts
    <3>2. Depth(w)' > 0 /\ Top(w)'.pc = "runStolenTask" /\ Top(w)'.ref = r
      BY <1>1, <2>5, <2>9
    <3> QED  BY <3>1, <3>2 DEF PcFact1, HolderPc, SleepPc
  <2>12. Tokens(sleepers', Held', Freed', Why', Naps', Awaits', Signalled', stealer)
    BY <1>3, <1>5, <1>6, <2>9, <2>11, TokensSame
  <2>13. Tokens(sleepers, Held', Freed', Why', Naps', Awaits', Signalled', stealer)
    BY <1>3, <2>12
  <2> QED  BY <1>3, <1>4, <1>5, <1>6, <2>3, <2>4, <2>9, <2>10, <2>11, <2>13, LoudQuiet
<1>7. CASE stopped
  <2>1. injected[w] = None
    BY <1>1, <1>7 DEF Orderly, Stops, At
  <2>2. Return(w)
    BY <1>2, <2>1
  <2>3. Job' = Job /\ Steps(w) /\ Depth(w)' = 0
    BY <1>1, <1>4, <2>2, JobQuiet, JobReturn
  <2>4. Local(w) /\ Waits(w, stack'[w], stealer)
    <3>1. Local(w) /\ Waits(w, stack'[w], stealer')
      BY <1>1, <1>3, <2>2, ReturnWaits
    <3> QED  BY <1>3, <3>1
  <2>5. \A u \in Worker : /\ Freed'[u] = Freed[u]
                          /\ Signalled'[u] => Signalled[u]
                          /\ At(u, "woken")' => At(u, "woken")
    <3> SUFFICES ASSUME NEW u \in Worker
                 PROVE  /\ Freed'[u] = Freed[u]
                        /\ Signalled'[u] => Signalled[u]
                        /\ At(u, "woken")' => At(u, "woken")
      OBVIOUS
    <3>1. CASE u = w
      <4>1. \A pc : ~At(w, pc)'
        BY <2>3 DEF At
      <4>2. Freed'[w] = None /\ (Signalled'[w] <=> semaphore'[w] = 1)
        BY <4>1, MutedNext DEF MutedFacts, Muted1
      <4> QED  BY <1>3, <1>5, <3>1, <4>1, <4>2
    <3>2. CASE u # w
      BY <1>3, <2>3, <3>2, OtherViews
    <3> QED  BY <3>1, <3>2
  <2>6. Stops'
    BY <1>3, <1>4, <1>7, <2>3, <2>4, <2>5, StopsStay
  <2> QED  BY <1>3, <1>7, <2>3, <2>4, <2>6, StoppedStep
<1> QED  BY <1>6, <1>7

(* RunWorker keeps Orderly.                                                *)
LEMMA RunWorkerInv ==
  ASSUME Orderly, Advance, NEW w \in Worker, RunWorker(w)
  PROVE  Orderly'
<1>1. At(w, "run_worker") \/ At(w, "waitForNewTask") \/ At(w, "woken")
  BY DEF RunWorker
<1> QED  BY <1>1, RunWorkerCalm, NapInv, WokenInv

(* The shutdown tells every worker.                                        *)
LEMMA EveryWorkerTold ==
  Range(SetToSeq(Worker)) = Worker
<1> DEFINE n == Cardinality(Worker)
           f == SetToSeq(Worker)
<1>1. n \in Nat /\ ExistsBijection(1..n, Worker) /\ IsFiniteSet(Worker)
  BY StealingAssumption, FS_CardinalityType
<1>2. PICK g \in [1..n -> Worker] : IsInjective(g)
  BY <1>1 DEF ExistsBijection, Bijection, Injection
<1>3. f \in [1..n -> Worker] /\ IsInjective(f)
  BY <1>2 DEF SetToSeq
<1>4. f \in Injection(1..n, Worker)
  BY <1>3 DEF Injection
<1>5. Cardinality(1..n) = n
  <2>1. 1 \in Int /\ n \in Int
    BY <1>1
  <2>2. Cardinality(1..n) = IF 1 > n THEN 0 ELSE n - 1 + 1
    BY <2>1, FS_Interval
  <2> HIDE DEF n
  <2> QED  BY <1>1, <2>2
<1>6. f \in Surjection(1..n, Worker)
  BY <1>1, <1>4, <1>5, FS_Injection
<1> HIDE DEF f, n
<1>7. \A w \in Worker : \E i \in 1..n : f[i] = w
  BY <1>6 DEF Surjection
<1>8. DOMAIN f = 1..n /\ \A i \in 1..n : f[i] \in Worker
  BY <1>3
<1>9. Range(f) = Worker
  BY <1>7, <1>8 DEF Range
<1> QED  BY <1>9 DEF f

(* Only Main stops the workers, with nothing else on its stack.            *)
LEMMA StopTop ==
  ASSUME SInv, NEW w \in Worker, Depth(w) > 0, Top(w).pc \in StopPc
  PROVE  /\ w = Main /\ Depth(w) = 1 /\ Top(w) = stack[Main][1] /\ Top(w) \in Frames
         /\ FrameOK(Top(w)) /\ JobOf(Top(w)) = NoJob
<1>1. /\ Depth(w) \in Nat /\ Depth(w) \in Levels(w) /\ Top(w) \in Frames /\ FrameOK(Top(w))
      /\ Chain(w, stack[w])
  BY GoodParts DEF Shape
<1>2. Depth(w) = 1
  <2>1. Depth(w) # 1 => Depth(w) \in 2..Len(stack[w])
    <3>1. PICK n \in Nat : n = Depth(w) /\ n = Len(stack[w]) /\ n > 0
      BY <1>1 DEF Depth
    <3>2. n > 0 /\ n # 1 => n \in 2..n
      OBVIOUS
    <3> QED  BY <3>1, <3>2
  <2> QED  BY <1>1, <2>1 DEF Chain, Top
<1>3. AtBottom(w, Top(w))
  BY <1>1, <1>2 DEF Chain, Depth, Top
<1>4. w = Main
  BY <1>3 DEF AtBottom, StopPc, ThreadPc
<1>5. JobOf(Top(w)) = NoJob
  BY NoJobs DEF WorkPc, BodyPc, StopPc
<1> QED  BY <1>1, <1>2, <1>4, <1>5 DEF Top

(* When the root call has returned, every call that was made has, too.     *)
LEMMA NothingRuns ==
  ASSUME Orderly, Depth(Main) = 1, stack[Main][1].pc \in StopPc
  PROVE  \A v \in Worker, l \in Nat : ~IsBody(Job, v, l)
<1>1. WorkNow /\ TreeOK(Job, begun, done) /\ Main \in Worker /\ Root \in Task
  BY StealingAssumption DEF Orderly, WorkNow, Work
<1>2. \A l \in Nat : ~IsBody(Job, Main, l)
  <2> SUFFICES ASSUME NEW l \in Nat, IsBody(Job, Main, l)  PROVE FALSE
    OBVIOUS
  <2>1. l = 1 /\ stack[Main][l].pc \in BodyPc
    BY <1>1, BodyAt DEF Levels
  <2> QED  BY <2>1 DEF BodyPc, StopPc
<1>3. \A v \in Worker, l \in Nat : IsBody(Job, v, l) =>
        /\ Job[v][l].task \in Task /\ begun[Job[v][l].task] = 1 /\ Job[v][l].task \notin done
        /\ Job[v][l].task = Root => v = Main
  BY <1>1 DEF WorkNow, Work, BodyOK
<1>4. Root \in done
  <2> SUFFICES ASSUME Root \notin done  PROVE FALSE
    OBVIOUS
  <2>1. PICK v \in Worker, l \in Nat : Runs(Job, v, l, Root)
    BY <1>1 DEF TreeOK
  <2> QED  BY <1>2, <1>3, <2>1 DEF Runs
<1> DEFINE S == {t \in Task : begun[t] = 1 /\ t \notin done}
<1>5. S = {}
  <2> SUFFICES ASSUME S # {}  PROVE FALSE
    OBVIOUS
  <2>1. S \in SUBSET (Task \ {Root})
    BY <1>4
  <2>2. PICK t \in S : \A p \in S : t \notin Range(Calls[p])
    BY <2>1, TreeAssumption
  <2>3. PICK p \in Task : begun[p] = 1 /\ t \in Spawned(p)
    BY <1>1, <2>1, <2>2 DEF TreeOK
  <2>4. t \in Range(Calls[p])
    BY <2>3 DEF Spawned, Tree!Spawned, Tree!Range, Range
  <2>5. p \in done
    BY <2>2, <2>3, <2>4
  <2>6. t \in done
    BY <1>1, <2>3, <2>5 DEF TreeOK
  <2> QED  BY <2>2, <2>6
<1> QED  BY <1>3, <1>5

(* Nobody is about to be woken any more.                                   *)
LEMMA NobodyExpects ==
  ASSUME Orderly, ~stopped, \A v \in Worker, l \in Nat : ~IsBody(Job, v, l), NEW w \in Worker
  PROVE  Freed[w] = None /\ ~Signalled[w] /\ ~At(w, "woken")
<1>1. SInv /\ Tokens(sleepers, Held, Freed, Why, Naps, Awaits, Signalled, stealer)
  BY DEF Orderly, TokensNow
<1>2. None \notin Worker
  BY StealingAssumption
<1>3. \A v \in Worker : Claim[v] = None /\ \A i \in Slot : ~(i < Heads[v])
  BY Idle
<1>4. \A v \in Worker : Naps[v] # "end"
  <2> SUFFICES ASSUME NEW v \in Worker, Naps[v] = "end"  PROVE FALSE
    OBVIOUS
  <2>1. Depth(v) > 1 /\ Top(v).pc \in SleepPc /\ Under1(v).pc # "woken"
    BY NapIsSleep
  <2>2. Depth(v) > 0
    BY <1>1, <2>1, GoodParts
  <2>3. Under1(v).pc = "popStolen"
    BY <1>1, <2>1, <2>2, SleepsFor
  <2>4. \E i \in Slot : i < Heads[v]
    BY <1>1, <2>1, <2>2, <2>3, SleepsFor
  <2> QED  BY <1>3, <2>4
<1>5. \A v \in Worker : ~Pending(v) /\ ~At(v, "woken")
  <2> SUFFICES ASSUME NEW v \in Worker, Pending(v) \/ At(v, "woken")  PROVE FALSE
    OBVIOUS
  <2>1. PcFact1(v)
    BY PcNow DEF PcFacts
  <2>2. Pending(v)
    <3> SUFFICES ASSUME At(v, "woken")  PROVE Pending(v)
      OBVIOUS
    <3>1. Naps[v] = "no"
      BY <2>1 DEF PcFact1, At, SleepPc
    <3>2. ~Listed(v) /\ \A u \in Worker : Held[u] # v
      BY <1>1, <1>2, <3>1 DEF Tokens, Listed
    <3> QED  BY <3>2 DEF Pending
  <2>3. injected[v] # None
    BY <2>2 DEF Orderly, ClaimsNow, PendOK
  <2>4. Depth(v) > 0 /\ Top(v).pc \in SleepPc \cup {"woken"}
    <3>1. Depth(v) \in Nat
      BY <1>1, GoodParts
    <3> QED  BY <2>2, <3>1 DEF Pending, Naps, At
  <2>5. Claim[v] = injected[v]
    BY <2>1, <2>2, <2>4 DEF PcFact1, SleepPc
  <2> QED  BY <1>3, <2>3, <2>5
<1>6. Freed[w] = None
  <2> SUFFICES ASSUME Freed[w] # None  PROVE FALSE
    OBVIOUS
  <2>1. Freed[w] \in Worker /\ Naps[Freed[w]] = Why[w]
    BY <1>1 DEF Tokens
  <2>2. At(w, "release")
    BY DEF Freed
  <2>3. Why[w] = "task"
    BY <1>4, <2>1, <2>2 DEF Why
  <2>4. Under1(w).pc = "injectNext"
    BY <2>2, <2>3 DEF Why
  <2>5. Depth(w) > 0 /\ Top(w).pc = "release"
    BY <2>2 DEF At
  <2>6. Depth(w) > 1
    BY <1>1, <2>5, UnderTop DEF StopPc, ThreadPc
  <2>7. /\ Depth(w) \in Nat /\ deque[w] \in Deque /\ Fits(deque[w], Top(w))
        /\ Owned(deque[w], stack[w])
    BY <1>1, <2>5, GoodParts
  <2>8. Depth(w) - 1 \in 1..Len(stack[w]) /\ stack[w][Depth(w) - 1].pc = "injectNext"
    BY <2>4, <2>6, <2>7 DEF Depth, Under1
  <2>9. Injects(deque[w], Under1(w)) /\ Under1(w) \in Frames
    BY <1>1, <2>6, <2>7, <2>8, Caller DEF Owned, Under1
  <2>10. Rested(deque[w])
    BY <2>5, <2>7 DEF Fits, Moving
  <2>11. /\ deque[w].head \in Nat /\ deque[w].splitCopy \in Nat /\ Under1(w).t \in Nat
    <3>1. deque[w].head \in Nat /\ deque[w].splitCopy \in 0..kTaskArraySize /\ kTaskArraySize \in Nat
      BY <2>7, StealingAssumption DEF Deque
    <3> QED  BY <2>9, <3>1, FrameFields
  <2>12. deque[w].head > 0
    BY <2>9, <2>10, <2>11 DEF Injects, Rested
  <2>13. 0 \in Slot /\ 0 < Heads[w]
    BY <2>11, <2>12, StealingAssumption DEF Slot, Heads
  <2> QED  BY <1>3, <2>13
<1>7. ~Signalled[w]
  <2> SUFFICES ASSUME Signalled[w]  PROVE FALSE
    OBVIOUS
  <2>1. Naps[w] # "no"
    BY <1>1 DEF Tokens
  <2>2. Naps[w] = "task"
    BY <1>4, <2>1 DEF Naps
  <2>3. ~Listed(w) /\ \A u \in Worker : Held[u] # w
    BY <1>1, <1>2 DEF Tokens, Listed
  <2>4. Pending(w)
    BY <2>2, <2>3 DEF Pending
  <2> QED  BY <1>5, <2>4
<1> QED  BY <1>5, <1>6, <1>7

(* The steps of the shutdown: what they leave alone.                       *)
Stopping(w) == /\ Depth(w) > 0 /\ Top(w).pc \in StopPc /\ stopped'
               /\ UNCHANGED <<deque, arrays, semaphore, notified, bunk, history>>
               /\ Local(w) /\ Job' = Job /\ Waits(w, stack'[w], stealer)
               /\ Depth(w)' > 0 => Top(w)'.pc \in {"stopping", "release"}

(* The shutdown changes no view but what it frees.                         *)
LEMMA StoppingViews ==
  ASSUME Orderly, NEW w \in Worker, Stopping(w)
  PROVE  /\ w = Main /\ Depth(w) = 1 /\ Top(w) = stack[Main][1]
         /\ (Signalled[w] <=> semaphore[w] = 1) /\ Freed[w] = None /\ ~At(w, "woken")
         /\ \A v \in Worker : /\ Signalled'[v] <=> Signalled[v]
                              /\ At(v, "woken")' <=> At(v, "woken")
         /\ \A v \in Worker : v # Main => Freed'[v] = Freed[v]
<1>1. SInv
  BY DEF Orderly
<1>2. w = Main /\ Depth(w) = 1 /\ Top(w) = stack[Main][1]
  BY <1>1, StopTop DEF Stopping
<1>3. (Signalled[w] <=> semaphore[w] = 1) /\ Freed[w] = None /\ ~At(w, "woken") /\ ~At(w, "reset")
  <2>1. PcFact1(w)
    BY PcNow DEF PcFacts
  <2>2. Top(w).pc \notin {"release", "reset", "woken"} /\ Depth(w) > 0
    BY DEF Stopping, StopPc
  <2> QED  BY <2>1, <2>2 DEF PcFact1, At
<1>4. ~At(w, "woken")' /\ ~At(w, "reset")'
  BY DEF Stopping, At
<1>5. Signalled'[w] <=> semaphore'[w] = 1
  BY <1>4, MutedNext DEF MutedFacts, Muted1
<1>6. \A v \in Worker : /\ Signalled'[v] <=> Signalled[v]
                        /\ At(v, "woken")' <=> At(v, "woken")
  <2> SUFFICES ASSUME NEW v \in Worker
               PROVE  /\ Signalled'[v] <=> Signalled[v]
                      /\ At(v, "woken")' <=> At(v, "woken")
    OBVIOUS
  <2>1. CASE v = w
    BY <1>3, <1>4, <1>5, <2>1 DEF Stopping
  <2>2. CASE v # w
    <3>1. Steps(w)
      BY DEF Stopping, Local
    <3> QED  BY <2>2, <3>1, OtherViews DEF Stopping
  <2> QED  BY <2>1, <2>2
<1>7. \A v \in Worker : v # Main => Freed'[v] = Freed[v]
  <2>1. Steps(w)
    BY DEF Stopping, Local
  <2> QED  BY <1>2, <2>1, OtherViews
<1> QED  BY <1>2, <1>3, <1>6, <1>7

(* A step of the shutdown keeps Orderly when it keeps Stops.               *)
LEMMA StoppingInv ==
  ASSUME Orderly, Advance, NEW w \in Worker, Stopping(w), Stops',
         \A v \in Worker, l \in Nat : ~IsBody(Job, v, l)
  PROVE  Orderly'
<1>1. Heads' = Heads /\ UNCHANGED <<arrays, history>>
  BY DEF Stopping, Heads
<1>2. Depth(w)' > 0 => Top(w)'.pc \notin {"runStolenTask", "inject"}
  BY DEF Stopping
<1> QED  BY <1>1, <1>2, IdleStep DEF Stopping

(* The shutdown begins when the root is done: nothing runs or waits.       *)
LEMMA ShutdownInv ==
  ASSUME Orderly, Advance, NEW w \in Worker, StopWorkerThreads(w), At(w, "stopWorkerThreads")
  PROVE  Orderly'
<1>1. SInv /\ WaitsNow /\ Depth(w) > 0 /\ Top(w).pc = "stopWorkerThreads" /\ Top(w).pc \in StopPc
  BY DEF Orderly, At, StopPc
<1>2. PICK f \in Frames : /\ f = [Frame("stopping") EXCEPT !.todo = SetToSeq(Worker)]
                          /\ f.pc = "stopping" /\ f.todo = SetToSeq(Worker)
  <2>1. SetToSeq(Worker) \in Seq(Task \cup Worker \cup {None})
    <3>1. SetToSeq(Worker) \in Seq(Worker)
      BY WorkerSeq
    <3> QED  BY <3>1
  <2> DEFINE f == [Frame("stopping") EXCEPT !.todo = SetToSeq(Worker)]
  <2>2. f \in Frames /\ f.pc = "stopping" /\ f.todo = SetToSeq(Worker)
    BY <2>1 DEF Frame, Frames, Pc, StopPc
  <2> QED  BY <2>2
<1>3. /\ ~stopped /\ stopped' /\ Become(w, f)
      /\ UNCHANGED <<deque, arrays, signals, bunk, history>>
  BY <1>1, <1>2 DEF StopWorkerThreads, At
<1>4. w = Main /\ Depth(w) = 1 /\ Top(w) = stack[Main][1] /\ JobOf(Top(w)) = NoJob
  BY <1>1, StopTop
<1>5. JobOf(f) = NoJob /\ Knows(w, f, stealer') /\ Ready(w, f, stealer')
  BY <1>2, NoJobs DEF WorkPc, BodyPc, WaitPc
<1>6. Job' = Job /\ Depth(w)' = 1 /\ Top(w)' = f
  <2>1. Job' = Job
    BY <1>1, <1>3, <1>4, <1>5, JobQuiet
  <2> QED  BY <1>1, <1>3, <1>4, <2>1, JobBecome
<1>7. Local(w) /\ Waits(w, stack'[w], stealer)
  <2>1. stealer' = stealer
    BY <1>3 DEF arrays
  <2>2. Local(w) /\ Waits(w, stack'[w], stealer')
    BY <1>1, <1>3, <1>5, <2>1, BecomeWaits
  <2> QED  BY <2>1, <2>2
<1>8. Stopping(w)
  BY <1>1, <1>2, <1>3, <1>6, <1>7 DEF Stopping, signals
<1>9. \A v \in Worker, l \in Nat : ~IsBody(Job, v, l)
  <2>1. Depth(Main) = 1 /\ stack[Main][1].pc \in StopPc
    BY <1>1, <1>4
  <2> QED  BY <2>1, NothingRuns
<1>10. \A v \in Worker : Freed[v] = None /\ ~Signalled[v] /\ ~At(v, "woken")
  BY <1>3, <1>9, NobodyExpects
<1>11. \A v \in Worker : Freed'[v] = None /\ ~Signalled'[v] /\ ~At(v, "woken")'
  <2>1. \A v \in Worker : ~Signalled'[v] /\ ~At(v, "woken")'
    BY <1>8, <1>10, StoppingViews
  <2>2. \A v \in Worker : v # Main => Freed'[v] = None
    BY <1>8, <1>10, StoppingViews
  <2>3. Freed'[w] = None
    <3>1. ~At(w, "release")'
      BY <1>2, <1>6 DEF At
    <3> QED  BY <3>1, MutedNext DEF MutedFacts, Muted1
  <2> QED  BY <1>4, <2>1, <2>2, <2>3
<1>12. Untold' = SetToSeq(Worker)
  <2>1. Depth(Main)' > 0 /\ stack'[Main][1] = f
    <3>1. Depth(Main)' = 1 /\ Top(Main)' = f
      BY <1>4, <1>6
    <3> QED  BY <3>1 DEF Top
  <2> QED  BY <1>2, <2>1 DEF Untold
<1>13. stack'[Main][1].pc = "stopping"
  <2>1. Depth(Main)' = 1 /\ Top(Main)' = f
    BY <1>4, <1>6
  <2> QED  BY <1>2, <2>1 DEF Top
<1>14. \A v \in Worker : v \in Range(Untold)'
  BY <1>12, EveryWorkerTold
<1>15. \A m, n \in DOMAIN Untold' : Untold'[m] = Untold'[n] => m = n
  BY <1>12, WorkerSeq
<1>16. Range(Untold)' \subseteq Worker /\ Main \in Worker
  BY <1>12, EveryWorkerTold, StealingAssumption
<1>17. Stops'
  BY <1>3, <1>6, <1>9, <1>11, <1>13, <1>14, <1>15, <1>16 DEF Stops
<1> QED  BY <1>8, <1>9, <1>17, StoppingInv

(* What is left of a list without repetitions when its head is gone.       *)
LEMMA TailOnly ==
  ASSUME NEW S, NEW s \in Seq(S), s # <<>>, \A m, n \in DOMAIN s : s[m] = s[n] => m = n
  PROVE  /\ Head(s) \in S /\ Tail(s) \in Seq(S) /\ Head(s) \in Range(s)
         /\ Range(Tail(s)) = Range(s) \ {Head(s)}
         /\ \A m, n \in DOMAIN Tail(s) : Tail(s)[m] = Tail(s)[n] => m = n
<1>1. PICK k \in Nat : k = Len(s) /\ DOMAIN s = 1..k /\ k > 0
  BY EmptySeq
<1>2. /\ Tail(s) \in Seq(S) /\ Len(Tail(s)) = k - 1 /\ Head(s) = s[1] /\ Head(s) \in S
      /\ \A m \in 1..(k - 1) : Tail(s)[m] = s[m + 1] /\ m + 1 \in 1..k
  BY <1>1, HeadTailProperties
<1>3. DOMAIN Tail(s) = 1..(k - 1)
  BY <1>1, <1>2
<1>4. 1 \in DOMAIN s /\ Head(s) \in Range(s)
  BY <1>1, <1>2 DEF Range
<1>5. \A m, n \in 1..(k - 1) : Tail(s)[m] = Tail(s)[n] => m = n
  <2> SUFFICES ASSUME NEW m \in 1..(k - 1), NEW n \in 1..(k - 1), Tail(s)[m] = Tail(s)[n]
               PROVE  m = n
    OBVIOUS
  <2>1. m + 1 = n + 1
    BY <1>1, <1>2
  <2> QED  BY <2>1
<1>6. ASSUME NEW x  PROVE x \in Range(Tail(s)) <=> x \in Range(s) /\ x # Head(s)
  <2>1. ASSUME x \in Range(Tail(s))  PROVE x \in Range(s) /\ x # Head(s)
    <3>1. PICK m \in 1..(k - 1) : x = Tail(s)[m]
      BY <1>3, <2>1 DEF Range
    <3>2. m + 1 \in DOMAIN s /\ x = s[m + 1] /\ m + 1 # 1
      BY <1>1, <1>2, <3>1
    <3> QED  BY <1>2, <1>4, <3>2 DEF Range
  <2>2. ASSUME x \in Range(s), x # Head(s)  PROVE x \in Range(Tail(s))
    <3>1. PICK n \in 1..k : x = s[n]
      BY <1>1, <2>2 DEF Range
    <3>2. n - 1 \in 1..(k - 1) /\ (n - 1) + 1 = n
      BY <1>1, <1>2, <2>2, <3>1
    <3>3. x = Tail(s)[n - 1]
      BY <1>2, <3>1, <3>2
    <3> QED  BY <1>3, <3>2, <3>3 DEF Range
  <2> QED  BY <2>1, <2>2
<1>7. Range(Tail(s)) = Range(s) \ {Head(s)}
  BY <1>6
<1> QED  BY <1>2, <1>3, <1>4, <1>5, <1>7

(* Where the shutdown stands between two workers.                          *)
LEMMA StopIsOver ==
  ASSUME Orderly, NEW w \in Worker, At(w, "stopping")
  PROVE  /\ SInv /\ WaitsNow /\ stopped /\ Depth(w) > 0 /\ Top(w).pc = "stopping" /\ Top(w).pc \in StopPc
         /\ w = Main /\ Depth(w) = 1 /\ Top(w) = stack[Main][1] /\ JobOf(Top(w)) = NoJob
         /\ Top(w) \in Frames /\ Top(w).todo \in Seq(Worker) /\ Untold = Top(w).todo
<1>1. SInv /\ WaitsNow /\ Depth(w) > 0 /\ Top(w).pc = "stopping" /\ Top(w).pc \in StopPc
  BY DEF Orderly, At, StopPc
<1>2. /\ w = Main /\ Depth(w) = 1 /\ Top(w) = stack[Main][1] /\ JobOf(Top(w)) = NoJob
      /\ Top(w) \in Frames /\ FrameOK(Top(w))
  BY <1>1, StopTop
<1>3. stopped
  BY <1>1, <1>2 DEF Orderly, Stops
<1>4. Untold = Top(w).todo
  BY <1>1, <1>2 DEF Untold
<1> QED  BY <1>1, <1>2, <1>3, <1>4 DEF FrameOK

(* Telling one worker keeps Orderly.                                       *)
LEMMA TellInv ==
  ASSUME Orderly, Advance, NEW w \in Worker, StopWorkerThreads(w), At(w, "stopping"),
         Top(w).todo # <<>>
  PROVE  Orderly'
<1>1. /\ SInv /\ WaitsNow /\ stopped /\ Depth(w) > 0 /\ Top(w).pc = "stopping" /\ Top(w).pc \in StopPc
      /\ w = Main /\ Depth(w) = 1 /\ Top(w) = stack[Main][1] /\ JobOf(Top(w)) = NoJob
      /\ Top(w) \in Frames /\ Top(w).todo \in Seq(Worker) /\ Untold = Top(w).todo
  BY StopIsOver
<1>2. \A m, n \in DOMAIN Untold : Untold[m] = Untold[n] => m = n
  BY <1>1 DEF Orderly, Stops
<1>3. PICK v, t : v = Head(Top(w).todo) /\ t = Tail(Top(w).todo)
  OBVIOUS
<1>4. /\ v \in Worker /\ t \in Seq(Worker) /\ v \in Range(Untold)
      /\ Range(t) = Range(Untold) \ {v}
      /\ \A m, n \in DOMAIN t : t[m] = t[n] => m = n
  <2>1. PICK s : s = Top(w).todo
    OBVIOUS
  <2>2. s \in Seq(Worker) /\ s # <<>> /\ \A m, n \in DOMAIN s : s[m] = s[n] => m = n
    BY <1>1, <1>2, <2>1
  <2> QED  BY <1>1, <1>3, <2>1, <2>2, TailOnly
<1>5. PICK f \in Frames : f = Release(v) /\ f.pc = "release" /\ f.other = v
  BY <1>4, NewFrames
<1>6. PICK b \in Frames : b = [Top(w) EXCEPT !.todo = t] /\ b.pc = "stopping" /\ b.todo = t
  <2>1. t \in Seq(Task \cup Worker \cup {None})
    BY <1>4
  <2>2. PICK g \in Frames : g = Top(w) /\ g.pc = "stopping"
    BY <1>1
  <2>3. [g EXCEPT !.todo = t] \in Frames /\ [g EXCEPT !.todo = t].pc = "stopping"
        /\ [g EXCEPT !.todo = t].todo = t
    BY <2>1, <2>2 DEF Frames
  <2> QED  BY <2>2, <2>3
<1>7. /\ injected' = [injected EXCEPT ![v] = None] /\ Call(w, f, b)
      /\ UNCHANGED <<deque, arrays, semaphore, notified, bunk, stopped, history>>
  BY <1>1, <1>3, <1>5, <1>6 DEF StopWorkerThreads, At
<1>8. stealer' = stealer
  BY <1>7 DEF arrays
<1>9. /\ JobOf(f) = NoJob /\ JobOf(b) = NoJob
      /\ Knows(w, f, stealer') /\ Ready(w, f, stealer') /\ Knows(w, b, stealer')
  BY <1>5, <1>6, NoJobs DEF WorkPc, BodyPc, WaitPc
<1>10. /\ Job' = Job /\ Depth(w)' = Depth(w) + 1 /\ Top(w)' = f
       /\ stack'[w][Depth(w)] = b
  BY <1>1, <1>7, <1>9, JobQuiet, JobCall
<1>11. Local(w) /\ Waits(w, stack'[w], stealer)
  <2>1. Local(w) /\ Waits(w, stack'[w], stealer')
    BY <1>1, <1>7, <1>8, <1>9, CallWaits
  <2> QED  BY <1>8, <2>1
<1>12. Stopping(w)
  BY <1>1, <1>5, <1>7, <1>10, <1>11 DEF Stopping
<1>13. \A u \in Worker, l \in Nat : ~IsBody(Job, u, l)
  BY <1>1 DEF Orderly, Stops
<1>14. stack'[Main][1] = b /\ Depth(Main)' > 0
  BY <1>1, <1>10
<1>15. Untold' = t
  BY <1>6, <1>14 DEF Untold
<1>16. Freed'[Main] = v
  <2>1. PcFact1(w)'
    BY PcNext DEF PcFacts
  <2>2. Depth(w)' > 0 /\ Top(w)'.pc = "release" /\ Top(w)'.other = v
    BY <1>1, <1>5, <1>10
  <2> QED  BY <1>1, <2>1, <2>2 DEF PcFact1
<1>17. \A u \in Worker : /\ Signalled'[u] <=> Signalled[u]
                         /\ At(u, "woken")' <=> At(u, "woken")
                         /\ u # Main => Freed'[u] = Freed[u]
  BY <1>12, StoppingViews
<1>18. \A u \in Worker : u \notin Range(Untold') \/ At(u, "woken")' => injected'[u] = None
  <2>1. \A u \in Worker : u \notin Range(Untold) \/ At(u, "woken") => injected[u] = None
    BY <1>1 DEF Orderly, Stops
  <2>2. injected \in [Worker -> Ref \cup {None}]
    BY <1>1 DEF SInv, TypeOK
  <2> QED  BY <1>4, <1>7, <1>15, <1>17, <2>1, <2>2
<1>19. /\ \A u \in Range(Untold') : ~Signalled'[u]
       /\ v \notin Range(Untold') /\ ~Signalled'[v]
       /\ \A m, n \in DOMAIN Untold' : Untold'[m] = Untold'[n] => m = n
  <2>1. \A u \in Range(Untold) : ~Signalled[u]
    BY <1>1 DEF Orderly, Stops
  <2>2. Range(Untold) \subseteq Worker
    BY <1>1, UntoldWorkers
  <2> QED  BY <1>4, <1>15, <1>17, <2>1, <2>2
<1>20. \A u \in Worker : Freed'[u] # None => u = Main
  BY <1>1, <1>17 DEF Orderly, Stops
<1>21. Range(Untold)' = Range(Untold')
  OBVIOUS
<1>22. Stops'
  BY <1>1, <1>4, <1>6, <1>7, <1>10, <1>13, <1>14, <1>16, <1>18, <1>19, <1>20, <1>21 DEF Stops
<1> QED  BY <1>12, <1>13, <1>22, StoppingInv

(* The return of the shutdown keeps Orderly.                               *)
LEMMA StopEndsInv ==
  ASSUME Orderly, Advance, NEW w \in Worker, StopWorkerThreads(w), At(w, "stopping"),
         Top(w).todo = <<>>
  PROVE  Orderly'
<1>1. /\ SInv /\ WaitsNow /\ stopped /\ Depth(w) > 0 /\ Top(w).pc = "stopping" /\ Top(w).pc \in StopPc
      /\ w = Main /\ Depth(w) = 1 /\ Top(w) = stack[Main][1] /\ JobOf(Top(w)) = NoJob
      /\ Untold = <<>>
  BY StopIsOver
<1>2. Return(w) /\ UNCHANGED <<deque, arrays, signals, bunk, stopped, history>>
  BY <1>1 DEF StopWorkerThreads, At
<1>3. stealer' = stealer /\ injected' = injected
  BY <1>2 DEF arrays, signals
<1>4. Job' = Job /\ Depth(w)' = 0
  BY <1>1, <1>2, JobQuiet, JobReturn
<1>5. Local(w) /\ Waits(w, stack'[w], stealer)
  <2>1. Local(w) /\ Waits(w, stack'[w], stealer')
    BY <1>1, <1>2, <1>3, ReturnWaits
  <2> QED  BY <1>3, <2>1
<1>6. Stopping(w)
  BY <1>1, <1>2, <1>4, <1>5 DEF Stopping, signals
<1>7. \A u \in Worker, l \in Nat : ~IsBody(Job, u, l)
  BY <1>1 DEF Orderly, Stops
<1>8. Untold' = <<>>
  BY <1>1, <1>4 DEF Untold
<1>9. Freed'[w] = None
  <2>1. ~At(w, "release")'
    BY <1>4 DEF At
  <2> QED  BY <2>1, MutedNext DEF MutedFacts, Muted1
<1>10. \A u \in Worker : /\ Signalled'[u] <=> Signalled[u]
                         /\ At(u, "woken")' <=> At(u, "woken")
                         /\ u # Main => Freed'[u] = Freed[u]
  BY <1>6, StoppingViews
<1>11. Range(Untold)' = Range(Untold) /\ Untold' = Untold
  BY <1>1, <1>8
<1>12. Stops'
  <2>1. \A u \in Worker : u \notin Range(Untold)' \/ At(u, "woken")' => injected'[u] = None
    BY <1>1, <1>3, <1>10, <1>11 DEF Orderly, Stops
  <2>2. \A u \in Worker : Freed'[u] # None => u = Main
    BY <1>1, <1>10 DEF Orderly, Stops
  <2>3. \A u \in Range(Untold)' : ~Signalled'[u]
    <3>1. Range(Untold) \subseteq Worker
      BY <1>1, UntoldWorkers
    <3> QED  BY <1>1, <1>10, <1>11, <3>1 DEF Orderly, Stops
  <2>4. \A m, n \in DOMAIN Untold' : Untold'[m] = Untold'[n] => m = n
    BY <1>1, <1>11 DEF Orderly, Stops
  <2> QED  BY <1>1, <1>2, <1>4, <1>7, <1>9, <2>1, <2>2, <2>3, <2>4 DEF Stops
<1> QED  BY <1>6, <1>7, <1>12, StoppingInv

(* StopWorkerThreads keeps Orderly.                                        *)
LEMMA StopWorkerThreadsInv ==
  ASSUME Orderly, Advance, NEW w \in Worker, StopWorkerThreads(w)
  PROVE  Orderly'
<1>1. \/ At(w, "stopWorkerThreads")
      \/ At(w, "stopping") /\ Top(w).todo # <<>>
      \/ At(w, "stopping") /\ Top(w).todo = <<>>
  BY DEF StopWorkerThreads
<1> QED  BY <1>1, ShutdownInv, TellInv, StopEndsInv

-----------------------------------------------------------------------------
(* ORDERLY HOLDS                                                           *)

(* The stacks at the start.                                                *)
LEMMA FirstStacks ==
  ASSUME Init
  PROVE  /\ SInv /\ Main \in Worker /\ Root \in Task
         /\ Depth(Main) = 2 /\ stack[Main][1].pc = "stopWorkerThreads"
         /\ stack[Main][2] = Body(Root, 0) /\ Top(Main) = Body(Root, 0)
         /\ stack[Main][2].pc = "body"
         /\ \A w \in Worker \ {Main} : Depth(w) = 1 /\ stack[w][1].pc = "run_worker"
         /\ \A w \in Worker : /\ Depth(w) > 0 /\ Top(w).pc \notin LoudPc
                              /\ \A l \in 1..Len(stack[w]) :
                                    stack[w][l].pc \in {"stopWorkerThreads", "body", "run_worker"}
<1>1. SInv /\ Main \in Worker /\ Root \in Task
  BY SInvInit, StealingAssumption
<1>2. PICK f \in Frames : f = Frame("stopWorkerThreads") /\ f.pc = "stopWorkerThreads"
  BY NewFrames DEF Pc, StopPc
<1>3. PICK g \in Frames : g = Body(Root, 0) /\ g.pc = "body"
  BY <1>1, NewFrames
<1>4. PICK r \in Frames : r = Frame("run_worker") /\ r.pc = "run_worker"
  BY NewFrames DEF Pc, ThreadPc
<1>5. stack = [w \in Worker |-> IF w = Main THEN <<f, g>> ELSE <<r>>]
  BY <1>2, <1>3, <1>4 DEF Init
<1>6. stack[Main] = <<f, g>> /\ \A w \in Worker \ {Main} : stack[w] = <<r>>
  BY <1>1, <1>5
<1>7. /\ Depth(Main) = 2 /\ stack[Main][1] = f /\ stack[Main][2] = g /\ Top(Main) = g
      /\ \A l \in 1..Len(stack[Main]) : stack[Main][l] \in {f, g}
  BY <1>6 DEF Depth, Top
<1>8. \A w \in Worker \ {Main} : /\ Depth(w) = 1 /\ stack[w][1] = r /\ Top(w) = r
                                 /\ \A l \in 1..Len(stack[w]) : stack[w][l] = r
  <2> SUFFICES ASSUME NEW w \in Worker \ {Main}
               PROVE  /\ Depth(w) = 1 /\ stack[w][1] = r /\ Top(w) = r
                      /\ \A l \in 1..Len(stack[w]) : stack[w][l] = r
    OBVIOUS
  <2>1. stack[w] = <<r>>
    BY <1>6
  <2>2. Len(stack[w]) = 1 /\ stack[w][1] = r
    BY <2>1
  <2>3. \A l \in 1..1 : l = 1
    OBVIOUS
  <2> QED  BY <2>2, <2>3 DEF Depth, Top
<1>9. {"body", "run_worker"} \cap LoudPc = {}
  BY DEF LoudPc, HolderPc, SleepPc
<1>10. ASSUME NEW w \in Worker
       PROVE  /\ Depth(w) > 0 /\ Top(w).pc \notin LoudPc
              /\ \A l \in 1..Len(stack[w]) :
                    stack[w][l].pc \in {"stopWorkerThreads", "body", "run_worker"}
  <2>1. CASE w = Main
    BY <1>2, <1>3, <1>7, <1>9, <2>1
  <2>2. CASE w # Main
    BY <1>4, <1>8, <1>9, <2>2
  <2> QED  BY <2>1, <2>2
<1> QED  BY <1>1, <1>2, <1>3, <1>4, <1>7, <1>8, <1>10

(* Work holds at first.                                                    *)
LEMMA FirstWork ==
  ASSUME Init
  PROVE  WorkNow
<1>1. /\ SInv /\ Main \in Worker /\ Root \in Task
      /\ Depth(Main) = 2 /\ stack[Main][1].pc = "stopWorkerThreads"
      /\ stack[Main][2] = Body(Root, 0) /\ stack[Main][2].pc = "body"
      /\ \A w \in Worker \ {Main} : Depth(w) = 1 /\ stack[w][1].pc = "run_worker"
  BY FirstStacks
<1>2. /\ begun = [t \in Task |-> IF t = Root THEN 1 ELSE 0] /\ done = {}
      /\ \A w \in Worker : Heads[w] = 0
  BY DEF Init, Heads, EmptyDeque
<1>3. \A w \in Worker, l \in Nat :
        l \in Levels(w) => (w = Main /\ l \in {1, 2}) \/ (w # Main /\ l = 1)
  BY <1>1 DEF Levels
<1>4. \A w \in Worker, l \in Nat : ~IsOwn(Job, w, l) /\ ~IsMark(Job, w, l)
  <2> SUFFICES ASSUME NEW w \in Worker, NEW l \in Nat, l \in Levels(w),
                      stack[w][l].pc \in {"runOwn", "markAsFinished"}
               PROVE  FALSE
    BY JobNow
  <2> QED  BY <1>1, <1>3
<1>5. \A w \in Worker, l \in Nat : IsBody(Job, w, l) => w = Main /\ l = 2
  <2> SUFFICES ASSUME NEW w \in Worker, NEW l \in Nat, l \in Levels(w), stack[w][l].pc \in BodyPc
               PROVE  w = Main /\ l = 2
    BY JobNow
  <2> QED  BY <1>1, <1>3 DEF BodyPc
<1>6. /\ IsBody(Job, Main, 2) /\ Job[Main][2].task = Root /\ Job[Main][2].base = 0
      /\ Job[Main][2].todo = Spawned(Root)
  <2>1. 2 \in Levels(Main)
    BY <1>1 DEF Levels
  <2>2. Job[Main][2] = JobOf(Body(Root, 0)) /\ IsBody(Job, Main, 2)
    BY <1>1, <2>1, JobNow DEF BodyPc
  <2>3. 0 \in Nat
    OBVIOUS
  <2> QED  BY <1>1, <2>2, <2>3, NewBody
<1>7. \A t \in Spawned(Root) : t \in Task /\ t # Root /\ begun[t] = 0
  BY <1>1, <1>2, TreeFacts
<1>8. BodyOK(Job, Heads, slot, begun, done, Main, 2)
  BY <1>1, <1>2, <1>5, <1>6, <1>7 DEF BodyOK, Accounted, Runs
<1>9. TreeOK(Job, begun, done)
  <2>1. Runs(Job, Main, 2, Root)
    BY <1>6 DEF Runs
  <2>2. \A t \in Task : begun[t] = 1 => t = Root
    BY <1>2
  <2>3. begun[Root] = 1 /\ \A t \in Task : begun[t] \in {0, 1}
    BY <1>1, <1>2
  <2> QED  BY <1>1, <1>2, <2>1, <2>2, <2>3 DEF TreeOK
<1>10. \A w \in Worker : Heads[w] \in Nat /\ Job[w][0].kind = "none"
  <2> SUFFICES ASSUME NEW w \in Worker  PROVE Job[w][0].kind = "none"
    BY <1>2
  <2>1. 0 \notin Levels(w) /\ 0 \in Nat
    BY DEF Levels
  <2> QED  BY <2>1, JobNow, JobKinds
<1>11. \A i \in Slot : ~(i < 0)
  BY SlotFacts
<1> QED  BY <1>2, <1>4, <1>5, <1>8, <1>9, <1>10, <1>11 DEF WorkNow, Work

(* Orderly holds at first.                                                 *)
LEMMA OrderlyInit ==
  ASSUME Init
  PROVE  Orderly
<1>1. /\ SInv /\ Main \in Worker
      /\ Depth(Main) = 2 /\ stack[Main][1].pc = "stopWorkerThreads"
      /\ \A w \in Worker : /\ Depth(w) > 0 /\ Top(w).pc \notin LoudPc
                           /\ \A l \in 1..Len(stack[w]) :
                                 stack[w][l].pc \in {"stopWorkerThreads", "body", "run_worker"}
  BY FirstStacks
<1>2. \A w \in Worker :
        /\ Held[w] = None /\ Freed[w] = None /\ Why[w] = "none" /\ Naps[w] = "no"
        /\ Awaits[w] = None /\ Claim[w] = None /\ w \notin Injecting /\ ~Pending(w)
        /\ (Signalled[w] <=> semaphore[w] = 1)
  BY <1>1, NoViews
<1>3. /\ semaphore = [w \in Worker |-> 0] /\ sleepers = <<>> /\ ~stopped
      /\ stealer = [w \in Worker |-> [i \in Slot |-> "finished"]]
      /\ \A w \in Worker : Heads[w] = 0
  BY DEF Init, Heads, EmptyDeque
<1>4. ClaimsNow
  BY <1>2 DEF ClaimsNow, Claims, PendOK
<1>5. UntakenNow
  BY <1>3, SlotFacts DEF UntakenNow, Untaken
<1>6. WaitsNow
  <2> SUFFICES ASSUME NEW w \in Worker  PROVE Waits(w, stack[w], stealer)
    BY DEF WaitsNow
  <2>1. \A l \in 1..Len(stack[w]) :
          /\ stack[w][l].pc \notin WaitPc
          /\ stack[w][l].pc \notin {"leap", "leapSteal", "leapt", "yieldSteal", "randomSteal"}
    BY <1>1 DEF WaitPc
  <2>2. Top(w).pc # "popStolen"
    <3>1. Depth(w) \in 1..Len(stack[w])
      BY <1>1, GoodParts DEF Levels, Depth
    <3> QED  BY <1>1, <3>1 DEF Top
  <2> QED  BY <2>1, <2>2 DEF Waits, Top, Depth
<1>7. TokensNow
  <2>1. \A v \in Worker, i \in Slot : stealer[v][i] # v
    <3>1. "finished" \notin Worker
      BY StealingAssumption
    <3> QED  BY <1>3, <3>1
  <2>2. \A v \in Worker : ~Signalled[v]
    BY <1>2, <1>3
  <2>3. DOMAIN sleepers = {}
    BY <1>3
  <2> QED  BY <1>2, <2>1, <2>2, <2>3 DEF TokensNow, Tokens
<1>8. Stops
  BY <1>1, <1>3 DEF Stops
<1> QED  BY <1>1, <1>4, <1>5, <1>6, <1>7, <1>8, FirstWork DEF Orderly

(* A stuttering step keeps it.                                             *)
LEMMA OrderlyStutter ==
  ASSUME Orderly, UNCHANGED vars
  PROVE  Orderly'
<1>1. SInv'
  BY StutterStep DEF Orderly, Advance
<1>2. /\ stack' = stack /\ deque' = deque /\ slot' = slot /\ stealer' = stealer /\ begun' = begun
      /\ done' = done /\ semaphore' = semaphore /\ injected' = injected /\ sleepers' = sleepers
      /\ stopped' = stopped
  BY DEF vars, arrays, signals, bunk, history
<1>3. Job' = Job /\ Heads' = Heads /\ TakenNow' = TakenNow
  BY <1>2 DEF Job, Heads, TakenNow, Levels, Depth, Now, Top
<1>4. /\ Held' = Held /\ Freed' = Freed /\ Why' = Why /\ Naps' = Naps /\ Awaits' = Awaits
      /\ Signalled' = Signalled /\ Injecting' = Injecting /\ Untold' = Untold
      /\ \A v, pc : At(v, pc)' = At(v, pc)
  BY <1>2 DEF Held, Freed, Why, Naps, Awaits, Signalled, Injecting, At, Under1, Top, Depth, Untold
<1>5. \A v : Pending(v)' = Pending(v)
  BY <1>2, <1>4 DEF Pending, Listed
<1>6. Claim' = Claim
  BY <1>2, <1>4, <1>5 DEF Claim, Top, Depth
<1>7. WorkNow' /\ ClaimsNow' /\ UntakenNow' /\ WaitsNow' /\ TokensNow' /\ Stops'
  <2>1. WorkNow' /\ UntakenNow' /\ WaitsNow'
    BY <1>2, <1>3 DEF Orderly, WorkNow, UntakenNow, WaitsNow
  <2>2. ClaimsNow' /\ TokensNow'
    BY <1>2, <1>3, <1>4, <1>5, <1>6 DEF Orderly, ClaimsNow, PendOK, TokensNow
  <2>3. Stops'
    BY <1>2, <1>3, <1>4 DEF Orderly, Stops, Depth
  <2> QED  BY <2>1, <2>2, <2>3
<1> QED  BY <1>1, <1>7 DEF Orderly

(* Every step keeps it.                                                    *)
LEMMA OrderlyNext ==
  ASSUME Orderly, [Next]_vars
  PROVE  Orderly'
<1>1. Advance
  BY SInvNext DEF Orderly
<1>2. ASSUME NEW w \in Worker, Step(w)
      PROVE  Orderly'
  BY <1>1, <1>2, SpawnInv, SpawnFullInv, OverflowInv, PushShareInv, GrowSharedInv, PopSleeperInv,
     SelfStealInv, GiveBackInv, InjectInv, PopOverflownInv, PopInv, ShrinkSharedInv, RunOwnInv,
     BodyEndsInv, RunStolenTaskInv, MarkAsFinishedInv, LeapfrogInv, YieldInv,
     WaitForTaskToFinishInv, PopStolenInv, ReleaseSemaphoreInv, AcquireInv, WakeInv, RunWorkerInv,
     RandomStealLoopInv, StopWorkerThreadsInv DEF Step
<1>3. ASSUME NEW w \in Worker, SpuriousWakeUp(w)
      PROVE  Orderly'
  BY <1>1, <1>3, WakeInv
<1>4. CASE UNCHANGED vars
  BY <1>4, OrderlyStutter
<1> QED  BY <1>2, <1>3, <1>4 DEF Next

(* Orderly holds of every behaviour.                                       *)
LEMMA OrderlyAlways == Spec => []Orderly
<1>1. Init => Orderly
  BY OrderlyInit
<1>2. Orderly /\ [Next]_vars => Orderly'
  BY OrderlyNext
<1> QED  BY <1>1, <1>2, PTL DEF Spec

-----------------------------------------------------------------------------
(* THE TREE OF CALLS, AND THE SIGNALS                                      *)

(* A call is made for one that runs and that spawned it.                   *)
LEMMA TreeBegin ==
  ASSUME Orderly, NEW v \in Worker, NEW m \in Nat, IsBody(Job, v, m),
         NEW t, t \in Spawned(Job[v][m].task), begun[t] = 0, Begin(t), done' = done
  PROVE  Tree!TreeNext
<1> DEFINE p == Job[v][m].task
<1>1. p \in Task /\ begun[p] = 1 /\ p \notin done
  BY DEF Orderly, WorkNow, Work, BodyOK
<1>2. t \in Task /\ begun \in [Task -> Nat]
  BY <1>1, TreeFacts DEF Orderly, SInv, TypeOK
<1>3. begun' = [begun EXCEPT ![t] = 1]
  BY <1>2 DEF Begin
<1>4. Tree!Begin(t)
  BY <1>1, <1>3 DEF Tree!Begin, Spawned
<1> QED  BY <1>2, <1>4 DEF Tree!TreeNext

(* Running an own task begins a call of the tree.                          *)
LEMMA RunOwnTree ==
  ASSUME Orderly, NEW w \in Worker, RunOwn(w)
  PROVE  Tree!TreeNext
<1>1. SInv /\ WorkNow /\ At(w, "runOwn")
  BY DEF Orderly, RunOwn
<1>2. /\ Depth(w) - 1 \in Nat /\ (Depth(w) - 1) + 1 = Depth(w)
      /\ Job[w][Depth(w)].at = deque[w].head
      /\ OwnOK(Job, Heads, slot, stealer, begun, w, Depth(w) - 1)
      /\ Metadata(Top(w).ref) = "unset"
  BY <1>1, OwnTop
<1>3. PICK n, t : /\ n \in Nat /\ n = Depth(w) - 1 /\ n + 1 = Depth(w)
                     /\ t = slot[w][deque[w].head]
  BY <1>2
<1>4. Begin(t) /\ done' = done
  BY <1>2, <1>3 DEF RunOwn
<1>5. Job[w][n + 1].at = deque[w].head /\ OwnOK(Job, Heads, slot, stealer, begun, w, n)
  BY <1>2, <1>3
<1>6. IsBody(Job, w, n) /\ t \in Spawned(Job[w][n].task) /\ begun[t] = 0
  BY <1>3, <1>5 DEF OwnOK
<1> QED  BY <1>3, <1>4, <1>6, TreeBegin

(* Running a task that did not fit begins a call of the tree.              *)
LEMMA OverflowTree ==
  ASSUME Orderly, NEW w \in Worker, Overflow(w)
  PROVE  Tree!TreeNext
<1>1. SInv /\ WorkNow /\ Depth(w) > 0 /\ Top(w).pc = "overflow" /\ Top(w).pc \in BodyPc /\ FrameOK(Top(w))
  <2>1. SInv /\ WorkNow /\ Depth(w) > 0 /\ Top(w).pc = "overflow" /\ Top(w).pc \in BodyPc
    BY DEF Orderly, Overflow, At, BodyPc
  <2> QED  BY <2>1, GoodParts
<1>2. PICK t : t = Head(Top(w).todo)
  OBVIOUS
<1>3. Begin(t) /\ done' = done
  BY <1>2 DEF Overflow
<1>4. t \in Todo(Top(w))
  <2>1. Top(w).todo # <<>> /\ Head(Top(w).todo) # None
    BY <1>1 DEF FrameOK
  <2> QED  BY <1>1, <1>2, <2>1, NextCall
<1>5. PICK n \in Nat : n = Depth(w) /\ IsBody(Job, w, n) /\ t \in Job[w][n].todo
  <2>1. TopBody(Job, w, Depth(w)) /\ Depth(w) \in Nat /\ Job[w][Depth(w)].todo = Todo(Top(w))
    BY <1>1, BodyOnTop
  <2> QED  BY <1>4, <2>1 DEF TopBody
<1>6. t \in Spawned(Job[w][n].task) /\ begun[t] = 0
  BY <1>1, <1>5, TodoOnly DEF WorkNow
<1> QED  BY <1>3, <1>5, <1>6, TreeBegin

(* Running a stolen task begins a call of the tree.                        *)
LEMMA RunStolenTree ==
  ASSUME Orderly, NEW w \in Worker, RunStolenTask(w)
  PROVE  Tree!TreeNext
<1>1. At(w, "runStolenTask") /\ SInv /\ WorkNow
  BY DEF RunStolenTask, Orderly
<1>2. PICK v \in Worker, i \in Slot :
           /\ Top(w).ref = <<v, i>> /\ i < Heads[v] /\ stealer[v][i] = "unset"
           /\ Metadata(Top(w).ref) = "unset"
  BY <1>1, StolenTop
<1>3. Begin(slot[v][i]) /\ done' = done
  <2>1. Top(w).ref[1] = v /\ Top(w).ref[2] = i
    BY <1>2
  <2> QED  BY <1>2, <2>1 DEF RunStolenTask
<1>4. SlotOK(Job, Heads, slot, stealer, begun, done, v, i)
  BY <1>1, <1>2 DEF WorkNow, Work
<1>5. begun[slot[v][i]] = 0
  BY <1>2, <1>4 DEF SlotOK
<1>6. PICK l \in Nat : IsBody(Job, v, l) /\ slot[v][i] \in Spawned(Job[v][l].task)
  BY <1>4 DEF SlotOK, Holds
<1> QED  BY <1>3, <1>5, <1>6, TreeBegin

(* A call returns when those that it spawned have.                         *)
LEMMA BodyEndsTree ==
  ASSUME Orderly, Advance, NEW w \in Worker, BodyEnds(w)
  PROVE  Tree!TreeNext
<1>1. /\ SInv /\ WorkNow /\ Depth(w) > 0 /\ Top(w).pc \in BodyPc
      /\ Top(w).todo = <<>> /\ deque[w].head = Top(w).base /\ Return(w)
      /\ done' = done \cup {Top(w).task} /\ begun' = begun
  BY DEF Orderly, BodyEnds, At, BodyPc
<1>2. PICK n, t :
        /\ n \in Nat /\ n = Depth(w) /\ t = Top(w).task
        /\ IsBody(Job, w, n) /\ Job[w][n].task = t
        /\ Job[w][n].base = Top(w).base /\ Job[w][n].todo = Todo(Top(w)) /\ Job[w][n + 1] = NoJob
  <2>1. TopBody(Job, w, Depth(w)) /\ Depth(w) \in Nat
        /\ Job[w][Depth(w)].task = Top(w).task /\ Job[w][Depth(w)].base = Top(w).base
        /\ Job[w][Depth(w)].todo = Todo(Top(w)) /\ Job[w][Depth(w) + 1] = NoJob
    BY <1>1, BodyOnTop
  <2> QED  BY <2>1 DEF TopBody
<1>3. Job[w][n].todo = {} /\ Job[w][n].base = Heads[w] /\ Job[w][n + 1].kind = "none"
  <2>1. Todo(Top(w)) = {}
    BY <1>1 DEF Todo, Range
  <2> QED  BY <1>1, <1>2, <2>1, JobKinds DEF Heads
<1>4. t \in Task /\ begun[t] = 1 /\ t \notin done /\ Spawned(t) \subseteq done
  <2>1. /\ Job[w][n].task \in Task /\ begun[Job[w][n].task] = 1 /\ Job[w][n].task \notin done
        /\ Spawned(Job[w][n].task) \subseteq done
    BY <1>1, <1>2, <1>3, WorkOver DEF WorkNow
  <2> QED  BY <1>2, <2>1
<1>5. Tree!End(t)
  BY <1>1, <1>2, <1>4 DEF Tree!End, Spawned
<1> QED  BY <1>4, <1>5 DEF Tree!TreeNext

(* The other steps begin and end no call.                                  *)
LEMMA Unrecorded ==
  ASSUME NEW w \in Worker,
         Step(w) \/ SpuriousWakeUp(w),
         ~RunOwn(w), ~Overflow(w), ~RunStolenTask(w), ~BodyEnds(w)
  PROVE  UNCHANGED <<begun, done>>
<1> USE DEF history
<1>1. CASE Spawn(w) \/ SpawnFull(w) \/ PushShare(w) \/ GrowShared(w)
  BY <1>1 DEF Spawn, SpawnFull, PushShare, GrowShared
<1>2. CASE PopSleeper(w) \/ SelfSteal(w) \/ GiveBack(w) \/ Inject(w)
  BY <1>2 DEF PopSleeper, SelfSteal, GiveBack, Inject
<1>3. CASE PopOverflown(w) \/ Pop(w) \/ ShrinkShared(w) \/ MarkAsFinished(w)
  BY <1>3 DEF PopOverflown, Pop, ShrinkShared, MarkAsFinished
<1>4. CASE Leapfrog(w) \/ Yield(w) \/ WaitForTaskToFinish(w) \/ PopStolen(w)
  BY <1>4 DEF Leapfrog, Yield, WaitForTaskToFinish, PopStolen
<1>5. CASE ReleaseSemaphore(w) \/ Acquire(w) \/ WakeUp(w) \/ SpuriousWakeUp(w)
  BY <1>5 DEF ReleaseSemaphore, Acquire, WakeUp, SpuriousWakeUp
<1>6. CASE RunWorker(w) \/ RandomStealLoop(w) \/ StopWorkerThreads(w)
  BY <1>6 DEF RunWorker, RandomStealLoop, StopWorkerThreads
<1> QED  BY <1>1, <1>2, <1>3, <1>4, <1>5, <1>6 DEF Step

(* The scheduler keeps what it promises of fork and join: a task is called *)
(* once, by a call that has begun and not returned, and returns after all  *)
(* that it spawned - on any number of threads, with arrays of any size and *)
(* for every tree of calls.                                                *)
THEOREM StealingForksAndJoins == Spec => ForksAndJoins
<1>1. Init => Tree!TreeInit
  BY DEF Init, Tree!TreeInit
<1>2. Orderly /\ [Next]_vars => [Tree!TreeNext]_<<begun, done>>
  <2> SUFFICES ASSUME Orderly, [Next]_vars  PROVE [Tree!TreeNext]_<<begun, done>>
    OBVIOUS
  <2>1. Advance
    BY SInvNext DEF Orderly
  <2>2. ASSUME NEW w \in Worker, Step(w) \/ SpuriousWakeUp(w)
        PROVE  [Tree!TreeNext]_<<begun, done>>
    <3>1. CASE RunOwn(w) \/ Overflow(w) \/ RunStolenTask(w) \/ BodyEnds(w)
      BY <2>1, <3>1, RunOwnTree, OverflowTree, RunStolenTree, BodyEndsTree
    <3>2. CASE ~(RunOwn(w) \/ Overflow(w) \/ RunStolenTask(w) \/ BodyEnds(w))
      BY <2>2, <3>2, Unrecorded
    <3> QED  BY <3>1, <3>2
  <2>3. CASE UNCHANGED vars
    BY <2>3 DEF vars, history
  <2> QED  BY <2>2, <2>3 DEF Next
<1> QED  BY <1>1, <1>2, OrderlyAlways, PTL DEF Spec, ForksAndJoins

(* A stolen task has one taker, among any number of thieves, leapfrogging  *)
(* owners and sleepers that tasks are handed to.                           *)
THEOREM StolenOnce == Spec => []TakenOnce
<1>1. ASSUME Orderly  PROVE TakenOnce
  <2> SUFFICES ASSUME NEW v \in Worker, NEW w \in Worker, v # w,
                      NEW i \in Levels(v), NEW j \in Levels(w),
                      stack[v][i].pc \in TakenPc, stack[w][j].pc \in TakenPc,
                      stack[v][i].ref = stack[w][j].ref
               PROVE  FALSE
    BY DEF TakenOnce, Taken, Levels
  <2>0. None \notin Ref
    <3>1. Ref \subseteq Worker \X Nat
      BY StealingAssumption DEF Ref, Slot
    <3> QED  BY <3>1, StealingAssumption
  <2>1. ASSUME NEW u \in Worker, NEW l \in Levels(u), stack[u][l].pc \in TakenPc
        PROVE  stack[u][l].ref \in Ref
    BY <1>1, <2>1 DEF Orderly, SInv, Good, Structure, Framed, FrameOK, FullRef, RefPc
  <2>2. ASSUME NEW u \in Worker, NEW l \in Levels(u), stack[u][l].pc = "runStolenTask"
        PROVE  Claim[u] = stack[u][l].ref
    <3>1. Depth(u) \in Nat /\ Len(stack[u]) = Depth(u) /\ Chain(u, stack[u])
      BY <1>1, StackTypes DEF Orderly, SInv, Good, Structure, Shape, Depth
    <3>2. CASE l < Depth(u)
      <4>1. l \in 1..(Len(stack[u]) - 1)
        BY <3>1, <3>2 DEF Levels
      <4>2. MayCall(stack[u][l], stack[u][l + 1])
        BY <3>1, <4>1 DEF Chain
      <4> QED  BY <2>2, <4>2 DEF MayCall
    <3>3. CASE ~(l < Depth(u))
      <4>1. At(u, "runStolenTask") /\ Top(u) = stack[u][l]
        BY <2>2, <3>1, <3>3 DEF Levels, At, Top
      <4> QED  BY <4>1 DEF Claim
    <3> QED  BY <3>2, <3>3
  <2>3. ASSUME NEW u \in Worker, NEW l \in Levels(u), stack[u][l].pc = "markAsFinished"
        PROVE  /\ l \in Nat /\ IsMark(Job, u, l)
               /\ Job[u][l].of = stack[u][l].ref[1] /\ Job[u][l].at = stack[u][l].ref[2]
    <3>1. l \in Nat /\ Job[u][l] = JobOf(stack[u][l])
      BY JobAt DEF Levels
    <3> QED  BY <2>3, <3>1 DEF JobOf, BodyPc, IsMark
  <2>4. Claims(Claim, Injecting, Heads, stealer, TakenNow)
    BY <1>1 DEF Orderly, ClaimsNow
  <2>5. \A u \in Worker, l \in Nat : IsMark(Job, u, l) => MarkOK(Job, Heads, slot, stealer, done, u, l)
    BY <1>1 DEF Orderly, WorkNow, Work
  <2>6. ASSUME NEW u \in Worker, NEW l \in Levels(u), stack[u][l].pc \in TakenPc
        PROVE  \/ stack[u][l].pc = "runStolenTask" /\ Metadata(stack[u][l].ref) = "unset"
               \/ stack[u][l].pc = "markAsFinished" /\ Metadata(stack[u][l].ref) \in Worker
    <3>1. stack[u][l].ref \in Ref
      BY <2>1, <2>6
    <3>2. CASE stack[u][l].pc = "runStolenTask"
      <4>1. Claim[u] = stack[u][l].ref /\ Claim[u] # None
        BY <2>0, <2>2, <3>1, <3>2
      <4> QED  BY <2>4, <3>2, <4>1 DEF Claims, Metadata
    <3>3. CASE stack[u][l].pc = "markAsFinished"
      <4>1. MarkOK(Job, Heads, slot, stealer, done, u, l)
        BY <2>3, <2>5, <3>3
      <4>2. stealer[Job[u][l].of][Job[u][l].at] \in {u, Job[u][l].of} /\ Job[u][l].of \in Worker
        BY <4>1 DEF MarkOK
      <4> QED  BY <2>3, <3>3, <4>2 DEF Metadata
    <3> QED  BY <2>6, <3>2, <3>3 DEF TakenPc
  <2>7. stack[v][i].pc = stack[w][j].pc
    BY <2>6, StealingAssumption
  <2>8. CASE stack[v][i].pc = "runStolenTask"
    <3>1. Claim[v] = stack[v][i].ref /\ Claim[w] = stack[v][i].ref
      BY <2>2, <2>7, <2>8
    <3>2. Claim[v] # None
      BY <2>0, <2>1, <3>1 DEF TakenPc
    <3> QED  BY <2>4, <3>1, <3>2 DEF Claims
  <2>9. CASE stack[v][i].pc = "markAsFinished"
    <3>1. /\ i \in Nat /\ IsMark(Job, v, i)
          /\ Job[v][i].of = stack[v][i].ref[1] /\ Job[v][i].at = stack[v][i].ref[2]
      BY <2>3, <2>9
    <3>2. /\ j \in Nat /\ IsMark(Job, w, j)
          /\ Job[w][j].of = stack[w][j].ref[1] /\ Job[w][j].at = stack[w][j].ref[2]
      BY <2>3, <2>7, <2>9
    <3>3. MarkOK(Job, Heads, slot, stealer, done, v, i)
      BY <2>5, <3>1
    <3>4. \A u \in Worker, m \in Nat :
            IsMark(Job, u, m) /\ Job[u][m].of = Job[v][i].of /\ Job[u][m].at = Job[v][i].at => u = v
      BY <3>3 DEF MarkOK
    <3> QED  BY <3>1, <3>2, <3>4
  <2> QED  BY <2>8, <2>9 DEF TakenPc
<1> QED  BY <1>1, OrderlyAlways, PTL

(* No signal of a semaphore that counts to one is lost: whoever releases   *)
(* one is alone in it, and the signal before was taken.                    *)
THEOREM StealingLosesNoSignal == Spec => []NoSignalLost
<1>1. ASSUME Orderly  PROVE NoSignalLost
  <2> SUFFICES ASSUME NEW v \in Worker, NEW w \in Releasers(v)
               PROVE  Cardinality(Releasers(v)) = 1 /\ semaphore[v] # 1 /\ ~At(v, "reset")
    BY DEF NoSignalLost
  <2>1. None \notin Worker /\ Main \in Worker
    BY StealingAssumption
  <2>2. \A u \in Worker : u \in Releasers(v) <=> Freed[u] = v
    BY <2>1 DEF Releasers, Freed
  <2>3. w \in Worker /\ Releasers(v) \subseteq Worker
    BY DEF Releasers
  <2>4. (\A u \in Worker : Freed[u] = v => u = w) /\ ~Signalled[v]
    <3>1. CASE ~stopped
      <4>1. Tokens(sleepers, Held, Freed, Why, Naps, Awaits, Signalled, stealer)
        BY <1>1, <3>1 DEF Orderly, TokensNow
      <4> QED  BY <2>1, <2>2, <2>3, <4>1 DEF Tokens
    <3>2. CASE stopped
      BY <1>1, <2>1, <2>2, <2>3, <3>2 DEF Orderly, Stops
    <3> QED  BY <3>1, <3>2
  <2>5. Releasers(v) = {w}
    BY <2>2, <2>3, <2>4
  <2>6. Cardinality(Releasers(v)) = 1
    BY <2>5, FS_Singleton
  <2>7. semaphore[v] # 1 /\ ~At(v, "reset")
    BY <2>4, Muted DEF MutedFacts, Muted1
  <2> QED  BY <2>6, <2>7
<1> QED  BY <1>1, OrderlyAlways, PTL

=============================================================================
