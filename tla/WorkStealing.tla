----------------------------- MODULE WorkStealing -----------------------------
(***************************************************************************)
(* The task scheduler of HiGHS, which the solver process starts with every *)
(* first Highs_run: one deque per worker thread, whose owner pushes and    *)
(* pops at the head and whose thieves take from the tail, up to a split    *)
(* point that the owner moves; a stack of sleeping workers; a binary       *)
(* semaphore per worker, on which it waits for a task or for the end of a  *)
(* task that was stolen from it.                                           *)
(*                                                                         *)
(* A thread is a stack of frames, the running call last.   A step is one   *)
(* access to memory that other threads use, with the local computation     *)
(* around it.  Memory is sequentially consistent here.  Tasks are calls    *)
(* that spawn their children and wait for them, as for_each, TaskGroup and *)
(* the simplex iterations do; none is cancelled, as only the MIP solver    *)
(* cancels tasks.  The sleeper stack is one word with a tag, so its push   *)
(* and pop are steps.                                                      *)
(***************************************************************************)
EXTENDS Integers, FiniteSets, SequencesExt

CONSTANTS
  Worker,         (* the threads                                           *)
  Main,           (* the thread that initialised the scheduler             *)
  Task,           (* the calls                                             *)
  Root,           (* the one the main thread makes                         *)
  Calls,          (* what each spawns in order; None where it syncs once,  *)
                  (* besides waiting for all (taskWait) at its end         *)
  kTaskArraySize, (* slots of a deque                                      *)
  None

ASSUME StealingAssumption ==
  /\ Main \in Worker /\ IsFiniteSet(Worker)
  /\ Root \in Task /\ Calls \in [Task -> Seq(Task \cup {None})]
  /\ kTaskArraySize \in Nat \ {0}
  /\ None \notin Worker \cup Task \cup (Worker \X Nat)
  /\ {"unset", "finished"} \cap Worker = {}

(* A call is spawned once, by one call, and every call but the root by one *)
(* that is nearer to the root.                                             *)
ASSUME TreeAssumption ==
  /\ \A p \in Task : \A i, j \in DOMAIN Calls[p] :
       Calls[p][i] = Calls[p][j] /\ Calls[p][i] # None => i = j
  /\ \A p, q \in Task : p # q => Range(Calls[p]) \cap Range(Calls[q]) \subseteq {None}
  /\ \A p \in Task : Root \notin Range(Calls[p])
  /\ \A S \in SUBSET (Task \ {Root}) : S # {} =>
       \E t \in S : \A p \in S : t \notin Range(Calls[p])

VARIABLES
  deque,     (* each worker's deque                                        *)
  slot,      (* ... its task array                                         *)
  stealer,   (* ... the metadata of each task: unset, finished, a thief,   *)
             (* or the owner that waits for the thief                      *)
  semaphore, (* its count: 1 released, -1 somebody waits                   *)
  notified,  (* ... the condition variable was notified                    *)
  injected,  (* the task a sleeper is woken for; None stops it             *)
  sleepers,  (* WorkerBunk: the stack of sleeping workers                  *)
  haveJobs,  (* ... the number of workers with tasks to steal              *)
  stopped,   (* HighsTaskExecutor's hasStopped                             *)
  stack,     (* the calls of each thread                                   *)
  begun,     (* history: how often each task was called                    *)
  done       (* history: tasks that returned                               *)

bunk == <<sleepers, haveJobs>>
signals == <<semaphore, notified, injected>>
arrays == <<slot, stealer>>
history == <<begun, done>>
vars == <<deque, arrays, signals, bunk, stopped, stack, history>>

Slot == 0..kTaskArraySize - 1
NumWorkers == Cardinality(Worker)
Smaller(m, n) == IF m < n THEN m ELSE n

(* head, splitCopy and allStolenCopy are the owner's; tail and split are   *)
(* one word, ts.                                                           *)
EmptyDeque == [head |-> 0, splitCopy |-> 0, allStolenCopy |-> TRUE,
               tail |-> 0, split |-> 0, allStolen |-> TRUE, splitRequest |-> FALSE]

(* A call: its program counter and locals.  For a task's body: the task,   *)
(* what it has yet to do, the head when it began.  For the others: the     *)
(* stolen slot, the worker concerned, a number.                            *)
Frame(pc) == [pc |-> pc, task |-> None, todo |-> <<>>, base |-> 0,
              ref |-> <<>>, other |-> None, t |-> 0]
Body(task, head) ==
  [Frame("body") EXCEPT !.task = task, !.todo = Calls[task], !.base = head]
OnSlot(pc, ref) == [Frame(pc) EXCEPT !.ref = ref]
Release(w) == [Frame("release") EXCEPT !.other = w]

(* The calls, by what they are part of: a task's body; the wait for a       *)
(* stolen task, shrinkShared, which may turn into one; growShared and       *)
(* publishWork; push; a stolen task; the semaphore; the thread itself.      *)
BodyPc == {"body", "overflow"}
WaitPc == {"stolen", "leap", "leapSteal", "leapt", "yield", "yieldSteal",
           "waitForTaskToFinish", "popStolen"}
ShrinkPc == {"shrinkShared", "shrinkStore"}
GrowPc == {"growShared", "growAsked", "growMove", "growClear"}
PublishPc == {"publishWork", "selfSteal", "correctTail", "giveUp", "pushBack",
              "inject", "injectNext"}
PushPc == {"pushShare", "pushJobs"}
TakenPc == {"runStolenTask", "markAsFinished"}
SleepPc == {"acquire", "acquireSlow", "asleep", "reset"}
ReleasePc == {"release", "notify"}
ThreadPc == {"run_worker", "waitForNewTask", "woken", "random_steal_loop", "randomSteal"}
StopPc == {"stopWorkerThreads", "stopping"}
Pc == BodyPc \cup WaitPc \cup ShrinkPc \cup GrowPc \cup PublishPc \cup PushPc
        \cup TakenPc \cup SleepPc \cup ReleasePc \cup ThreadPc \cup StopPc \cup {"runOwn"}

Ref == Worker \X Slot
Deque == [head : Nat, splitCopy : 0..kTaskArraySize, allStolenCopy : BOOLEAN,
          tail : Nat, split : 0..kTaskArraySize, allStolen : BOOLEAN,
          splitRequest : BOOLEAN]
Frames == [pc : Pc, task : Task \cup {None}, todo : Seq(Task \cup Worker \cup {None}),
           base : Nat, ref : Ref \cup {<<>>},
           other : Worker \cup {None, "unset", "finished"}, t : Nat]

TypeOK ==
  /\ deque \in [Worker -> Deque]
  /\ slot \in [Worker -> [Slot -> Task \cup {None}]]
  /\ stealer \in [Worker -> [Slot -> Worker \cup {"unset", "finished"}]]
  /\ semaphore \in [Worker -> {-1, 0, 1}] /\ notified \in [Worker -> BOOLEAN]
  /\ injected \in [Worker -> Ref \cup {None}]
  /\ sleepers \in Seq(Worker) /\ haveJobs \in Int /\ stopped \in BOOLEAN
  /\ stack \in [Worker -> Seq(Frames)]
  /\ begun \in [Task -> Nat] /\ done \subseteq Task

Init ==
  /\ deque = [w \in Worker |-> EmptyDeque]
  /\ slot = [w \in Worker |-> [i \in Slot |-> None]]
  /\ stealer = [w \in Worker |-> [i \in Slot |-> "finished"]]
  /\ semaphore = [w \in Worker |-> 0] /\ notified = [w \in Worker |-> FALSE]
  /\ injected = [w \in Worker |-> None]
  /\ sleepers = <<>> /\ haveJobs = 0 /\ stopped = FALSE
  /\ stack = [w \in Worker |->
       IF w = Main THEN <<Frame("stopWorkerThreads"), Body(Root, 0)>>
                   ELSE <<Frame("run_worker")>>]
  /\ begun = [t \in Task |-> IF t = Root THEN 1 ELSE 0] /\ done = {}

-----------------------------------------------------------------------------
(* CALLS                                                                   *)

Depth(w) == Len(stack[w])
Top(w) == stack[w][Depth(w)]
At(w, pc) == Depth(w) > 0 /\ Top(w).pc = pc

(* The stack of w with its running call replaced, or ended.                *)
With(w, frame) == [stack[w] EXCEPT ![Depth(w)] = frame]
Below(w) == SubSeq(stack[w], 1, Depth(w) - 1)

Become(w, frame) == stack' = [stack EXCEPT ![w] = With(w, frame)]
Jump(w, pc) == Become(w, [Top(w) EXCEPT !.pc = pc])
Call(w, frame, back) == stack' = [stack EXCEPT ![w] = Append(With(w, back), frame)]
CallThen(w, frame, pc) == Call(w, frame, [Top(w) EXCEPT !.pc = pc])
Return(w) == stack' = [stack EXCEPT ![w] = Below(w)]

Begin(t) == begun' = [begun EXCEPT ![t] = @ + 1]
Metadata(ref) == stealer[ref[1]][ref[2]]
Finished(ref) == Metadata(ref) = "finished"

(* The owner changes its deque to d and, if it still shared tasks, is the  *)
(* last to know that they are gone: allStolenCopy, allStolen, haveJobs.    *)
GiveUpShare(w, d) ==
  IF d.allStolenCopy
  THEN deque' = [deque EXCEPT ![w] = d] /\ haveJobs' = haveJobs
  ELSE /\ deque' = [deque EXCEPT ![w] = [d EXCEPT !.allStolenCopy = TRUE,
                                                  !.allStolen = TRUE]]
       /\ haveJobs' = haveJobs - 1

-----------------------------------------------------------------------------
(* SPAWN AND SHARE                                                         *)

Spawns(w) == At(w, "body") /\ Top(w).todo # <<>> /\ Head(Top(w).todo) # None

(* push: the task goes into its slot; with nothing shared it is shared at  *)
(* once, else the split may grow over it.                                  *)
Spawn(w) ==
  LET d == deque[w]
      h == d.head
      body == [Top(w) EXCEPT !.todo = Tail(@)]
  IN /\ Spawns(w) /\ h < kTaskArraySize
     /\ slot' = [slot EXCEPT ![w][h] = Head(Top(w).todo)]
     /\ stealer' = [stealer EXCEPT ![w][h] = "unset"]
     /\ \/ /\ d.allStolenCopy
           /\ deque' = [deque EXCEPT ![w] =
                          [d EXCEPT !.head = h + 1, !.tail = h, !.split = h + 1]]
           /\ Call(w, Frame("pushShare"), body)
        \/ /\ ~d.allStolenCopy
           /\ deque' = [deque EXCEPT ![w].head = h + 1]
           /\ Call(w, Frame("growShared"), body)
     /\ UNCHANGED <<signals, bunk, stopped, history>>

(* A full array: what it holds is shared, the new task called directly.    *)
SpawnFull(w) ==
  LET d == deque[w]
  IN /\ Spawns(w) /\ d.head >= kTaskArraySize
     /\ IF d.splitCopy < kTaskArraySize /\ ~d.allStolenCopy
        THEN CallThen(w, Frame("growShared"), "overflow")
        ELSE Jump(w, "overflow")
     /\ UNCHANGED <<deque, arrays, signals, bunk, stopped, history>>

Overflow(w) ==
  LET task == Head(Top(w).todo)
  IN /\ At(w, "overflow") /\ Begin(task)
     /\ deque' = [deque EXCEPT ![w].head = @ + 1]
     /\ Call(w, Body(task, deque[w].head + 1),
             [Top(w) EXCEPT !.pc = "body", !.todo = Tail(@)])
     /\ UNCHANGED <<arrays, signals, bunk, stopped, done>>

(* The rest of push with nothing shared before.                            *)
PushShare(w) ==
  \/ /\ At(w, "pushShare")
     /\ deque' = [deque EXCEPT ![w] = [@ EXCEPT !.allStolen = FALSE,
                      !.splitCopy = deque[w].head, !.allStolenCopy = FALSE]]
     /\ Jump(w, "pushJobs")
     /\ UNCHANGED <<arrays, signals, bunk, stopped, history>>
  \/ /\ At(w, "pushJobs")
     /\ deque' = [deque EXCEPT ![w].splitRequest = FALSE]
     /\ haveJobs' = haveJobs + 1
     /\ IF haveJobs < NumWorkers - 1 THEN Jump(w, "publishWork") ELSE Return(w)
     /\ UNCHANGED <<arrays, signals, sleepers, stopped, history>>

(* The split moves up to the head, unless everybody has jobs and nobody    *)
(* asked; t tells that somebody did.                                       *)
GrowShared(w) ==
  LET d == deque[w]
      new == Smaller(kTaskArraySize, d.head)
  IN /\ \/ /\ At(w, "growShared")
           /\ Jump(w, IF haveJobs = NumWorkers THEN "growAsked" ELSE "growMove")
           /\ UNCHANGED deque
        \/ /\ At(w, "growAsked")
           /\ IF d.splitRequest
              THEN Become(w, [Top(w) EXCEPT !.pc = "growMove", !.t = 1])
              ELSE Return(w)
           /\ UNCHANGED deque
        \/ /\ At(w, "growMove")
           /\ deque' = [deque EXCEPT ![w] = [d EXCEPT !.split = new, !.splitCopy = new]]
           /\ Jump(w, IF Top(w).t = 1 THEN "growClear" ELSE "publishWork")
        \/ /\ At(w, "growClear")
           /\ deque' = [deque EXCEPT ![w].splitRequest = FALSE] /\ Return(w)
     /\ UNCHANGED <<arrays, signals, bunk, stopped, history>>

(* publishWork takes a sleeper off the stack, then a task off its own      *)
(* deque (selfStealAndGetTail), predicting that there is one.              *)
PopSleeper(w) ==
  /\ At(w, "publishWork")
  /\ IF sleepers = <<>>
     THEN Return(w) /\ UNCHANGED sleepers
     ELSE /\ Become(w, [Top(w) EXCEPT !.pc = "selfSteal", !.other = Head(sleepers)])
          /\ sleepers' = Tail(sleepers)
  /\ UNCHANGED <<deque, arrays, signals, haveJobs, stopped, history>>

(* The fetch_add of selfStealAndGetTail.                                   *)
SelfSteal(w) ==
  LET t == deque[w].tail
  IN /\ At(w, "selfSteal")
     /\ deque' = [deque EXCEPT ![w].tail = t + 1]
     /\ Become(w, [Top(w) EXCEPT !.t = t,
          !.pc = IF t = deque[w].splitCopy THEN "correctTail" ELSE "inject"])
     /\ UNCHANGED <<arrays, signals, bunk, stopped, history>>

(* There was none: the tail goes back, and so does the sleeper.            *)
GiveBack(w) ==
  \/ /\ At(w, "correctTail")
     /\ deque' = [deque EXCEPT ![w].tail = Top(w).t]
     /\ Jump(w, "giveUp")
     /\ UNCHANGED <<arrays, signals, bunk, stopped, history>>
  \/ /\ At(w, "giveUp")
     /\ IF deque[w].head = deque[w].splitCopy
        THEN GiveUpShare(w, deque[w]) ELSE UNCHANGED <<deque, haveJobs>>
     /\ Jump(w, "pushBack")
     /\ UNCHANGED <<arrays, signals, sleepers, stopped, history>>
  \/ /\ At(w, "pushBack")
     /\ sleepers' = <<Top(w).other>> \o sleepers /\ Return(w)
     /\ UNCHANGED <<deque, arrays, signals, haveJobs, stopped, history>>

(* There was one: injectTaskAndNotify, and on to the next sleeper unless   *)
(* it was the last.                                                        *)
Inject(w) ==
  \/ /\ At(w, "inject")
     /\ injected' = [injected EXCEPT ![Top(w).other] = <<w, Top(w).t>>]
     /\ CallThen(w, Release(Top(w).other), "injectNext")
     /\ UNCHANGED <<deque, arrays, semaphore, notified, bunk, stopped, history>>
  \/ /\ At(w, "injectNext")
     /\ IF Top(w).t = deque[w].splitCopy - 1
        THEN /\ Return(w)
             /\ IF deque[w].head = deque[w].splitCopy
                THEN GiveUpShare(w, deque[w]) ELSE UNCHANGED <<deque, haveJobs>>
        ELSE Jump(w, "publishWork") /\ UNCHANGED <<deque, haveJobs>>
     /\ UNCHANGED <<arrays, signals, sleepers, stopped, history>>

-----------------------------------------------------------------------------
(* SYNC: the owner takes back its newest task                              *)

(* A sync on its own or one of those of taskWait.                          *)
Syncs(w) ==
  /\ At(w, "body") /\ deque[w].head > Top(w).base
  /\ Top(w).todo # <<>> => Head(Top(w).todo) = None
Synced(w) == [Top(w) EXCEPT !.todo = IF @ = <<>> THEN @ ELSE Tail(@)]

(* pop.  An overflown task has run; the newest is stolen when everything   *)
(* is, and else the split may have to move down to get at it.              *)
PopOverflown(w) ==
  /\ Syncs(w) /\ deque[w].head > kTaskArraySize
  /\ deque' = [deque EXCEPT ![w].head = @ - 1]
  /\ Become(w, Synced(w))
  /\ UNCHANGED <<arrays, signals, bunk, stopped, history>>

(* The owner has its task: with d as its deque but for the head, which     *)
(* goes down, it gives up an empty deque or shares more, and calls it; the *)
(* frames below are those of the body.                                     *)
TakeOwn(w, d, below) ==
  LET h == d.head - 1
      popped == [d EXCEPT !.head = h]
      run == OnSlot("runOwn", <<w, h>>)
  IN /\ IF h = 0 THEN GiveUpShare(w, popped)
        ELSE deque' = [deque EXCEPT ![w] = popped] /\ haveJobs' = haveJobs
     /\ stack' = [stack EXCEPT ![w] =
          IF h # 0 /\ h # d.splitCopy
          THEN Append(Append(below, run), Frame("growShared")) ELSE Append(below, run)]

Pop(w) ==
  LET d == deque[w]
      ref == <<w, d.head - 1>>
  IN /\ Syncs(w) /\ d.head <= kTaskArraySize
     /\ \/ /\ d.allStolenCopy
           /\ Call(w, OnSlot("stolen", ref), Synced(w)) /\ UNCHANGED <<deque, haveJobs>>
        \/ ~d.allStolenCopy /\ d.splitCopy # d.head /\ TakeOwn(w, d, With(w, Synced(w)))
        \/ /\ ~d.allStolenCopy /\ d.splitCopy = d.head /\ d.tail = d.splitCopy
           /\ GiveUpShare(w, d) /\ Call(w, OnSlot("stolen", ref), Synced(w))
        \/ /\ ~d.allStolenCopy /\ d.splitCopy = d.head /\ d.tail # d.splitCopy
           /\ deque' = [deque EXCEPT ![w].splitCopy = (d.tail + @) \div 2]
           /\ Call(w, OnSlot("shrinkShared", ref), Synced(w)) /\ haveJobs' = haveJobs
     /\ UNCHANGED <<arrays, signals, sleepers, stopped, history>>

(* MUTANT of ShrinkShared: thieves that passed the new split are not       *)
(* noticed.                                                                *)
ShrinkSharedUnchecked(w) ==
  LET moved == [deque[w] EXCEPT !.split = deque[w].splitCopy]
  IN /\ \/ /\ At(w, "shrinkShared") /\ deque[w].tail = deque[w].head
           /\ GiveUpShare(w, moved) /\ Jump(w, "stolen")
        \/ /\ At(w, "shrinkShared") /\ deque[w].tail # deque[w].head
           /\ TakeOwn(w, moved, Below(w))
     /\ UNCHANGED <<arrays, signals, sleepers, stopped, history>>

(* shrinkShared moves the split from the head down to the new splitCopy    *)
(* and learns the tail.  If thieves got past the new split meanwhile, the  *)
(* owner takes back half of what they left.                                *)
ShrinkShared(w) ==
  LET d == deque[w]
      moved == [d EXCEPT !.split = d.splitCopy]
  IN /\ \/ /\ At(w, "shrinkShared") /\ d.tail = d.head
           /\ GiveUpShare(w, moved) /\ Jump(w, "stolen")
        \/ /\ At(w, "shrinkShared") /\ d.tail # d.head /\ d.tail > d.splitCopy
           /\ deque' = [deque EXCEPT ![w] =
                          [moved EXCEPT !.splitCopy = (d.tail + d.head) \div 2]]
           /\ Jump(w, "shrinkStore") /\ haveJobs' = haveJobs
        \/ At(w, "shrinkShared") /\ d.tail <= d.splitCopy /\ TakeOwn(w, moved, Below(w))
        \/ At(w, "shrinkStore") /\ TakeOwn(w, moved, Below(w))
     /\ UNCHANGED <<arrays, signals, sleepers, stopped, history>>

(* HighsTask::run as owner.                                                *)
RunOwn(w) ==
  LET task == slot[w][deque[w].head]
  IN /\ At(w, "runOwn")
     /\ IF Metadata(Top(w).ref) = "unset"
        THEN Begin(task) /\ Become(w, Body(task, deque[w].head))
        ELSE Return(w) /\ begun' = begun
     /\ UNCHANGED <<deque, arrays, signals, bunk, stopped, done>>

(* A body returns when it has waited for what it spawned.                  *)
BodyEnds(w) ==
  /\ At(w, "body") /\ Top(w).todo = <<>> /\ deque[w].head = Top(w).base
  /\ done' = done \cup {Top(w).task}
  /\ Return(w)
  /\ UNCHANGED <<deque, arrays, signals, bunk, stopped, begun>>

-----------------------------------------------------------------------------
(* STEAL                                                                   *)

(* The access to ts of steal and stealWithRetryLoop.  The call goes on in  *)
(* the frame hit after the stolen task, in miss when there is none.        *)
Steal(w, victim, hit, miss) ==
  LET d == deque[victim]
  IN IF d.tail < d.split
     THEN /\ deque' = [deque EXCEPT ![victim].tail = @ + 1]
          /\ Call(w, OnSlot("runStolenTask", <<victim, d.tail>>), hit)
     ELSE /\ deque' = [deque EXCEPT ![victim].splitRequest =
                                      @ \/ d.tail < kTaskArraySize]
          /\ Become(w, miss)

(* HighsTask::run as stealer, and markAsFinished: whoever took the place   *)
(* of the stealer in the metadata waits for a notification.  What          *)
(* runStolenTask does around it, rootTask and the unwinding of an          *)
(* Interrupt, is part of cancellation, which is left out.                  *)
RunStolenTask(w) ==
  LET ref == Top(w).ref
      task == slot[ref[1]][ref[2]]
  IN /\ At(w, "runStolenTask")
     /\ IF Metadata(ref) = "unset"
        THEN /\ stealer' = [stealer EXCEPT ![ref[1]][ref[2]] = w]
             /\ Begin(task)
             /\ CallThen(w, Body(task, deque[w].head), "markAsFinished")
        ELSE Jump(w, "markAsFinished") /\ UNCHANGED <<stealer, begun>>
     /\ UNCHANGED <<deque, slot, signals, bunk, stopped, done>>

(* MUTANT of MarkAsFinished: the owner is always notified.                 *)
MarkAsFinishedLoud(w) ==
  LET ref == Top(w).ref
  IN /\ At(w, "markAsFinished")
     /\ stealer' = [stealer EXCEPT ![ref[1]][ref[2]] = "finished"]
     /\ Become(w, Release(ref[1]))
     /\ UNCHANGED <<deque, slot, signals, bunk, stopped, history>>

MarkAsFinished(w) ==
  LET ref == Top(w).ref
  IN /\ At(w, "markAsFinished")
     /\ stealer' = [stealer EXCEPT ![ref[1]][ref[2]] = "finished"]
     /\ IF Metadata(ref) # w THEN Become(w, Release(Metadata(ref))) ELSE Return(w)
     /\ UNCHANGED <<deque, slot, signals, bunk, stopped, history>>

-----------------------------------------------------------------------------
(* WAIT FOR A STOLEN TASK                                                  *)

(* leapfrogStolenTask: once the thief is known, steal from it; a thief     *)
(* that has not begun is waited for.                                       *)
Leapfrog(w) ==
  LET ref == Top(w).ref
      m == Metadata(ref)
  IN /\ \/ /\ At(w, "stolen") /\ m # "unset"
           /\ IF Finished(ref) THEN Jump(w, "popStolen")
              ELSE Become(w, [Top(w) EXCEPT !.pc = "leap", !.other = m])
           /\ UNCHANGED deque
        \/ /\ At(w, "leap")
           /\ IF deque[Top(w).other].allStolen
              THEN Become(w, OnSlot("yield", ref)) ELSE Jump(w, "leapSteal")
           /\ UNCHANGED deque
        \/ At(w, "leapSteal") /\ Steal(w, Top(w).other,
             [Top(w) EXCEPT !.pc = "leapt"], OnSlot("yield", ref))
        \/ /\ At(w, "leapt")
           /\ Jump(w, IF Finished(ref) THEN "popStolen" ELSE "leap")
           /\ UNCHANGED deque
     /\ UNCHANGED <<arrays, signals, bunk, stopped, history>>

(* sync_stolen_task steals from anybody while the task is unfinished, and  *)
(* sleeps after a while.                                                   *)
Yield(w) ==
  LET ref == Top(w).ref
  IN /\ \/ /\ At(w, "yield") /\ Finished(ref)
           /\ Jump(w, "popStolen") /\ UNCHANGED deque
        \/ /\ At(w, "yield") /\ ~Finished(ref)
           /\ Jump(w, "waitForTaskToFinish") /\ UNCHANGED deque
        \/ /\ At(w, "yield") /\ ~Finished(ref)
           /\ \E victim \in Worker \ {w} :
                /\ ~deque[victim].allStolen
                /\ Become(w, [Top(w) EXCEPT !.pc = "yieldSteal", !.other = victim])
           /\ UNCHANGED deque
        \/ At(w, "yieldSteal") /\ Steal(w, Top(w).other,
             OnSlot("yield", ref), OnSlot("yield", ref))
     /\ UNCHANGED <<arrays, signals, bunk, stopped, history>>

(* MUTANT of WaitForTaskToFinish: the owner waits for a finished task.     *)
WaitUnchecked(w) ==
  /\ At(w, "waitForTaskToFinish")
  /\ stealer' = [stealer EXCEPT ![Top(w).ref[1]][Top(w).ref[2]] =
                  IF @ = "finished" THEN @ ELSE w]
  /\ CallThen(w, Frame("acquireSlow"), "popStolen")
  /\ UNCHANGED <<deque, slot, signals, bunk, stopped, history>>

(* requestNotifyWhenFinished: the owner takes the thief's place in the     *)
(* metadata, unless the task is finished, and waits.                       *)
WaitForTaskToFinish(w) ==
  LET ref == Top(w).ref
  IN /\ At(w, "waitForTaskToFinish")
     /\ IF Finished(ref)
        THEN Jump(w, "popStolen") /\ UNCHANGED stealer
        ELSE /\ stealer' = [stealer EXCEPT ![ref[1]][ref[2]] = w]
             /\ CallThen(w, Frame("acquireSlow"), "popStolen")
     /\ UNCHANGED <<deque, slot, signals, bunk, stopped, history>>

(* MUTANT of PopStolen: what was shared stays shared.                      *)
PopStolenSharing(w) ==
  /\ At(w, "popStolen") /\ Return(w)
  /\ deque' = [deque EXCEPT ![w].head = @ - 1]
  /\ UNCHANGED <<arrays, signals, bunk, stopped, history>>

PopStolen(w) ==
  /\ At(w, "popStolen") /\ Return(w)
  /\ GiveUpShare(w, [deque[w] EXCEPT !.head = @ - 1])
  /\ UNCHANGED <<arrays, signals, sleepers, stopped, history>>

-----------------------------------------------------------------------------
(* THE SEMAPHORE                                                           *)

(* The count is exchanged for 1; whoever waited is notified under the      *)
(* mutex, which a waiter holds from its own exchange until it waits.       *)
ReleaseSemaphore(w) ==
  LET v == Top(w).other
  IN \/ /\ At(w, "release")
        /\ semaphore' = [semaphore EXCEPT ![v] = 1]
        /\ IF semaphore[v] < 0 THEN Jump(w, "notify") ELSE Return(w)
        /\ UNCHANGED <<deque, arrays, notified, injected, bunk, stopped, history>>
     \/ /\ At(w, "notify")
        /\ notified' = [notified EXCEPT ![v] = @ \/ At(v, "asleep")] /\ Return(w)
        /\ UNCHANGED <<deque, arrays, semaphore, injected, bunk, stopped, history>>

(* acquire spins for a while, then exchanges the count for -1 and sleeps.  *)
Acquire(w) ==
  /\ \/ /\ At(w, "acquire") /\ semaphore[w] = 1
        /\ semaphore' = [semaphore EXCEPT ![w] = 0] /\ Return(w)
     \/ /\ At(w, "acquire") /\ semaphore[w] # 1
        /\ Jump(w, "acquireSlow") /\ UNCHANGED semaphore
     \/ /\ At(w, "acquireSlow")
        /\ semaphore' = [semaphore EXCEPT ![w] = -1]
        /\ Jump(w, IF semaphore[w] = 1 THEN "reset" ELSE "asleep")
     \/ /\ At(w, "reset")
        /\ semaphore' = [semaphore EXCEPT ![w] = 0] /\ Return(w)
  /\ UNCHANGED <<deque, arrays, notified, injected, bunk, stopped, history>>

(* A waiter that is notified looks at the count.                           *)
WakeUp(w) ==
  /\ At(w, "asleep") /\ notified[w]
  /\ notified' = [notified EXCEPT ![w] = FALSE]
  /\ Jump(w, IF semaphore[w] = 1 THEN "reset" ELSE "asleep")
  /\ UNCHANGED <<deque, arrays, semaphore, injected, bunk, stopped, history>>

(* So does one that wakes without a notification.                          *)
SpuriousWakeUp(w) ==
  /\ At(w, "asleep") /\ semaphore[w] = 1 /\ Jump(w, "reset")
  /\ notified' = [notified EXCEPT ![w] = FALSE]
  /\ UNCHANGED <<deque, arrays, semaphore, injected, bunk, stopped, history>>

-----------------------------------------------------------------------------
(* THE WORKER THREADS                                                      *)

(* run_worker: waitForNewTask on the stack of sleepers, run the task that  *)
(* was injected, steal for as long as random_steal_loop finds something.   *)
RunWorker(w) ==
  \/ /\ At(w, "run_worker")
     /\ IF stopped THEN Return(w) ELSE Jump(w, "waitForNewTask")
     /\ UNCHANGED <<deque, arrays, signals, bunk, stopped, history>>
  \/ /\ At(w, "waitForNewTask")
     /\ sleepers' = <<w>> \o sleepers
     /\ CallThen(w, Frame("acquire"), "woken")
     /\ UNCHANGED <<deque, arrays, signals, haveJobs, stopped, history>>
  \/ /\ At(w, "woken")
     /\ IF injected[w] = None THEN Return(w)
        ELSE CallThen(w, OnSlot("runStolenTask", injected[w]), "random_steal_loop")
     /\ UNCHANGED <<deque, arrays, signals, bunk, stopped, history>>

RandomStealLoop(w) ==
  /\ \/ /\ At(w, "random_steal_loop")
        /\ Jump(w, "waitForNewTask") /\ UNCHANGED deque
     \/ /\ At(w, "random_steal_loop")
        /\ \E victim \in Worker \ {w} :
             /\ ~deque[victim].allStolen
             /\ Become(w, [Top(w) EXCEPT !.pc = "randomSteal", !.other = victim])
        /\ UNCHANGED deque
     \/ At(w, "randomSteal") /\ Steal(w, Top(w).other,
          Frame("random_steal_loop"), Frame("random_steal_loop"))
  /\ UNCHANGED <<arrays, signals, bunk, stopped, history>>

(* The main thread's shutdown injects the null task into every worker, its *)
(* own deque included, and does not wait for them.                         *)
StopWorkerThreads(w) ==
  \/ /\ At(w, "stopWorkerThreads") /\ ~stopped
     /\ stopped' = TRUE
     /\ Become(w, [Frame("stopping") EXCEPT !.todo = SetToSeq(Worker)])
     /\ UNCHANGED <<deque, arrays, signals, bunk, history>>
  \/ /\ At(w, "stopping") /\ Top(w).todo # <<>>
     /\ LET v == Head(Top(w).todo)
        IN /\ injected' = [injected EXCEPT ![v] = None]
           /\ Call(w, Release(v), [Top(w) EXCEPT !.todo = Tail(@)])
     /\ UNCHANGED <<deque, arrays, semaphore, notified, bunk, stopped, history>>
  \/ /\ At(w, "stopping") /\ Top(w).todo = <<>> /\ Return(w)
     /\ UNCHANGED <<deque, arrays, signals, bunk, stopped, history>>

-----------------------------------------------------------------------------
Step(w) ==
  \/ Spawn(w) \/ SpawnFull(w) \/ Overflow(w) \/ PushShare(w) \/ GrowShared(w)
  \/ PopSleeper(w) \/ SelfSteal(w) \/ GiveBack(w) \/ Inject(w)
  \/ PopOverflown(w) \/ Pop(w) \/ ShrinkShared(w) \/ RunOwn(w)
  \/ BodyEnds(w) \/ RunStolenTask(w) \/ MarkAsFinished(w)
  \/ Leapfrog(w) \/ Yield(w) \/ WaitForTaskToFinish(w) \/ PopStolen(w)
  \/ ReleaseSemaphore(w) \/ Acquire(w) \/ WakeUp(w)
  \/ RunWorker(w) \/ RandomStealLoop(w) \/ StopWorkerThreads(w)

Next == \E w \in Worker : Step(w) \/ SpuriousWakeUp(w)

Spec == Init /\ [][Next]_vars /\ \A w \in Worker : WF_vars(Step(w))

-----------------------------------------------------------------------------
(* PROPERTIES                                                              *)

(* Fork and join: no task is called twice, by its owner and a thief, by    *)
(* two thieves or from a slot used again; a call returns only after all    *)
(* that it spawned, so that what for_each or a simplex iteration reads     *)
(* afterwards is complete; and every call is made and returns.             *)
Tree == INSTANCE ForkJoin
ImplementsForkJoin == Tree!TreeSpec

(* Its safety alone, also while a third thread hunts on a deque whose      *)
(* owner has moved the tail beyond the split.                              *)
ForksAndJoins == Tree!TreeInit /\ [][Tree!TreeNext]_<<begun, done>>

(* A stolen task has one taker: no two workers run or mark the same slot,  *)
(* be they thieves, leapfrogging owners or sleepers it was handed to, also *)
(* while a third hunts on a deque the owner steals from itself.            *)
Taken(w) == {stack[w][l].ref : l \in {m \in 1..Depth(w) : stack[w][m].pc \in TakenPc}}
TakenOnce == \A v, w \in Worker : v # w => Taken(v) \cap Taken(w) = {}

(* The asserts of growShared and the assumption of publishWork: the split  *)
(* only moves up over tasks the owner still has, and only a deque that     *)
(* still shares something hands its tasks to sleepers.  Shrinking, giving  *)
(* up and predicting a steal all have to leave the copies right for that.  *)
SplitBelowHead ==
  \A w \in Worker :
    /\ At(w, "growMove") => deque[w].splitCopy < Smaller(kTaskArraySize, deque[w].head)
    /\ At(w, "selfSteal") => ~deque[w].allStolenCopy

(* Who is about to release the semaphore of v.                             *)
Releasers(v) == {w \in Worker : At(w, "release") /\ Top(w).other = v}

(* A semaphore that counts to one loses no signal: nobody releases it      *)
(* while an earlier signal is not yet taken, though a task injected into a *)
(* sleeper, the end of a stolen task and the shutdown all use the same     *)
(* one.  The main thread's own is released by the shutdown alone at last.  *)
NoSignalLost ==
  \A v \in Worker : Releasers(v) # {} =>
    /\ Cardinality(Releasers(v)) = 1
    /\ semaphore[v] # 1 /\ ~At(v, "reset")

(* The scheduler comes to an end: the root call returns, no owner waits    *)
(* for ever for a task that was stolen, and every thread leaves after the  *)
(* shutdown, however it slept or stole.                                    *)
EveryThreadEnds == <>(\A w \in Worker : stack[w] = <<>>)
=============================================================================
