-------------------------- MODULE WorkStealingProofs --------------------------
(***************************************************************************)
(* Theorems about the deques of WorkStealing, for any number of threads,   *)
(* any calls and any size of the arrays, and what ForkJoinProofs needs.    *)
(*                                                                         *)
(* The invariant of the first part, SInv, says what each thread's stack    *)
(* looks like (Structure: which call may be under which, and where the     *)
(* head of the deque was when each began), what the running call of an     *)
(* owner knows of its deque while thieves move the tail (Owned), and that  *)
(* the slots anybody may look at hold tasks (Filled).  A step changes one  *)
(* stack and one deque, so each action is done by a lemma on stacks and    *)
(* one on deques.                                                          *)
(*                                                                         *)
(* The second part states what relates the threads: what task each call    *)
(* stands for and that no task is in two places (Work), who holds a claim  *)
(* on a slot that was taken (Claims, Untaken), who is owed a signal and by *)
(* whom (Tokens), what a waiter knows of its slot (Waits) and what the     *)
(* shutdown finds and leaves (Stops).  Each is stated over functions of    *)
(* the state (Job, Held, Claim, ...), so that what a kind of step does to  *)
(* it is one lemma about any such functions.                               *)
(***************************************************************************)
EXTENDS WorkStealing, FiniteSetTheorems, SequenceTheorems, TLAPS

-----------------------------------------------------------------------------
(* THE CALLS OF A THREAD                                                   *)

Levels(w) == 1..Depth(w)

RefPc == WaitPc \cup ShrinkPc \cup TakenPc \cup {"runOwn"}
OtherPc == {"leap", "leapSteal", "leapt", "yieldSteal", "randomSteal",
            "selfSteal", "correctTail", "giveUp", "pushBack", "inject", "injectNext"}

(* A slot that holds a task.                                               *)
FullRef(r) == r \in Ref /\ slot[r[1]][r[2]] \in Task

(* Of the calls that a body spawns, none twice.                            *)
Todos == {s \in Seq(Task \cup {None}) :
            \A i, j \in DOMAIN s : s[i] = s[j] /\ s[i] # None => i = j}

FrameOK(f) ==
  /\ f.pc \in RefPc => FullRef(f.ref)
  /\ f.pc \in OtherPc => f.other \in Worker
  /\ f.pc \in BodyPc => f.task \in Task /\ f.todo \in Todos
  /\ f.pc = "overflow" => f.todo # <<>> /\ Head(f.todo) # None
  /\ f.pc = "stopping" => f.todo \in Seq(Worker)

Framed(w) == \A l \in Levels(w) : FrameOK(stack[w][l])

(* g may be the call that f is waiting for.                                *)
MayCall(f, g) ==
  \/ f.pc = "body" /\ g.pc \in BodyPc /\ f.base <= g.base
  \/ f.pc = "body" /\ g.pc \in WaitPc \cup ShrinkPc \cup {"runOwn"} /\ f.base <= g.ref[2]
  \/ f.pc = "body" /\ g.pc \in PushPc
  \/ f.pc \in {"body", "overflow", "runOwn"} /\ g.pc \in GrowPc \cup PublishPc
  \/ f.pc = "injectNext" /\ g.pc \in ReleasePc
  \/ f.pc \in {"leapt", "yield", "random_steal_loop"} /\ g.pc \in TakenPc \cup ReleasePc
  \/ f.pc = "popStolen" /\ g.pc \in SleepPc \ {"acquire"}
  \/ f.pc = "woken" /\ g.pc \in SleepPc
  \/ f.pc = "markAsFinished" /\ g.pc \in BodyPc
  \/ f.pc = "stopping" /\ g.pc \in ReleasePc
  \/ f.pc = "stopWorkerThreads" /\ g.pc \in BodyPc /\ g.task = Root

AtBottom(w, f) == f.pc \in (IF w = Main THEN StopPc ELSE ThreadPc)

(* The shape of a stack s of w with h as the head of its deque.            *)
Chain(w, s) ==
  /\ \A l \in 1..(Len(s) - 1) : MayCall(s[l], s[l + 1])
  /\ Len(s) > 0 => AtBottom(w, s[1])
  /\ \A l \in 2..Len(s) : s[l].pc \notin StopPc \cup ThreadPc
  /\ \A l \in 1..Len(s) : s[l].pc \in RefPc => s[l].ref \in Ref

(* The call of an own task or of one that overflows does not see the head  *)
(* move.                                                                   *)
AtHead(w, f, h) ==
  /\ f.pc = "runOwn" => f.ref = <<w, h>>
  /\ f.pc = "overflow" => kTaskArraySize <= h

(* Where the head is, or was when a call that goes on in a body began.     *)
Heights(w, s, h) ==
  \A l \in 1..Len(s) :
    /\ s[l].pc \in WaitPc \cup ShrinkPc =>
         /\ s[l].ref[1] = w
         /\ (IF l + 2 <= Len(s) THEN s[l + 2].base ELSE h) = s[l].ref[2] + 1
    /\ AtHead(w, s[l], h)

Based(s, h) ==
  /\ \A l \in 1..Len(s) : s[l].pc \in BodyPc => s[l].base <= h
  /\ \A l, m \in 1..Len(s) :
       l <= m /\ s[l].pc \in BodyPc /\ s[m].pc \in BodyPc => s[l].base <= s[m].base

Shape(w, s, h) == Chain(w, s) /\ Heights(w, s, h) /\ Based(s, h)

Structure(w) == Framed(w) /\ Shape(w, stack[w], deque[w].head)

-----------------------------------------------------------------------------
(* Lemmas about stacks                                                     *)

LEMMA TodoFacts ==
  /\ \A t \in Task : Calls[t] \in Todos
  /\ \A s \in Todos : s \in Seq(Task \cup {None}) /\ s \in Seq(Task \cup Worker \cup {None})
  /\ \A s \in Todos : s # <<>> =>
       /\ Head(s) \in Task \cup {None} /\ Tail(s) \in Todos
       /\ Range(s) = {Head(s)} \cup Range(Tail(s))
       /\ Head(s) # None => Head(s) \notin Range(Tail(s))
<1>1. ASSUME NEW t \in Task  PROVE Calls[t] \in Todos
  <2>1. Calls[t] \in Seq(Task \cup {None})
    BY StealingAssumption
  <2>2. \A i, j \in DOMAIN Calls[t] : Calls[t][i] = Calls[t][j] /\ Calls[t][i] # None => i = j
    BY TreeAssumption
  <2> QED  BY <2>1, <2>2 DEF Todos
<1>2. ASSUME NEW s \in Todos
      PROVE  s \in Seq(Task \cup {None}) /\ s \in Seq(Task \cup Worker \cup {None})
  BY DEF Todos
<1>3. ASSUME NEW s \in Todos, s # <<>>
      PROVE  /\ Head(s) \in Task \cup {None} /\ Tail(s) \in Todos
             /\ Range(s) = {Head(s)} \cup Range(Tail(s))
             /\ Head(s) # None => Head(s) \notin Range(Tail(s))
  <2>1. s \in Seq(Task \cup {None})
    BY <1>2
  <2>2. PICK n \in Nat : n = Len(s) /\ n > 0
    BY <1>3, <2>1
  <2>3. Head(s) = s[1] /\ Tail(s) \in Seq(Task \cup {None}) /\ Len(Tail(s)) = n - 1
        /\ \A i \in 1..(n - 1) : Tail(s)[i] = s[i + 1]
    BY <1>3, <2>1, <2>2
  <2>4. \A i, j \in 1..n : s[i] = s[j] /\ s[i] # None => i = j
    BY <2>1, <2>2 DEF Todos
  <2>5. Tail(s) \in Todos
    <3>1. \A i, j \in 1..(n - 1) : Tail(s)[i] = Tail(s)[j] /\ Tail(s)[i] # None => i = j
      BY <2>2, <2>3, <2>4
    <3>2. PICK z \in Seq(Task \cup {None}) : z = Tail(s)
      BY <2>3
    <3>3. DOMAIN z = 1..(n - 1)
      <4>1. Len(z) = n - 1 /\ DOMAIN z = 1..Len(z)
        BY <2>3, <3>2
      <4> QED  BY <4>1
    <3>4. \A i, j \in DOMAIN z : z[i] = z[j] /\ z[i] # None => i = j
      BY <3>1, <3>2, <3>3
    <3>5. z \in Todos
      BY <3>2, <3>4 DEF Todos
    <3> QED  BY <3>2, <3>5
  <2>6. Range(s) = {Head(s)} \cup Range(Tail(s))
    <3>1. \A x \in Range(s) : x = Head(s) \/ x \in Range(Tail(s))
      <4> SUFFICES ASSUME NEW i \in 1..n, i # 1  PROVE s[i] \in Range(Tail(s))
        BY <2>1, <2>2, <2>3 DEF Range
      <4>1. i - 1 \in 1..(n - 1) /\ (i - 1) + 1 = i
        BY <2>2
      <4>2. Tail(s)[i - 1] = s[i] /\ i - 1 \in DOMAIN Tail(s)
        BY <2>2, <2>3, <4>1
      <4> QED  BY <4>2 DEF Range
    <3>2. \A x \in Range(Tail(s)) : x \in Range(s)
      <4> SUFFICES ASSUME NEW i \in 1..(n - 1)  PROVE Tail(s)[i] \in Range(s)
        BY <2>2, <2>3 DEF Range
      <4>1. i + 1 \in DOMAIN s
        BY <2>1, <2>2
      <4> QED  BY <2>3, <4>1 DEF Range
    <3>3. Head(s) \in Range(s)
      <4>1. 1 \in DOMAIN s
        BY <2>1, <2>2
      <4> QED  BY <2>3, <4>1 DEF Range
    <3> QED  BY <3>1, <3>2, <3>3
  <2>7. ASSUME Head(s) # None  PROVE Head(s) \notin Range(Tail(s))
    <3> SUFFICES ASSUME NEW i \in 1..(n - 1), Tail(s)[i] = Head(s)  PROVE FALSE
      BY <2>2, <2>3 DEF Range
    <3>1. i + 1 \in 1..n /\ 1 \in 1..n /\ s[i + 1] = s[1] /\ i + 1 # 1
      BY <2>2, <2>3
    <3> QED  BY <2>3, <2>4, <2>7, <3>1
  <2>8. Head(s) \in Task \cup {None}
    BY <1>3, <2>1
  <2> QED  BY <2>5, <2>6, <2>7, <2>8
<1> QED  BY <1>1, <1>2, <1>3

LEMMA FrontSeq ==
  ASSUME NEW S, NEW s \in Seq(S), Len(s) > 0
  PROVE  /\ SubSeq(s, 1, Len(s) - 1) \in Seq(S)
         /\ Len(SubSeq(s, 1, Len(s) - 1)) = Len(s) - 1
         /\ \A l \in 1..(Len(s) - 1) : SubSeq(s, 1, Len(s) - 1)[l] = s[l]
<1> DEFINE n == Len(s) - 1
<1>1. n \in Nat /\ n \in Int /\ 1 \in Int /\ \A l \in 1..n : s[l] \in S
  OBVIOUS
<1>2. n = Len(s) - 1
  OBVIOUS
<1> HIDE DEF n
<1>3. SubSeq(s, 1, n) \in Seq(S) /\ Len(SubSeq(s, 1, n)) = IF 1 <= n THEN n - 1 + 1 ELSE 0
  BY <1>1, SubSeqProperties
<1>4. \A l \in 1..n : SubSeq(s, 1, n)[l] = s[l]
  BY <1>1
<1> QED  BY <1>1, <1>2, <1>3, <1>4

LEMMA StackTypes ==
  ASSUME TypeOK, NEW w \in Worker
  PROVE  /\ stack[w] \in Seq(Frames) /\ Depth(w) \in Nat
         /\ \A l \in Levels(w) : stack[w][l] \in Frames
         /\ \A pc : At(w, pc) => Depth(w) > 0 /\ Depth(w) \in Levels(w) /\ Top(w) \in Frames
                                  /\ Top(w).pc = pc
BY DEF TypeOK, Depth, Levels, At, Top

LEMMA BecomeStack ==
  ASSUME TypeOK, NEW w \in Worker, Depth(w) > 0, NEW f \in Frames, Become(w, f)
  PROVE  /\ stack' \in [Worker -> Seq(Frames)]
         /\ Depth(w)' = Depth(w)
         /\ stack'[w][Depth(w)] = f
         /\ \A l \in 1..(Depth(w) - 1) : stack'[w][l] = stack[w][l]
         /\ \A v \in Worker \ {w} : stack'[v] = stack[v]
<1>1. With(w, f) \in Seq(Frames) /\ Len(With(w, f)) = Len(stack[w])
  BY StackTypes DEF With, Depth, TypeOK
<1>2. stack'[w] = With(w, f)
  BY DEF Become, TypeOK
<1>3. /\ With(w, f)[Depth(w)] = f
      /\ \A l \in 1..(Depth(w) - 1) : With(w, f)[l] = stack[w][l]
  BY StackTypes DEF With, Depth, TypeOK
<1> QED  BY <1>1, <1>2, <1>3 DEF Become, Depth, TypeOK

LEMMA CallStack ==
  ASSUME TypeOK, NEW w \in Worker, Depth(w) > 0, NEW f \in Frames, NEW b \in Frames,
         Call(w, f, b)
  PROVE  /\ stack' \in [Worker -> Seq(Frames)]
         /\ Depth(w)' = Depth(w) + 1
         /\ stack'[w][Depth(w) + 1] = f /\ stack'[w][Depth(w)] = b
         /\ \A l \in 1..(Depth(w) - 1) : stack'[w][l] = stack[w][l]
         /\ \A v \in Worker \ {w} : stack'[v] = stack[v]
<1>1. With(w, b) \in Seq(Frames) /\ Len(With(w, b)) = Len(stack[w])
  BY StackTypes DEF With, Depth, TypeOK
<1>2. stack'[w] = Append(With(w, b), f)
  BY DEF Call, TypeOK
<1>3. /\ With(w, b)[Depth(w)] = b
      /\ \A l \in 1..(Depth(w) - 1) : With(w, b)[l] = stack[w][l]
  BY StackTypes DEF With, Depth, TypeOK
<1> QED  BY <1>1, <1>2, <1>3 DEF Call, Depth, TypeOK

LEMMA ReturnStack ==
  ASSUME TypeOK, NEW w \in Worker, Depth(w) > 0, Return(w)
  PROVE  /\ stack' \in [Worker -> Seq(Frames)]
         /\ Depth(w)' = Depth(w) - 1
         /\ \A l \in 1..(Depth(w) - 1) : stack'[w][l] = stack[w][l]
         /\ \A v \in Worker \ {w} : stack'[v] = stack[v]
<1>1. Below(w) \in Seq(Frames) /\ Len(Below(w)) = Depth(w) - 1
  BY StackTypes, SubSeqProperties DEF Below, Depth, Levels
<1>2. stack'[w] = Below(w)
  BY DEF Return, TypeOK
<1>3. \A l \in 1..(Depth(w) - 1) : Below(w)[l] = stack[w][l]
  BY StackTypes DEF Below, Depth, TypeOK
<1> QED  BY <1>1, <1>2, <1>3 DEF Return, Depth, TypeOK

-----------------------------------------------------------------------------
(* How the shape of a stack is kept                                        *)

(* f takes the place of g on the stack.                                    *)
SameRole(g, f) ==
  \/ g.pc \in BodyPc /\ f.pc \in BodyPc /\ f.base = g.base /\ f.task = g.task
  \/ /\ g.pc \in WaitPc \cup ShrinkPc /\ f.pc \in WaitPc \cup ShrinkPc \cup {"runOwn"}
     /\ f.ref = g.ref
  \/ g.pc = "runOwn" /\ f.pc \in BodyPc /\ f.base = g.ref[2]
  \/ g.pc \in PushPc \cup GrowPc \cup PublishPc /\ f.pc \in GrowPc \cup PublishPc
  \/ g.pc \in PushPc /\ f.pc \in PushPc
  \/ g.pc \in TakenPc /\ f.pc \in TakenPc \cup ReleasePc
  \/ g.pc \in SleepPc /\ f.pc \in SleepPc \ {"acquire"}
  \/ g.pc \in ReleasePc /\ f.pc \in ReleasePc
  \/ g.pc \in ThreadPc /\ f.pc \in ThreadPc
  \/ g.pc \in StopPc /\ f.pc \in StopPc

LEMMA SameRoleKeeps ==
  ASSUME NEW b, NEW g, NEW f, SameRole(g, f)
  PROVE  /\ MayCall(b, g) => MayCall(b, f)
         /\ f.pc \in StopPc <=> g.pc \in StopPc
         /\ f.pc \in ThreadPc <=> g.pc \in ThreadPc
<1>1. f.pc \in StopPc <=> g.pc \in StopPc
  BY DEF SameRole, BodyPc, WaitPc, ShrinkPc, GrowPc, PublishPc, PushPc, TakenPc, SleepPc,
         ReleasePc, ThreadPc, StopPc
<1>2. f.pc \in ThreadPc <=> g.pc \in ThreadPc
  BY DEF SameRole, BodyPc, WaitPc, ShrinkPc, GrowPc, PublishPc, PushPc, TakenPc, SleepPc,
         ReleasePc, ThreadPc, StopPc
<1>3. ASSUME MayCall(b, g)  PROVE  MayCall(b, f)
  BY <1>3 DEF SameRole, MayCall, BodyPc, WaitPc, ShrinkPc, GrowPc, PublishPc, PushPc, TakenPc,
         SleepPc, ReleasePc, ThreadPc, StopPc
<1> QED  BY <1>1, <1>2, <1>3

(* What is under the running call.                                         *)
LEMMA Under ==
  ASSUME NEW w \in Worker, NEW s \in Seq(Frames), NEW h \in Nat, Shape(w, s, h),
         NEW l \in 1..(Len(s) - 1)
  PROVE  LET top == s[Len(s)] IN
         /\ s[l].pc \notin ShrinkPc
         /\ s[l].pc \in WaitPc =>
              IF l + 2 <= Len(s)
              THEN s[l + 1].pc = "markAsFinished" /\ s[l + 2].pc \in BodyPc
              ELSE l = Len(s) - 1 /\ top.pc \in TakenPc \cup ReleasePc \cup SleepPc
         /\ s[l].pc \in {"runOwn", "overflow"} => top.pc \in GrowPc \cup PublishPc \cup ReleasePc
<1> DEFINE n == Len(s)
           top == s[n]
<1>1. n \in Nat /\ Len(s) = n
  OBVIOUS
<1> HIDE DEF n
<1>2. /\ MayCall(s[l], s[l + 1])
      /\ l + 2 <= n => MayCall(s[l + 1], s[l + 2])
      /\ l + 3 <= n => MayCall(s[l + 2], s[l + 3])
  <2>1. \A k \in 1..(n - 1) : MayCall(s[k], s[k + 1])
    BY <1>1 DEF Shape, Chain
  <2>2. l + 2 <= n => l + 1 \in 1..(n - 1) /\ l + 2 = (l + 1) + 1
    BY <1>1
  <2>3. l + 3 <= n => l + 2 \in 1..(n - 1) /\ l + 3 = (l + 2) + 1
    BY <1>1
  <2> QED  BY <1>1, <2>1, <2>2, <2>3
<1>4. s[l].pc \notin ShrinkPc
  BY <1>2 DEF MayCall, ShrinkPc
<1>5. ASSUME s[l].pc \in WaitPc
      PROVE  IF l + 2 <= n
             THEN s[l + 1].pc = "markAsFinished" /\ s[l + 2].pc \in BodyPc
             ELSE l = n - 1 /\ top.pc \in TakenPc \cup ReleasePc \cup SleepPc
  <2>1. s[l + 1].pc \in TakenPc \cup ReleasePc \cup SleepPc
    BY <1>2, <1>5 DEF MayCall, WaitPc
  <2>2. CASE l + 2 <= n
    BY <1>2, <2>1, <2>2 DEF MayCall, TakenPc, ReleasePc, SleepPc
  <2>3. CASE ~(l + 2 <= n)
    BY <1>1, <2>1, <2>3
  <2> QED  BY <2>2, <2>3
<1>6. ASSUME s[l].pc \in {"runOwn", "overflow"}
      PROVE  top.pc \in GrowPc \cup PublishPc \cup ReleasePc
  <2>1. s[l + 1].pc \in GrowPc \cup PublishPc
    BY <1>2, <1>6 DEF MayCall
  <2>2. l + 2 <= n => s[l + 2].pc \in ReleasePc
    BY <1>2, <2>1 DEF MayCall, GrowPc, PublishPc
  <2>3. ~(l + 3 <= n)
    BY <1>1, <1>2, <2>2 DEF MayCall, ReleasePc
  <2>4. n = l + 1 \/ n = l + 2
    BY <1>1, <2>3
  <2> QED  BY <2>1, <2>2, <2>4
<1> QED  BY <1>1, <1>4, <1>5, <1>6

(* What a running call that goes on in a body knows of the head.           *)
FitsHead(w, f, h) ==
  /\ f.pc \in RefPc => f.ref \in Ref
  /\ f.pc \in WaitPc \cup ShrinkPc => f.ref[1] = w /\ f.ref[2] + 1 = h
  /\ AtHead(w, f, h)
  /\ f.pc \in BodyPc => f.base <= h

(* Only such calls move the head, and not below what others left there.    *)
HeadMoves(top, h, g) ==
  \/ g = h
  \/ top.pc \in BodyPc /\ top.base <= g
  \/ top.pc \in ShrinkPc \cup WaitPc /\ top.ref[2] <= g

LEMMA RefTypes ==
  ASSUME NEW r \in Ref
  PROVE  r[1] \in Worker /\ r[2] \in Slot /\ r[2] \in Nat /\ r = <<r[1], r[2]>>
BY StealingAssumption DEF Ref, Slot

LEMMA Floor ==
  ASSUME NEW w \in Worker, NEW s \in Seq(Frames), NEW h \in Nat, NEW g \in Nat,
         Shape(w, s, h), Len(s) > 0, HeadMoves(s[Len(s)], h, g),
         NEW l \in 1..(Len(s) - 1), s[l].pc \in BodyPc
  PROVE  s[l].base <= g
<1> DEFINE n == Len(s)
           top == s[n]
<1>1. n \in Nat /\ Len(s) = n /\ n \in 1..n /\ l \in 1..n
  OBVIOUS
<1>2. s[l].base \in Nat /\ s[n].base \in Nat
  <2>1. s[l] \in Frames /\ s[n] \in Frames
    BY <1>1
  <2> QED  BY <2>1 DEF Frames
<1>3. s[l].base <= h
  BY <1>1 DEF Shape, Based
<1>4. CASE top.pc \in BodyPc /\ top.base <= g
  <2>1. s[l].base <= s[n].base
    BY <1>1, <1>4 DEF Shape, Based
  <2> QED  BY <1>1, <1>2, <1>4, <2>1
<1>5. CASE top.pc \in ShrinkPc \cup WaitPc /\ top.ref[2] <= g
  <2>1. n - 1 \in 1..(n - 1) /\ n - 1 \in 1..n
    BY <1>1
  <2>2. MayCall(s[n - 1], s[n])
    BY <1>1, <2>1 DEF Shape, Chain
  <2>3. s[n - 1].pc \in BodyPc /\ s[n - 1].base <= s[n].ref[2]
    BY <1>1, <1>5, <2>2 DEF MayCall, ShrinkPc, WaitPc, BodyPc, GrowPc, PublishPc, PushPc,
       TakenPc, ReleasePc, SleepPc
  <2>4. s[l].base <= s[n - 1].base
    BY <1>1, <2>1, <2>3 DEF Shape, Based
  <2>5. s[n - 1].base \in Nat
    <3>1. s[n - 1] \in Frames
      BY <1>1, <2>1
    <3> QED  BY <3>1 DEF Frames
  <2>6. s[n].ref[2] \in Nat
    BY <1>1, <1>5, RefTypes DEF Shape, Chain, RefPc
  <2> QED  BY <1>1, <1>2, <1>5, <2>3, <2>4, <2>5, <2>6
<1> QED  BY <1>2, <1>3, <1>4, <1>5 DEF HeadMoves

(* The running call gives way to another in its role, and moves the head.  *)
LEMMA ReplaceShape ==
  ASSUME NEW w \in Worker, NEW s \in Seq(Frames), NEW h \in Nat, NEW g \in Nat,
         Shape(w, s, h), Len(s) > 0, HeadMoves(s[Len(s)], h, g),
         NEW f \in Frames, SameRole(s[Len(s)], f), FitsHead(w, f, g)
  PROVE  Shape(w, [s EXCEPT ![Len(s)] = f], g)
<1> DEFINE n == Len(s)
           top == s[n]
           z == [s EXCEPT ![Len(s)] = f]
<1>1. n \in Nat /\ n > 0 /\ Len(s) = n /\ n \in 1..n
  OBVIOUS
<1>2. /\ Len(z) = n /\ z[n] = f
      /\ \A l \in 1..(n - 1) : z[l] = s[l]
  OBVIOUS
<1> HIDE DEF n, z
<1>5. Chain(w, z)
  <2>1. ASSUME NEW l \in 1..(n - 1)  PROVE MayCall(z[l], z[l + 1])
    <3>1. MayCall(s[l], s[l + 1])
      BY <1>1 DEF Shape, Chain
    <3>2. CASE l + 1 = n
      BY <1>1, <1>2, <3>1, <3>2, SameRoleKeeps
    <3>3. CASE l + 1 # n
      <4>1. z[l + 1] = s[l + 1] /\ z[l] = s[l]
        BY <1>1, <1>2, <3>3
      <4> QED  BY <3>1, <4>1
    <3> QED  BY <3>2, <3>3
  <2>2. AtBottom(w, z[1])
    <3>1. AtBottom(w, s[1])
      BY <1>1 DEF Shape, Chain
    <3>2. CASE n = 1
      BY <1>1, <1>2, <3>1, <3>2, SameRoleKeeps DEF AtBottom
    <3>3. CASE n # 1
      <4>1. z[1] = s[1]
        BY <1>1, <1>2, <3>3
      <4> QED  BY <3>1, <4>1
    <3> QED  BY <3>2, <3>3
  <2>3. \A l \in 2..n : z[l].pc \notin StopPc \cup ThreadPc
    BY <1>1, <1>2, SameRoleKeeps DEF Shape, Chain
  <2>4. \A l \in 1..n : z[l].pc \in RefPc => z[l].ref \in Ref
    BY <1>1, <1>2 DEF Shape, Chain, FitsHead, AtHead
  <2> QED  BY <1>2, <2>1, <2>2, <2>3, <2>4 DEF Chain
<1>6. Heights(w, z, g)
  <2> SUFFICES ASSUME NEW l \in 1..n
               PROVE  /\ z[l].pc \in WaitPc \cup ShrinkPc =>
                         /\ z[l].ref[1] = w
                         /\ (IF l + 2 <= n THEN z[l + 2].base ELSE g) = z[l].ref[2] + 1
                      /\ AtHead(w, z[l], g)
    BY <1>2 DEF Heights
  <2>1. CASE l = n
    BY <1>1, <1>2, <2>1 DEF FitsHead, AtHead
  <2>2. CASE l # n
    <3>1. l \in 1..(n - 1) /\ l \in 1..n /\ z[l] = s[l]
      BY <1>1, <1>2, <2>2
    <3>2. ASSUME s[l].pc \in WaitPc \cup ShrinkPc
          PROVE  /\ s[l].ref[1] = w
                 /\ (IF l + 2 <= n THEN z[l + 2].base ELSE g) = s[l].ref[2] + 1
      <4>1. /\ s[l].ref[1] = w
            /\ (IF l + 2 <= n THEN s[l + 2].base ELSE h) = s[l].ref[2] + 1
        BY <1>1, <3>1, <3>2 DEF Shape, Heights
      <4>2. CASE l + 2 <= n
        <5>1. CASE l + 2 = n
          <6>1. top.pc \in BodyPc
            BY <1>1, <3>1, <3>2, <5>1, Under
          <6>2. f.base = top.base
            BY <1>1, <6>1 DEF SameRole, BodyPc, WaitPc, ShrinkPc, GrowPc, PublishPc, PushPc,
               TakenPc, SleepPc, ReleasePc, ThreadPc, StopPc
          <6> QED  BY <1>1, <1>2, <4>1, <5>1, <6>2
        <5>2. CASE l + 2 # n
          BY <1>1, <1>2, <4>1, <4>2, <5>2
        <5> QED  BY <5>1, <5>2
      <4>3. CASE ~(l + 2 <= n)
        <5>1. top.pc \in TakenPc \cup ReleasePc \cup SleepPc
          BY <1>1, <3>1, <3>2, <4>3, Under
        <5>2. g = h
          BY <1>1, <5>1 DEF HeadMoves, TakenPc, ReleasePc, SleepPc, BodyPc, ShrinkPc, WaitPc
        <5> QED  BY <4>1, <4>3, <5>2
      <4> QED  BY <4>2, <4>3
    <3>3. AtHead(w, s[l], g)
      <4> SUFFICES ASSUME s[l].pc \in {"runOwn", "overflow"}  PROVE AtHead(w, s[l], g)
        BY DEF AtHead
      <4>1. top.pc \in GrowPc \cup PublishPc \cup ReleasePc
        BY <1>1, <3>1, Under
      <4>2. g = h
        BY <1>1, <4>1 DEF HeadMoves, GrowPc, PublishPc, ReleasePc, BodyPc, ShrinkPc, WaitPc
      <4> QED  BY <1>1, <3>1, <4>2 DEF Shape, Heights
    <3> QED  BY <3>1, <3>2, <3>3
  <2> QED  BY <2>1, <2>2
<1>7. Based(z, g)
  <2>1. ASSUME NEW l \in 1..n, z[l].pc \in BodyPc  PROVE z[l].base <= g
    <3>1. CASE l = n
      BY <1>2, <2>1, <3>1 DEF FitsHead, AtHead
    <3>2. CASE l # n
      <4>1. l \in 1..(n - 1) /\ z[l] = s[l]
        BY <1>1, <1>2, <3>2
      <4> QED  BY <1>1, <2>1, <4>1, Floor
    <3> QED  BY <3>1, <3>2
  <2>2. ASSUME NEW l \in 1..n, NEW m \in 1..n, l <= m, z[l].pc \in BodyPc, z[m].pc \in BodyPc
        PROVE  z[l].base <= z[m].base
    <3>0. f.base \in Nat
      BY DEF Frames
    <3>1. CASE m # n
      <4>1. l \in 1..(n - 1) /\ m \in 1..(n - 1)
        BY <1>1, <2>2, <3>1
      <4> QED  BY <1>1, <1>2, <2>2, <4>1 DEF Shape, Based
    <3>2. CASE m = n /\ l = n
      BY <1>2, <3>0, <3>2
    <3>3. CASE m = n /\ l # n
      <4>1. l \in 1..(n - 1) /\ z[l] = s[l] /\ l \in 1..n
        BY <1>1, <1>2, <3>3
      <4>2. s[l].pc \in BodyPc /\ f.pc \in BodyPc
        BY <1>2, <2>2, <3>3, <4>1
      <4>3. CASE top.pc \in BodyPc
        <5>1. f.base = top.base
          BY <1>1, <4>3 DEF SameRole, BodyPc, WaitPc, ShrinkPc, GrowPc, PublishPc, PushPc,
             TakenPc, SleepPc, ReleasePc, ThreadPc, StopPc
        <5> QED  BY <1>1, <1>2, <3>3, <4>1, <4>2, <4>3, <5>1 DEF Shape, Based
      <4>4. CASE top.pc = "runOwn"
        <5>1. f.base = top.ref[2]
          BY <1>1, <4>2, <4>4 DEF SameRole, BodyPc, WaitPc, ShrinkPc, GrowPc, PublishPc, PushPc,
             TakenPc, SleepPc, ReleasePc, ThreadPc, StopPc
        <5>2. top.ref = <<w, h>>
          BY <1>1, <4>4 DEF Shape, Heights, AtHead
        <5>3. s[l].base <= h
          BY <1>1, <4>1, <4>2 DEF Shape, Based
        <5> QED  BY <1>2, <3>3, <4>1, <5>1, <5>2, <5>3
      <4>5. top.pc \in BodyPc \cup {"runOwn"}
        BY <1>1, <4>2 DEF SameRole, BodyPc, WaitPc, ShrinkPc, GrowPc, PublishPc, PushPc, TakenPc,
           SleepPc, ReleasePc, ThreadPc, StopPc
      <4> QED  BY <4>3, <4>4, <4>5
    <3> QED  BY <3>1, <3>2, <3>3
  <2> QED  BY <1>2, <2>1, <2>2 DEF Based
<1> QED  BY <1>5, <1>6, <1>7 DEF Shape, z

(* The running call makes another.                                         *)
LEMMA PushShape ==
  ASSUME NEW w \in Worker, NEW s \in Seq(Frames), NEW h \in Nat,
         Shape(w, s, h), Len(s) > 0,
         NEW f \in Frames, MayCall(s[Len(s)], f), FitsHead(w, f, h),
         f.pc \notin StopPc \cup ThreadPc,
         f.pc \in BodyPc => f.base = h
  PROVE  Shape(w, Append(s, f), h)
<1> DEFINE n == Len(s)
           top == s[n]
           z == Append(s, f)
<1>1. n \in Nat /\ n > 0 /\ Len(s) = n /\ n \in 1..n
  OBVIOUS
<1>2. /\ Len(z) = n + 1 /\ z[n + 1] = f
      /\ \A l \in 1..n : z[l] = s[l]
  OBVIOUS
<1> HIDE DEF n, z
<1>5. Chain(w, z)
  <2>1. ASSUME NEW l \in 1..(n + 1 - 1)  PROVE MayCall(z[l], z[l + 1])
    <3>1. CASE l = n
      BY <1>1, <1>2, <3>1
    <3>2. CASE l # n
      <4>1. z[l + 1] = s[l + 1] /\ z[l] = s[l] /\ l \in 1..(n - 1)
        BY <1>1, <1>2, <3>2
      <4> QED  BY <1>1, <4>1 DEF Shape, Chain
    <3> QED  BY <3>1, <3>2
  <2>2. AtBottom(w, z[1])
    BY <1>1, <1>2 DEF Shape, Chain
  <2>3. ASSUME NEW l \in 2..(n + 1)  PROVE z[l].pc \notin StopPc \cup ThreadPc
    <3>1. CASE l = n + 1
      BY <1>2, <3>1
    <3>2. CASE l # n + 1
      <4>1. l \in 2..n /\ z[l] = s[l]
        BY <1>1, <1>2, <3>2
      <4> QED  BY <1>1, <4>1 DEF Shape, Chain
    <3> QED  BY <3>1, <3>2
  <2>4. ASSUME NEW l \in 1..(n + 1)  PROVE z[l].pc \in RefPc => z[l].ref \in Ref
    <3>1. CASE l = n + 1
      BY <1>2, <3>1 DEF FitsHead, AtHead
    <3>2. CASE l # n + 1
      <4>1. l \in 1..n /\ z[l] = s[l]
        BY <1>1, <1>2, <3>2
      <4> QED  BY <1>1, <4>1 DEF Shape, Chain
    <3> QED  BY <3>1, <3>2
  <2> QED  BY <1>1, <1>2, <2>1, <2>2, <2>3, <2>4 DEF Chain
<1>6. Heights(w, z, h)
  <2> SUFFICES ASSUME NEW l \in 1..(n + 1)
               PROVE  /\ z[l].pc \in WaitPc \cup ShrinkPc =>
                         /\ z[l].ref[1] = w
                         /\ (IF l + 2 <= n + 1 THEN z[l + 2].base ELSE h) = z[l].ref[2] + 1
                      /\ AtHead(w, z[l], h)
    BY <1>2 DEF Heights
  <2>1. CASE l = n + 1
    BY <1>1, <1>2, <2>1 DEF FitsHead, AtHead
  <2>2. CASE l # n + 1
    <3>1. l \in 1..n /\ z[l] = s[l]
      BY <1>1, <1>2, <2>2
    <3>2. /\ s[l].pc \in WaitPc \cup ShrinkPc =>
                /\ s[l].ref[1] = w
                /\ (IF l + 2 <= n THEN s[l + 2].base ELSE h) = s[l].ref[2] + 1
          /\ AtHead(w, s[l], h)
      BY <1>1, <3>1 DEF Shape, Heights
    <3>3. CASE l + 2 = n + 1
      <4>1. CASE f.pc \in BodyPc
        BY <1>1, <1>2, <3>1, <3>2, <3>3, <4>1
      <4>2. CASE f.pc \notin BodyPc
        <5>1. l \in 1..(n - 1) /\ l + 1 = n /\ ~(l + 2 <= n)
          BY <1>1, <3>1, <3>3
        <5>2. s[l].pc \notin WaitPc \cup ShrinkPc
          <6>1. s[l].pc \in WaitPc \cup ShrinkPc => top.pc \in TakenPc \cup ReleasePc \cup SleepPc
            BY <1>1, <5>1, Under
          <6>2. top.pc \notin TakenPc \cup ReleasePc \cup SleepPc
            BY <1>1, <4>2 DEF MayCall, TakenPc, ReleasePc, SleepPc
          <6> QED  BY <6>1, <6>2
        <5> QED  BY <3>1, <3>2, <5>2
      <4> QED  BY <4>1, <4>2
    <3>4. CASE l + 2 # n + 1
      <4>1. (l + 2 <= n + 1 <=> l + 2 <= n) /\ (l + 2 <= n => z[l + 2] = s[l + 2])
        BY <1>1, <1>2, <3>1, <3>4
      <4> QED  BY <3>1, <3>2, <4>1
    <3> QED  BY <3>3, <3>4
  <2> QED  BY <2>1, <2>2
<1>7. Based(z, h)
  <2>1. ASSUME NEW l \in 1..(n + 1), z[l].pc \in BodyPc  PROVE z[l].base <= h
    <3>1. CASE l = n + 1
      BY <1>2, <2>1, <3>1 DEF FitsHead, AtHead
    <3>2. CASE l # n + 1
      <4>1. l \in 1..n /\ z[l] = s[l]
        BY <1>1, <1>2, <3>2
      <4> QED  BY <1>1, <2>1, <4>1 DEF Shape, Based
    <3> QED  BY <3>1, <3>2
  <2>2. ASSUME NEW l \in 1..(n + 1), NEW m \in 1..(n + 1), l <= m, z[l].pc \in BodyPc,
               z[m].pc \in BodyPc
        PROVE  z[l].base <= z[m].base
    <3>1. CASE m # n + 1
      <4>1. l \in 1..n /\ m \in 1..n /\ z[l] = s[l] /\ z[m] = s[m]
        BY <1>1, <1>2, <2>2, <3>1
      <4> QED  BY <1>1, <2>2, <4>1 DEF Shape, Based
    <3>2. CASE m = n + 1
      BY <1>2, <2>1, <2>2, <3>2
    <3> QED  BY <3>1, <3>2
  <2> QED  BY <1>2, <2>1, <2>2 DEF Based
<1> QED  BY <1>5, <1>6, <1>7 DEF Shape, z

(* The running call returns: a body with the head where it began.          *)
LEMMA PopShape ==
  ASSUME NEW w \in Worker, NEW s \in Seq(Frames), NEW h \in Nat, NEW g \in Nat,
         Shape(w, s, h), Len(s) > 0, HeadMoves(s[Len(s)], h, g),
         s[Len(s)].pc \in BodyPc => s[Len(s)].base = h /\ g = h
  PROVE  Shape(w, SubSeq(s, 1, Len(s) - 1), g)
<1> DEFINE n == Len(s)
           top == s[n]
           z == SubSeq(s, 1, Len(s) - 1)
<1>1. n \in Nat /\ n > 0 /\ Len(s) = n /\ n \in 1..n
  OBVIOUS
<1>2. /\ Len(z) = n - 1
      /\ \A l \in 1..(n - 1) : z[l] = s[l]
  BY FrontSeq
<1> HIDE DEF n, z
<1>5. Chain(w, z)
  <2>1. ASSUME NEW l \in 1..(n - 1 - 1)  PROVE MayCall(z[l], z[l + 1])
    <3>1. l \in 1..(n - 1) /\ l + 1 \in 1..(n - 1)
      BY <1>1
    <3>2. z[l] = s[l] /\ z[l + 1] = s[l + 1]
      BY <1>2, <3>1
    <3> QED  BY <1>1, <3>1, <3>2 DEF Shape, Chain
  <2>2. n - 1 > 0 => AtBottom(w, z[1])
    BY <1>1, <1>2 DEF Shape, Chain
  <2>3. \A l \in 1..(n - 1) : l \in 1..n /\ (l \in 2..(n - 1) => l \in 2..n)
    BY <1>1
  <2>4. \A l \in 2..(n - 1) : z[l].pc \notin StopPc \cup ThreadPc
    BY <1>1, <1>2, <2>3 DEF Shape, Chain
  <2>5. \A l \in 1..(n - 1) : z[l].pc \in RefPc => z[l].ref \in Ref
    BY <1>1, <1>2, <2>3 DEF Shape, Chain
  <2> QED  BY <1>1, <1>2, <2>1, <2>2, <2>4, <2>5 DEF Chain
<1>6. Heights(w, z, g)
  <2> SUFFICES ASSUME NEW l \in 1..(n - 1)
               PROVE  /\ s[l].pc \in WaitPc \cup ShrinkPc =>
                         /\ s[l].ref[1] = w
                         /\ (IF l + 2 <= n - 1 THEN s[l + 2].base ELSE g) = s[l].ref[2] + 1
                      /\ AtHead(w, s[l], g)
    <3>1. \A l \in 1..(n - 1) : z[l] = s[l] /\ (l + 2 <= n - 1 => z[l + 2] = s[l + 2])
      BY <1>1, <1>2
    <3> QED  BY <1>2, <3>1 DEF Heights
  <2>0. l \in 1..n
    BY <1>1
  <2>1. /\ s[l].pc \in WaitPc \cup ShrinkPc =>
                /\ s[l].ref[1] = w
                /\ (IF l + 2 <= n THEN s[l + 2].base ELSE h) = s[l].ref[2] + 1
        /\ AtHead(w, s[l], h)
    BY <1>1, <2>0 DEF Shape, Heights
  <2>2. ASSUME s[l].pc \in WaitPc \cup ShrinkPc
        PROVE  (IF l + 2 <= n - 1 THEN s[l + 2].base ELSE g) = s[l].ref[2] + 1
    <3>1. CASE l + 2 <= n - 1
      BY <1>1, <2>1, <2>2, <3>1
    <3>2. CASE l + 2 = n
      <4>1. top.pc \in BodyPc
        BY <1>1, <2>2, <3>2, Under
      <4>2. s[l + 2].base = h /\ g = h
        BY <1>1, <3>2, <4>1
      <4> QED  BY <1>1, <2>1, <2>2, <3>2, <4>2
    <3>3. CASE l + 2 > n
      <4>1. top.pc \in TakenPc \cup ReleasePc \cup SleepPc
        BY <1>1, <2>2, <3>3, Under
      <4>2. g = h
        BY <1>1, <4>1 DEF HeadMoves, TakenPc, ReleasePc, SleepPc, BodyPc, ShrinkPc, WaitPc
      <4> QED  BY <1>1, <2>1, <2>2, <3>3, <4>2
    <3> QED  BY <1>1, <3>1, <3>2, <3>3
  <2>3. AtHead(w, s[l], g)
    <3> SUFFICES ASSUME s[l].pc \in {"runOwn", "overflow"}  PROVE AtHead(w, s[l], g)
      BY DEF AtHead
    <3>1. top.pc \in GrowPc \cup PublishPc \cup ReleasePc
      BY <1>1, Under
    <3>2. g = h
      BY <1>1, <3>1 DEF HeadMoves, GrowPc, PublishPc, ReleasePc, BodyPc, ShrinkPc, WaitPc
    <3> QED  BY <2>1, <3>2
  <2> QED  BY <2>1, <2>2, <2>3
<1>7. Based(z, g)
  <2>1. ASSUME NEW l \in 1..(n - 1), s[l].pc \in BodyPc  PROVE s[l].base <= g
    BY <1>1, <2>1, Floor
  <2>2. \A l \in 1..(n - 1) : l \in 1..n
    BY <1>1
  <2>3. \A l, m \in 1..(n - 1) :
          l <= m /\ s[l].pc \in BodyPc /\ s[m].pc \in BodyPc => s[l].base <= s[m].base
    BY <1>1, <2>2 DEF Shape, Based
  <2> QED  BY <1>2, <2>1, <2>3 DEF Based
<1> QED  BY <1>5, <1>6, <1>7 DEF Shape, z

-----------------------------------------------------------------------------
(* THE OWNER AND ITS DEQUE                                                 *)

(* Nothing is being moved: all is stolen, or the tail is below the split   *)
(* and the split, of which the owner has the copy, below the head.         *)
Rested(d) ==
  IF d.allStolenCopy THEN d.split <= d.tail
  ELSE d.split = d.splitCopy /\ d.tail <= d.split /\ d.splitCopy <= d.head

(* The slot that is injected is shared and was taken off the tail.         *)
Injects(d, f) == ~d.allStolenCopy /\ f.t < d.splitCopy /\ f.t < d.tail

Asks == {"growShared", "growAsked", "growMove"}
Sharing == {"pushJobs", "publishWork", "selfSteal", "giveUp"}
Moving == {"pushShare", "shrinkShared", "shrinkStore", "correctTail"}

(* What the running call f of a worker knows of its deque d.               *)
Fits(d, f) ==
  /\ f.pc = "pushShare" => d.allStolenCopy /\ d.split = d.head /\ d.tail <= d.split
  /\ f.pc = "shrinkShared" =>
       ~d.allStolenCopy /\ d.split = d.head /\ d.splitCopy < d.head /\ d.tail <= d.split
  /\ f.pc = "shrinkStore" =>
       ~d.allStolenCopy /\ d.split < d.tail /\ d.tail <= d.splitCopy /\ d.splitCopy < d.head
         /\ d.head <= kTaskArraySize
  /\ f.pc = "correctTail" =>
       ~d.allStolenCopy /\ d.split = d.splitCopy /\ d.splitCopy <= d.head
         /\ f.t = d.split /\ d.tail = f.t + 1
  /\ f.pc \notin Moving => Rested(d)
  /\ f.pc \in Asks => ~d.allStolenCopy /\ d.splitCopy < Smaller(kTaskArraySize, d.head)
  /\ f.pc \in Sharing => ~d.allStolenCopy
  /\ f.pc = "giveUp" => d.tail = d.split
  /\ f.pc \in {"inject", "injectNext"} => Injects(d, f)

(* A slot that thieves and sleepers have had, as far as the owner with f   *)
(* as its running call is concerned.                                       *)
TakenSlot(d, f, i) ==
  \/ d.allStolenCopy /\ f.pc # "pushShare"
  \/ i < IF f.pc = "correctTail" THEN f.t ELSE d.tail

Owned(d, s) ==
  /\ IF Len(s) > 0 THEN Fits(d, s[Len(s)]) ELSE Rested(d)
  /\ \A l \in 1..Len(s) : s[l].pc = "injectNext" => Injects(d, s[l])
  /\ \A l \in 1..Len(s) : s[l].pc \in WaitPc => TakenSlot(d, s[Len(s)], s[l].ref[2])

(* What was taken remains so.                                              *)
Keeps(d, f, e, g) ==
  \A i \in Nat : i < d.head /\ TakenSlot(d, f, i) => TakenSlot(e, g, i)

(* What another may do to a deque.                                         *)
Raided(d, e) ==
  \/ e = d
  \/ d.tail < d.split /\ e = [d EXCEPT !.tail = @ + 1]
  \/ \E r \in BOOLEAN : e = [d EXCEPT !.splitRequest = r]

LEMMA DequeTypes ==
  ASSUME NEW d \in Deque
  PROVE  /\ d.head \in Nat /\ d.splitCopy \in Nat /\ d.tail \in Nat /\ d.split \in Nat
         /\ d.splitCopy <= kTaskArraySize /\ d.split <= kTaskArraySize
         /\ d.allStolenCopy \in BOOLEAN /\ kTaskArraySize \in Nat
BY StealingAssumption DEF Deque

LEMMA FrameFields ==
  ASSUME NEW f \in Frames
  PROVE  /\ f.pc \in Pc /\ f.task \in Task \cup {None}
         /\ f.todo \in Seq(Task \cup Worker \cup {None}) /\ f.base \in Nat
         /\ f.ref \in Ref \cup {<<>>} /\ f.other \in Worker \cup {None, "unset", "finished"}
         /\ f.t \in Nat
BY DEF Frames

LEMMA RaidedFits ==
  ASSUME NEW d \in Deque, NEW e, Raided(d, e), NEW f \in Frames, Fits(d, f)
  PROVE  /\ e \in Deque /\ e.head = d.head /\ e.split = d.split /\ e.splitCopy = d.splitCopy
         /\ Fits(e, f) /\ Keeps(d, f, e, f)
         /\ \A g \in Frames : Injects(d, g) => Injects(e, g)
<1>0. /\ e \in Deque /\ e.head = d.head /\ e.split = d.split /\ e.splitCopy = d.splitCopy
      /\ e.allStolenCopy = d.allStolenCopy
      /\ e.tail = d.tail \/ (d.tail < d.split /\ e.tail = d.tail + 1)
  BY DEF Raided, Deque
<1>1. f.t \in Nat
  BY FrameFields
<1>2. Fits(e, f)
  BY <1>0, <1>1, DequeTypes DEF Fits, Rested, Injects
<1>3. Keeps(d, f, e, f)
  BY <1>0, <1>1, DequeTypes DEF Keeps, TakenSlot
<1>4. \A g \in Frames : Injects(d, g) => Injects(e, g)
  BY <1>0, DequeTypes, FrameFields DEF Injects
<1> QED  BY <1>0, <1>2, <1>3, <1>4

(* A wait or an injection goes on below the running call.                  *)
LEMMA Waiting ==
  ASSUME NEW w \in Worker, NEW s \in Seq(Frames), NEW h \in Nat, Shape(w, s, h),
         NEW l \in 1..Len(s)
  PROVE  /\ s[l].pc \in WaitPc => s[l].ref[2] \in Nat /\ s[l].ref[2] < h
         /\ s[l].pc = "injectNext" /\ l # Len(s) => s[Len(s)].pc \in ReleasePc
<1> DEFINE n == Len(s)
<1>1. n \in Nat /\ Len(s) = n /\ n \in 1..n /\ l \in 1..n
  OBVIOUS
<1>2. \A k \in 1..n : s[k] \in Frames
  OBVIOUS
<1> HIDE DEF n
<1>3. ASSUME s[l].pc \in WaitPc
      PROVE  s[l].ref[2] \in Nat /\ s[l].ref[2] < h
  <2>1. s[l].ref[2] \in Nat
    BY <1>1, <1>3, RefTypes DEF Shape, Chain, RefPc
  <2>2. (IF l + 2 <= n THEN s[l + 2].base ELSE h) = s[l].ref[2] + 1
    BY <1>1, <1>3 DEF Shape, Heights
  <2>3. CASE l + 2 <= n
    <3>1. l \in 1..(n - 1) /\ l + 2 \in 1..n
      BY <1>1, <2>3
    <3>2. s[l + 2].pc \in BodyPc
      BY <1>1, <1>3, <2>3, <3>1, Under
    <3>3. s[l + 2].base <= h
      BY <1>1, <3>1, <3>2 DEF Shape, Based
    <3> QED  BY <2>1, <2>2, <2>3, <3>3
  <2> QED  BY <2>1, <2>2, <2>3
<1>4. ASSUME s[l].pc = "injectNext", l # n
      PROVE  s[n].pc \in ReleasePc
  <2>0. \A k \in 1..(n - 1) : MayCall(s[k], s[k + 1])
    BY <1>1 DEF Shape, Chain
  <2>1. l \in 1..(n - 1) /\ (l + 1 # n => l + 1 \in 1..(n - 1))
    BY <1>1, <1>4
  <2>2. s[l + 1].pc \in ReleasePc
    BY <1>4, <2>0, <2>1 DEF MayCall
  <2>3. l + 1 = n
    BY <2>0, <2>1, <2>2 DEF MayCall, ReleasePc
  <2> QED  BY <2>2, <2>3
<1> QED  BY <1>1, <1>3, <1>4

(* The owner keeps what is said of its deque, if its running call changed  *)
(* from the top of s to the top of z and the deque from d to e.            *)
LEMMA OwnedStep ==
  ASSUME NEW w \in Worker, NEW s \in Seq(Frames), NEW d \in Deque, Shape(w, s, d.head),
         Owned(d, s), Len(s) > 0, NEW z \in Seq(Frames), NEW e,
         s[Len(s)].pc \in ReleasePc => e = d,
         IF Len(z) > 0 THEN Fits(e, z[Len(z)]) ELSE Rested(e),
         Len(z) > 0 => Keeps(d, s[Len(s)], e, z[Len(z)]),
         \A l \in 1..Len(z) :
           \/ l < Len(s) /\ z[l] = s[l]
           \/ /\ z[l].pc \in WaitPc => TakenSlot(e, z[Len(z)], z[l].ref[2])
              /\ z[l].pc = "injectNext" => Injects(e, z[l])
  PROVE  Owned(e, z)
<1> DEFINE n == Len(s)
           m == Len(z)
<1>1. n \in Nat /\ Len(s) = n /\ m \in Nat /\ Len(z) = m /\ \A l \in 1..m : l < n => l \in 1..n
  OBVIOUS
<1>2. d.head \in Nat
  BY DequeTypes
<1> HIDE DEF n, m
<1>3. ASSUME NEW l \in 1..m, z[l].pc = "injectNext"  PROVE Injects(e, z[l])
  <2>1. CASE l < n /\ z[l] = s[l]
    <3>1. l \in 1..n /\ l # n
      BY <1>1, <2>1
    <3>2. s[n].pc \in ReleasePc /\ Injects(d, s[l])
      BY <1>1, <1>2, <1>3, <2>1, <3>1, Waiting DEF Owned
    <3> QED  BY <1>1, <2>1, <3>2
  <2> QED  BY <1>1, <1>3, <2>1
<1>4. ASSUME NEW l \in 1..m, z[l].pc \in WaitPc  PROVE TakenSlot(e, z[m], z[l].ref[2])
  <2>1. CASE l < n /\ z[l] = s[l]
    <3>1. l \in 1..n /\ m > 0
      BY <1>1, <2>1
    <3>2. s[l].ref[2] \in Nat /\ s[l].ref[2] < d.head
      BY <1>1, <1>2, <1>4, <2>1, <3>1, Waiting
    <3>3. TakenSlot(d, s[n], s[l].ref[2])
      BY <1>1, <1>4, <2>1, <3>1 DEF Owned
    <3> QED  BY <1>1, <2>1, <3>1, <3>2, <3>3 DEF Keeps
  <2> QED  BY <1>1, <1>4, <2>1
<1> QED  BY <1>1, <1>3, <1>4 DEF Owned

LEMMA RaidedOwned ==
  ASSUME NEW d \in Deque, NEW e, Raided(d, e), NEW w \in Worker, NEW s \in Seq(Frames),
         Shape(w, s, d.head), Owned(d, s)
  PROVE  Owned(e, s)
<1> DEFINE n == Len(s)
<1>1. n \in Nat /\ Len(s) = n /\ \A l \in 1..n : s[l] \in Frames
  OBVIOUS
<1>2. d.head \in Nat
  BY DequeTypes
<1> HIDE DEF n
<1>3. CASE n = 0
  <2>1. Rested(d)
    BY <1>1, <1>3 DEF Owned
  <2>2. Rested(e)
    BY <2>1, DequeTypes DEF Rested, Raided, Deque
  <2> QED  BY <1>1, <1>3, <2>2 DEF Owned
<1>4. CASE n > 0
  <2>1. n \in 1..n /\ s[n] \in Frames /\ Fits(d, s[n])
    BY <1>1, <1>4 DEF Owned
  <2>2. Fits(e, s[n]) /\ Keeps(d, s[n], e, s[n]) /\ \A g \in Frames : Injects(d, g) => Injects(e, g)
    BY <2>1, RaidedFits
  <2>3. ASSUME NEW l \in 1..n, s[l].pc = "injectNext"  PROVE Injects(e, s[l])
    BY <1>1, <2>2, <2>3 DEF Owned
  <2>4. ASSUME NEW l \in 1..n, s[l].pc \in WaitPc  PROVE TakenSlot(e, s[n], s[l].ref[2])
    <3>1. s[l].ref[2] \in Nat /\ s[l].ref[2] < d.head
      BY <1>1, <1>2, <2>4, Waiting
    <3>2. TakenSlot(d, s[n], s[l].ref[2])
      BY <1>1, <2>4 DEF Owned
    <3> QED  BY <2>2, <3>1, <3>2 DEF Keeps
  <2> QED  BY <1>1, <1>4, <2>2, <2>3, <2>4 DEF Owned
<1> QED  BY <1>1, <1>3, <1>4

-----------------------------------------------------------------------------
(* THE INVARIANT                                                           *)

(* A slot below the head, or that thieves may look at, holds a task.       *)
Filled(w) ==
  \A i \in Slot :
    i < deque[w].head \/ i < deque[w].split \/ i < deque[w].splitCopy => slot[w][i] \in Task

Good(w) == Structure(w) /\ Owned(deque[w], stack[w])

SInv ==
  /\ TypeOK
  /\ \A w \in Worker : Good(w)
  /\ \A w \in Worker : Filled(w)
  /\ \A w \in Worker : injected[w] # None => FullRef(injected[w])

(* The running call; a thread that has ended leaves its deque as a body.   *)
Now(w) == IF Depth(w) > 0 THEN Top(w) ELSE Frame("body")

Kept(w) == Keeps(deque[w], Now(w), deque'[w], Now(w)')
Moved(w) == Good(w)' /\ Kept(w)

(* What every step maintains, and what it does not give back.              *)
Advance == SInv' /\ \A w \in Worker : Kept(w)

-----------------------------------------------------------------------------
(* The stack of a worker after its step                                    *)

SlotsStay == \A v \in Worker : \A i \in Slot : slot[v][i] \in Task => slot'[v][i] \in Task

LEMMA FramesStay ==
  ASSUME SlotsStay
  PROVE  /\ \A f : FrameOK(f) => FrameOK(f)'
         /\ \A r : FullRef(r) => FullRef(r)'
<1>1. \A r : FullRef(r) => FullRef(r)'
  BY RefTypes DEF FullRef, SlotsStay
<1> QED  BY <1>1 DEF FrameOK

LEMMA GoodParts ==
  ASSUME SInv, NEW w \in Worker
  PROVE  /\ stack[w] \in Seq(Frames) /\ deque[w] \in Deque /\ deque[w].head \in Nat
         /\ Framed(w) /\ Shape(w, stack[w], deque[w].head) /\ Owned(deque[w], stack[w])
         /\ \A l \in Levels(w) : stack[w][l] \in Frames /\ FrameOK(stack[w][l])
         /\ Depth(w) \in Nat
         /\ Depth(w) > 0 => /\ Depth(w) \in Levels(w) /\ Top(w) \in Frames /\ FrameOK(Top(w))
                            /\ Fits(deque[w], Top(w))
                            /\ Top(w).pc \in RefPc => Top(w).ref \in Ref
<1>1. /\ stack[w] \in Seq(Frames) /\ deque[w] \in Deque
      /\ Framed(w) /\ Shape(w, stack[w], deque[w].head) /\ Owned(deque[w], stack[w])
  BY DEF SInv, TypeOK, Good, Structure
<1>2. \A l \in Levels(w) : stack[w][l] \in Frames /\ FrameOK(stack[w][l])
  BY <1>1 DEF Framed, Levels, Depth
<1>3. deque[w].head \in Nat
  BY <1>1, DequeTypes
<1>4. Depth(w) \in Nat /\ (Depth(w) > 0 => Depth(w) \in Levels(w))
  BY <1>1 DEF Depth, Levels
<1>5. Depth(w) > 0 => Fits(deque[w], Top(w))
  BY <1>1 DEF Owned, Depth, Top
<1>6. Depth(w) > 0 => Top(w) \in Frames /\ FrameOK(Top(w))
  BY <1>2, <1>4 DEF Top
<1> QED  BY <1>1, <1>2, <1>3, <1>4, <1>5, <1>6 DEF FrameOK, FullRef

(* Everything about w, once its new stack is known.                        *)
LEMMA NewStack ==
  ASSUME SInv, NEW w \in Worker, NEW z \in Seq(Frames), stack' = [stack EXCEPT ![w] = z],
         NEW e \in Deque, deque'[w] = e, SlotsStay,
         Shape(w, z, e.head), Owned(e, z),
         \A l \in 1..Len(z) : \A g : g = z[l] => FrameOK(g)'
  PROVE  /\ stack' \in [Worker -> Seq(Frames)] /\ Good(w)'
         /\ \A v \in Worker \ {w} : stack'[v] = stack[v]
<1>1. stack' \in [Worker -> Seq(Frames)] /\ stack'[w] = z
  BY DEF SInv, TypeOK
<1>2. \A v \in Worker \ {w} : stack'[v] = stack[v]
  BY DEF SInv, TypeOK
<1>3. Framed(w)'
  BY <1>1 DEF Framed, Levels, Depth
<1> QED  BY <1>1, <1>2, <1>3 DEF Good, Structure

LEMMA BecomeKeeps ==
  ASSUME SInv, NEW w \in Worker, Depth(w) > 0, NEW f \in Frames, Become(w, f),
         NEW e \in Deque, deque'[w] = e, SlotsStay,
         SameRole(Top(w), f), HeadMoves(Top(w), deque[w].head, e.head), FitsHead(w, f, e.head),
         FrameOK(f)', Fits(e, f), Keeps(deque[w], Top(w), e, f),
         f.pc \in WaitPc => TakenSlot(e, f, f.ref[2]),
         Top(w).pc \in ReleasePc => e = deque[w]
  PROVE  /\ stack' \in [Worker -> Seq(Frames)] /\ Moved(w)
         /\ \A v \in Worker \ {w} : stack'[v] = stack[v]
<1> DEFINE s == stack[w]
           n == Len(s)
           z == [s EXCEPT ![Len(s)] = f]
<1>1. s \in Seq(Frames) /\ n \in Nat /\ n > 0 /\ n = Len(s) /\ s[n] = Top(w)
  BY GoodParts DEF Depth, Top
<1>2. /\ z \in Seq(Frames) /\ Len(z) = n /\ z[n] = f
      /\ \A l \in 1..(n - 1) : z[l] = s[l]
  BY <1>1
<1>3. stack' = [stack EXCEPT ![w] = z]
  BY DEF Become, With, Depth
<1>4. e.head \in Nat /\ deque[w] \in Deque /\ deque[w].head \in Nat
  BY GoodParts, DequeTypes
<1>5. Shape(w, s, deque[w].head) /\ Owned(deque[w], s) /\ Framed(w)
  BY GoodParts
<1>6. Shape(w, z, e.head)
  BY <1>1, <1>4, <1>5, ReplaceShape
<1> HIDE DEF s, n, z
<1>7. \A l \in 1..n : l = n \/ (l \in 1..(n - 1) /\ z[l] = s[l])
  BY <1>1, <1>2
<1>8. Owned(e, z)
  <2>1. \A l \in 1..n :
           \/ l < n /\ z[l] = s[l]
           \/ /\ z[l].pc \in WaitPc => TakenSlot(e, z[n], z[l].ref[2])
              /\ z[l].pc = "injectNext" => Injects(e, z[l])
    BY <1>1, <1>2, <1>7 DEF Fits
  <2> QED  BY <1>1, <1>2, <1>4, <1>5, <2>1, OwnedStep
<1>9. \A l \in 1..n : \A g : g = z[l] => FrameOK(g)'
  <2>1. \A l \in 1..(n - 1) : FrameOK(s[l])
    BY <1>1, <1>5 DEF Framed, Levels, Depth, s
  <2>2. \A l \in 1..(n - 1) : \A g : g = s[l] => FrameOK(g)'
    BY <2>1, FramesStay
  <2> QED  BY <1>2, <1>7, <2>2
<1>10. /\ stack' \in [Worker -> Seq(Frames)] /\ Good(w)'
       /\ \A v \in Worker \ {w} : stack'[v] = stack[v]
  BY <1>2, <1>3, <1>6, <1>8, <1>9, NewStack
<1>11. stack'[w] = z
  BY <1>3 DEF SInv, TypeOK
<1>12. Now(w) = Top(w) /\ Now(w)' = f
  BY <1>1, <1>2, <1>11 DEF Now, Top, Depth
<1>13. Kept(w)
  BY <1>12 DEF Kept
<1> QED  BY <1>10, <1>13 DEF Moved

LEMMA CallKeeps ==
  ASSUME SInv, NEW w \in Worker, Depth(w) > 0, NEW f \in Frames, NEW b \in Frames, Call(w, f, b),
         NEW e \in Deque, deque'[w] = e, SlotsStay,
         SameRole(Top(w), b), HeadMoves(Top(w), deque[w].head, e.head), FitsHead(w, b, e.head),
         MayCall(b, f), FitsHead(w, f, e.head), f.pc \notin StopPc \cup ThreadPc,
         f.pc \in BodyPc => f.base = e.head,
         FrameOK(f)', FrameOK(b)', Fits(e, f), Keeps(deque[w], Top(w), e, f),
         f.pc \in WaitPc => TakenSlot(e, f, f.ref[2]),
         b.pc \in WaitPc => TakenSlot(e, f, b.ref[2]),
         b.pc = "injectNext" => Injects(e, b),
         Top(w).pc \in ReleasePc => e = deque[w]
  PROVE  /\ stack' \in [Worker -> Seq(Frames)] /\ Moved(w)
         /\ \A v \in Worker \ {w} : stack'[v] = stack[v]
<1> DEFINE s == stack[w]
           n == Len(s)
           y == [s EXCEPT ![Len(s)] = b]
           z == Append(y, f)
<1>1. s \in Seq(Frames) /\ n \in Nat /\ n > 0 /\ n = Len(s) /\ s[n] = Top(w)
  BY GoodParts DEF Depth, Top
<1>2. /\ y \in Seq(Frames) /\ Len(y) = n /\ y[n] = b
      /\ \A l \in 1..(n - 1) : y[l] = s[l]
  BY <1>1
<1>3. stack' = [stack EXCEPT ![w] = z]
  BY DEF Call, With, Depth
<1>4. e.head \in Nat /\ deque[w] \in Deque /\ deque[w].head \in Nat
  BY GoodParts, DequeTypes
<1>5. Shape(w, s, deque[w].head) /\ Owned(deque[w], s) /\ Framed(w)
  BY GoodParts
<1>6. Shape(w, y, e.head)
  BY <1>1, <1>4, <1>5, ReplaceShape
<1> HIDE DEF s, n, y
<1>11. Shape(w, z, e.head)
  BY <1>1, <1>2, <1>4, <1>6, PushShape
<1>12. /\ z \in Seq(Frames) /\ Len(z) = n + 1 /\ z[n + 1] = f /\ z[n] = b
       /\ \A l \in 1..(n - 1) : z[l] = s[l]
  BY <1>1, <1>2
<1> HIDE DEF z
<1>7. \A l \in 1..(n + 1) : l = n + 1 \/ l = n \/ (l \in 1..(n - 1) /\ z[l] = s[l])
  BY <1>1, <1>12
<1>8. Owned(e, z)
  <2>1. \A l \in 1..(n + 1) :
           \/ l < n /\ z[l] = s[l]
           \/ /\ z[l].pc \in WaitPc => TakenSlot(e, z[n + 1], z[l].ref[2])
              /\ z[l].pc = "injectNext" => Injects(e, z[l])
    BY <1>1, <1>12, <1>7 DEF Fits
  <2> QED  BY <1>1, <1>12, <1>4, <1>5, <2>1, OwnedStep
<1>9. \A l \in 1..(n + 1) : \A g : g = z[l] => FrameOK(g)'
  <2>1. \A l \in 1..(n - 1) : FrameOK(s[l])
    BY <1>1, <1>5 DEF Framed, Levels, Depth, s
  <2>2. \A l \in 1..(n - 1) : \A g : g = s[l] => FrameOK(g)'
    BY <2>1, FramesStay
  <2> QED  BY <1>12, <1>7, <2>2
<1>10. /\ stack' \in [Worker -> Seq(Frames)] /\ Good(w)'
       /\ \A v \in Worker \ {w} : stack'[v] = stack[v]
  BY <1>12, <1>3, <1>11, <1>8, <1>9, NewStack
<1>13. stack'[w] = z
  BY <1>3 DEF SInv, TypeOK
<1>14. Now(w) = Top(w) /\ Now(w)' = f
  BY <1>1, <1>12, <1>13 DEF Now, Top, Depth
<1>15. Kept(w)
  BY <1>14 DEF Kept
<1> QED  BY <1>10, <1>15 DEF Moved

(* A caller, when the call it made returns, goes on with a deque at rest.  *)
LEMMA CallerFits ==
  ASSUME NEW w \in Worker, NEW s \in Seq(Frames), NEW d \in Deque, Shape(w, s, d.head),
         Owned(d, s), Len(s) > 1, NEW e, Rested(e), s[Len(s)].pc \in ReleasePc => e = d
  PROVE  /\ Fits(e, s[Len(s) - 1])
         /\ s[Len(s) - 1].pc \notin {"pushShare", "correctTail"}
<1> DEFINE n == Len(s)
           c == s[n - 1]
<1>1. n \in Nat /\ Len(s) = n /\ n > 1 /\ n - 1 \in 1..n /\ n - 1 \in 1..(n - 1) /\ (n - 1) + 1 = n
  OBVIOUS
<1> HIDE DEF n
<1>2. MayCall(c, s[n])
  BY <1>1 DEF Shape, Chain
<1>3. ASSUME c.pc = "injectNext"  PROVE Injects(e, c)
  BY <1>1, <1>2, <1>3 DEF MayCall, Owned
<1>4. c.pc \in BodyPc \cup WaitPc \cup ThreadPc \cup StopPc 
             \cup {"runOwn", "injectNext", "markAsFinished"}
  BY <1>2 DEF MayCall, BodyPc, WaitPc, ThreadPc, StopPc
<1>5. c.pc \notin Moving \cup Asks \cup Sharing \cup {"inject"}
  BY <1>4 DEF BodyPc, WaitPc, ThreadPc, StopPc, Moving, Asks, Sharing
<1>6. c.pc \notin Asks /\ c.pc \notin Sharing
  BY <1>5
<1>7. c.pc \notin {"pushShare", "shrinkShared", "shrinkStore", "correctTail", "giveUp", "inject"}
  BY <1>5 DEF Moving, Sharing
<1> QED  BY <1>1, <1>3, <1>6, <1>7 DEF Fits

LEMMA ReturnKeeps ==
  ASSUME SInv, NEW w \in Worker, Depth(w) > 0, Return(w),
         NEW e \in Deque, deque'[w] = e, SlotsStay,
         HeadMoves(Top(w), deque[w].head, e.head),
         Top(w).pc \in BodyPc => Top(w).base = deque[w].head /\ e.head = deque[w].head,
         Rested(e), Keeps(deque[w], Top(w), e, Frame("body")),
         Top(w).pc \in ReleasePc => e = deque[w]
  PROVE  /\ stack' \in [Worker -> Seq(Frames)] /\ Moved(w)
         /\ \A v \in Worker \ {w} : stack'[v] = stack[v]
<1> DEFINE s == stack[w]
           n == Len(s)
           z == SubSeq(s, 1, Len(s) - 1)
<1>1. s \in Seq(Frames) /\ n \in Nat /\ n > 0 /\ n = Len(s) /\ s[n] = Top(w)
  BY GoodParts DEF Depth, Top
<1>2. z \in Seq(Frames) /\ Len(z) = n - 1 /\ \A l \in 1..(n - 1) : z[l] = s[l]
  BY <1>1, FrontSeq
<1>3. stack' = [stack EXCEPT ![w] = z]
  BY DEF Return, Below, Depth
<1>4. e.head \in Nat /\ deque[w] \in Deque /\ deque[w].head \in Nat
  BY GoodParts, DequeTypes
<1>5. Shape(w, s, deque[w].head) /\ Owned(deque[w], s) /\ Framed(w)
  BY GoodParts
<1>6. Shape(w, z, e.head)
  BY <1>1, <1>4, <1>5, PopShape
<1> HIDE DEF s, n, z
<1>8. Owned(e, z)
  <2>1. \A l \in 1..(n - 1) : l < n /\ z[l] = s[l]
    BY <1>1, <1>2
  <2>2. ASSUME n - 1 > 0
        PROVE  Fits(e, z[n - 1]) /\ Keeps(deque[w], s[n], e, z[n - 1])
    <3>1. z[n - 1] = s[n - 1] /\ n > 1
      BY <1>1, <2>1, <2>2
    <3>2. Fits(e, s[n - 1]) /\ s[n - 1].pc \notin {"pushShare", "correctTail"}
      BY <1>1, <1>4, <1>5, <3>1, CallerFits
    <3>3. Keeps(deque[w], s[n], e, s[n - 1])
      BY <1>1, <3>2 DEF Keeps, TakenSlot, Frame
    <3> QED  BY <3>1, <3>2, <3>3
  <2> QED  BY <1>1, <1>2, <1>4, <1>5, <2>1, <2>2, OwnedStep
<1>9. \A l \in 1..(n - 1) : \A g : g = z[l] => FrameOK(g)'
  <2>1. \A l \in 1..(n - 1) : FrameOK(z[l])
    BY <1>1, <1>2, <1>5 DEF Framed, Levels, Depth, s
  <2> QED  BY <2>1, FramesStay
<1>10. /\ stack' \in [Worker -> Seq(Frames)] /\ Good(w)'
       /\ \A v \in Worker \ {w} : stack'[v] = stack[v]
  BY <1>2, <1>3, <1>6, <1>8, <1>9, NewStack
<1>11. stack'[w] = z
  BY <1>3 DEF SInv, TypeOK
<1>12. Now(w) = Top(w) /\ Now(w)' = IF n > 1 THEN s[n - 1] ELSE Frame("body")
  BY <1>1, <1>2, <1>11 DEF Now, Top, Depth
<1>13. n > 1 => s[n - 1].pc \notin {"pushShare", "correctTail"}
  BY <1>1, <1>4, <1>5, CallerFits
<1>14. Kept(w)
  BY <1>1, <1>12, <1>13 DEF Kept, Keeps, TakenSlot, Frame
<1> QED  BY <1>10, <1>14 DEF Moved

-----------------------------------------------------------------------------
(* The state after a step                                                  *)

(* Everything that is in no deque and on no stack.                         *)
Rest ==
  /\ slot \in [Worker -> [Slot -> Task \cup {None}]]
  /\ stealer \in [Worker -> [Slot -> Worker \cup {"unset", "finished"}]]
  /\ semaphore \in [Worker -> {-1, 0, 1}] /\ notified \in [Worker -> BOOLEAN]
  /\ injected \in [Worker -> Ref \cup {None}]
  /\ sleepers \in Seq(Worker) /\ haveJobs \in Int /\ stopped \in BOOLEAN
  /\ begun \in [Task -> Nat] /\ done \subseteq Task
  /\ \A w \in Worker : injected[w] # None => FullRef(injected[w])

LEMMA RestNow ==
  ASSUME SInv  PROVE Rest
BY DEF SInv, TypeOK, Rest

LEMMA RaidedKeeps ==
  ASSUME NEW d \in Deque, NEW e, Raided(d, e)
  PROVE  \A f : Keeps(d, f, e, f)
<1>1. e.tail = d.tail \/ e.tail = d.tail + 1
  BY DEF Raided, Deque
<1>2. e.allStolenCopy = d.allStolenCopy /\ d.tail \in Nat
  BY DEF Raided, Deque
<1>3. ASSUME NEW f, NEW i \in Nat, TakenSlot(d, f, i)
      PROVE  TakenSlot(e, f, i)
  BY <1>1, <1>2, <1>3 DEF TakenSlot
<1> QED  BY <1>3 DEF Keeps

LEMMA Finish ==
  ASSUME SInv, NEW w \in Worker, stack' \in [Worker -> Seq(Frames)], Moved(w),
         \A u \in Worker \ {w} : stack'[u] = stack[u],
         NEW v \in Worker, NEW e \in Deque, deque' = [deque EXCEPT ![v] = e],
         v # w => Raided(deque[v], e), SlotsStay,
         \A i \in Slot : i < e.head \/ i < e.split \/ i < e.splitCopy => slot'[v][i] \in Task,
         Rest'
  PROVE  Advance
<1>1. deque' \in [Worker -> Deque]
  BY DEF SInv, TypeOK
<1>2. \A u \in Worker : deque'[u] = IF u = v THEN e ELSE deque[u]
  BY DEF SInv, TypeOK
<1>3. ASSUME NEW u \in Worker  PROVE Good(u)' /\ Kept(u)
  <2>1. CASE u = w
    BY <2>1 DEF Moved
  <2>2. CASE u # w
    <3>1. Raided(deque[u], deque'[u])
      BY <1>2, <2>2 DEF Raided
    <3>2. stack'[u] = stack[u]
      BY <2>2
    <3>3. PICK s \in Seq(Frames) : s = stack[u]
      BY GoodParts
    <3>4. PICK d \in Deque : d = deque[u]
      BY GoodParts
    <3>5. PICK d2 \in Deque : d2 = deque'[u]
      BY <1>1
    <3>6. Owned(d2, s)
      BY <3>1, <3>3, <3>4, <3>5, GoodParts, RaidedOwned
    <3>7. d2.head = d.head
      <4>1. Raided(d, d2)
        BY <3>1, <3>4, <3>5
      <4> QED  BY <4>1 DEF Raided, Deque
    <3>8. Shape(u, s, d2.head)
      BY <3>3, <3>4, <3>7, GoodParts
    <3>9. Framed(u)'
      BY <3>2, GoodParts, FramesStay DEF Framed, Levels, Depth
    <3>10. Now(u)' = Now(u)
      BY <3>2 DEF Now, Depth, Top
    <3>11. \A f : Keeps(d, f, d2, f)
      <4>1. Raided(d, d2)
        BY <3>1, <3>4, <3>5
      <4> QED  BY <4>1, RaidedKeeps
    <3>12. Kept(u)
      BY <3>4, <3>5, <3>10, <3>11 DEF Kept
    <3> QED  BY <3>2, <3>3, <3>5, <3>6, <3>8, <3>9, <3>12 DEF Good, Structure
  <2> QED  BY <2>1, <2>2
<1>4. \A u \in Worker : Filled(u)'
  BY <1>2 DEF Filled, SInv, SlotsStay
<1>5. SInv'
  BY <1>1, <1>3, <1>4 DEF SInv, TypeOK, Rest
<1> QED  BY <1>3, <1>5 DEF Advance

(* The running call knows what any call of its kind must.                  *)
LEMMA TopFits ==
  ASSUME SInv, NEW w \in Worker, Depth(w) > 0
  PROVE  FitsHead(w, Top(w), deque[w].head)
<1>1. PICK s \in Seq(Frames) : s = stack[w]
  BY GoodParts
<1>2. PICK h \in Nat : h = deque[w].head
  BY GoodParts
<1> DEFINE n == Len(s)
<1>3. n \in 1..n /\ s[n] = Top(w) /\ n = Len(s) /\ n \in Nat
  BY <1>1, GoodParts DEF Depth, Top
<1>4. Shape(w, s, h)
  BY <1>1, <1>2, GoodParts
<1> HIDE DEF n
<1>5. s[n].pc \in RefPc => s[n].ref \in Ref
  BY <1>3, <1>4 DEF Shape, Chain
<1>6. /\ s[n].pc \in WaitPc \cup ShrinkPc => s[n].ref[1] = w /\ h = s[n].ref[2] + 1
      /\ AtHead(w, s[n], h)
  BY <1>3, <1>4 DEF Shape, Heights
<1>7. s[n].pc \in BodyPc => s[n].base <= h
  BY <1>3, <1>4 DEF Shape, Based
<1> QED  BY <1>2, <1>3, <1>5, <1>6, <1>7 DEF FitsHead, AtHead

(* ... and what it waits for was taken.                                    *)
LEMMA TopTaken ==
  ASSUME SInv, NEW w \in Worker, Depth(w) > 0, Top(w).pc \in WaitPc
  PROVE  TakenSlot(deque[w], Top(w), Top(w).ref[2])
BY GoodParts DEF Owned, Top, Depth, Levels

(* Steps that touch no deque and no slot.                                  *)
LEMMA QuietStays ==
  ASSUME SInv, UNCHANGED <<deque, slot>>, NEW w \in Worker
  PROVE  /\ SlotsStay /\ deque' = [deque EXCEPT ![w] = deque[w]]
         /\ \A i \in Slot : i < deque[w].head \/ i < deque[w].split \/ i < deque[w].splitCopy
                              => slot'[w][i] \in Task
BY DEF SInv, TypeOK, SlotsStay, Filled

LEMMA QuietBecome ==
  ASSUME SInv, NEW w \in Worker, Depth(w) > 0, NEW f \in Frames, Become(w, f),
         UNCHANGED <<deque, slot>>, SameRole(Top(w), f), FitsHead(w, f, deque[w].head),
         FrameOK(f), Fits(deque[w], f),
         {Top(w).pc, f.pc} \cap {"pushShare", "correctTail"} = {},
         f.pc \in WaitPc => Top(w).pc \in WaitPc /\ f.ref = Top(w).ref, Rest'
  PROVE  Advance
<1>1. PICK e \in Deque : e = deque[w]
  BY GoodParts
<1>2. FrameOK(f)'
  BY QuietStays, FramesStay
<1>3. Keeps(e, Top(w), e, f) /\ HeadMoves(Top(w), e.head, e.head)
  BY DEF Keeps, TakenSlot, HeadMoves
<1>4. f.pc \in WaitPc => TakenSlot(e, f, f.ref[2])
  BY <1>1, TopTaken DEF TakenSlot
<1>5. /\ stack' \in [Worker -> Seq(Frames)] /\ Moved(w)
      /\ \A v \in Worker \ {w} : stack'[v] = stack[v]
  BY <1>1, <1>2, <1>3, <1>4, QuietStays, BecomeKeeps
<1> QED  BY <1>1, <1>5, QuietStays, Finish

LEMMA QuietCall ==
  ASSUME SInv, NEW w \in Worker, Depth(w) > 0, NEW f \in Frames, NEW b \in Frames,
         Call(w, f, b), UNCHANGED <<deque, slot>>,
         SameRole(Top(w), b), FitsHead(w, b, deque[w].head),
         MayCall(b, f), FitsHead(w, f, deque[w].head), f.pc \notin StopPc \cup ThreadPc,
         f.pc \in BodyPc => f.base = deque[w].head,
         FrameOK(f), FrameOK(b), Fits(deque[w], f),
         {Top(w).pc, f.pc} \cap {"pushShare", "correctTail"} = {},
         f.pc \in WaitPc => TakenSlot(deque[w], f, f.ref[2]),
         b.pc \in WaitPc => Top(w).pc \in WaitPc /\ b.ref = Top(w).ref,
         b.pc = "injectNext" => Injects(deque[w], b), Rest'
  PROVE  Advance
<1>1. PICK e \in Deque : e = deque[w]
  BY GoodParts
<1>2. FrameOK(f)' /\ FrameOK(b)'
  BY QuietStays, FramesStay
<1>3. Keeps(e, Top(w), e, f) /\ HeadMoves(Top(w), e.head, e.head)
  BY DEF Keeps, TakenSlot, HeadMoves
<1>4. b.pc \in WaitPc => TakenSlot(e, f, b.ref[2])
  BY <1>1, TopTaken DEF TakenSlot
<1>5. /\ stack' \in [Worker -> Seq(Frames)] /\ Moved(w)
      /\ \A v \in Worker \ {w} : stack'[v] = stack[v]
  BY <1>1, <1>2, <1>3, <1>4, QuietStays, CallKeeps
<1> QED  BY <1>1, <1>5, QuietStays, Finish

LEMMA QuietReturn ==
  ASSUME SInv, NEW w \in Worker, Depth(w) > 0, Return(w), UNCHANGED <<deque, slot>>,
         Top(w).pc \in BodyPc => Top(w).base = deque[w].head,
         Top(w).pc \notin Moving, Rest'
  PROVE  Advance
<1>1. PICK e \in Deque : e = deque[w]
  BY GoodParts
<1>2. Rested(e)
  BY <1>1, GoodParts DEF Fits
<1>3. Keeps(e, Top(w), e, Frame("body")) /\ HeadMoves(Top(w), e.head, e.head)
  BY DEF Keeps, TakenSlot, HeadMoves, Frame, Moving
<1>5. /\ stack' \in [Worker -> Seq(Frames)] /\ Moved(w)
      /\ \A v \in Worker \ {w} : stack'[v] = stack[v]
  BY <1>1, <1>2, <1>3, QuietStays, ReturnKeeps
<1> QED  BY <1>1, <1>5, QuietStays, Finish

-----------------------------------------------------------------------------
(* The steps of a worker: those that touch no deque                        *)

LEMMA NewFrames ==
  /\ \A pc \in Pc : Frame(pc) \in Frames /\ Frame(pc).pc = pc
  /\ \A pc \in Pc, r \in Ref : /\ OnSlot(pc, r) \in Frames
                               /\ OnSlot(pc, r).pc = pc /\ OnSlot(pc, r).ref = r
  /\ \A v \in Worker \cup {"unset", "finished"} :
       /\ Release(v) \in Frames /\ Release(v).pc = "release" /\ Release(v).other = v
  /\ \A t \in Task, h \in Nat :
       /\ Body(t, h) \in Frames /\ Body(t, h).pc = "body" /\ Body(t, h).base = h
       /\ Body(t, h).task = t /\ Body(t, h).todo = Calls[t]
       /\ Body(t, h).todo \in Todos
<1>1. \A pc \in Pc : Frame(pc) \in Frames /\ Frame(pc).pc = pc
  BY DEF Frame, Frames
<1>2. ASSUME NEW pc \in Pc, NEW r \in Ref
      PROVE  OnSlot(pc, r) \in Frames /\ OnSlot(pc, r).pc = pc /\ OnSlot(pc, r).ref = r
  <2>1. OnSlot(pc, r) = [pc |-> pc, task |-> None, todo |-> <<>>, base |-> 0,
                         ref |-> r, other |-> None, t |-> 0]
    BY DEF OnSlot, Frame
  <2> QED  BY <2>1 DEF Frames
<1>3. ASSUME NEW v \in Worker \cup {"unset", "finished"}
      PROVE  Release(v) \in Frames /\ Release(v).pc = "release" /\ Release(v).other = v
  <2>1. Release(v) = [pc |-> "release", task |-> None, todo |-> <<>>, base |-> 0,
                      ref |-> <<>>, other |-> v, t |-> 0]
    BY DEF Release, Frame
  <2>2. "release" \in Pc
    BY DEF Pc, ReleasePc
  <2> QED  BY <2>1, <2>2 DEF Frames
<1>4. ASSUME NEW t \in Task, NEW h \in Nat
      PROVE  /\ Body(t, h) \in Frames /\ Body(t, h).pc = "body" /\ Body(t, h).base = h
             /\ Body(t, h).task = t /\ Body(t, h).todo = Calls[t]
             /\ Body(t, h).todo \in Todos
  <2>1. Calls[t] \in Todos
    BY StealingAssumption, TodoFacts
  <2>2. Calls[t] \in Seq(Task \cup Worker \cup {None})
    BY <2>1, TodoFacts
  <2>3. "body" \in Pc
    BY DEF Pc, BodyPc
  <2> QED  BY <2>1, <2>2, <2>3 DEF Body, Frame, Frames
<1> QED  BY <1>1, <1>2, <1>3, <1>4

LEMMA RestStays ==
  ASSUME SInv, UNCHANGED <<arrays, signals, haveJobs, stopped, history>>, sleepers' \in Seq(Worker)
  PROVE  Rest' /\ UNCHANGED slot
BY RestNow DEF Rest, arrays, signals, history, FullRef

(* The running call goes on as f, in which it is the same call.            *)
LEMMA Onward ==
  ASSUME SInv, NEW w \in Worker, Depth(w) > 0, NEW f \in Frames, Become(w, f),
         f.task = Top(w).task, f.todo = Top(w).todo, f.base = Top(w).base, f.ref = Top(w).ref,
         UNCHANGED <<deque, slot>>, SameRole(Top(w), f),
         f.pc \notin {"runOwn", "overflow", "pushShare", "correctTail", "stopping"},
         Top(w).pc \notin {"runOwn", "pushShare", "correctTail"},
         f.pc \in WaitPc => Top(w).pc \in WaitPc,
         f.pc \in OtherPc => f.other \in Worker, Fits(deque[w], f), Rest'
  PROVE  Advance
<1>1. FrameOK(Top(w)) /\ FitsHead(w, Top(w), deque[w].head)
  BY GoodParts, TopFits
<1>2. /\ f.pc \in RefPc => Top(w).pc \in RefPc
      /\ f.pc \in BodyPc => Top(w).pc \in BodyPc
      /\ f.pc \in WaitPc \cup ShrinkPc => Top(w).pc \in WaitPc \cup ShrinkPc
  BY DEF SameRole, RefPc, BodyPc, WaitPc, ShrinkPc, GrowPc, PublishPc, PushPc, TakenPc, SleepPc,
         ReleasePc, ThreadPc, StopPc
<1>3. FrameOK(f)
  BY <1>1, <1>2 DEF FrameOK
<1>4. FitsHead(w, f, deque[w].head)
  BY <1>1, <1>2 DEF FitsHead, AtHead
<1> QED  BY <1>3, <1>4, QuietBecome

LEMMA SpawnFullStep ==
  ASSUME SInv, NEW w \in Worker, SpawnFull(w)
  PROVE  Advance
<1>1. At(w, "body") /\ Depth(w) > 0 /\ Top(w).pc = "body" /\ Top(w).todo # <<>>
      /\ Head(Top(w).todo) # None /\ UNCHANGED <<deque, arrays, signals, bunk, stopped, history>>
      /\ kTaskArraySize <= deque[w].head
  <2>1. deque[w].head \in Nat /\ kTaskArraySize \in Nat
    BY GoodParts, DequeTypes
  <2> QED  BY <2>1 DEF SpawnFull, Spawns, At
<1>2. Rest' /\ UNCHANGED <<deque, slot>>
  BY <1>1, RestStays, RestNow DEF Rest, bunk
<1>3. Top(w) \in Frames /\ FrameOK(Top(w)) /\ Fits(deque[w], Top(w))
      /\ FitsHead(w, Top(w), deque[w].head) /\ deque[w] \in Deque
  BY <1>1, GoodParts, TopFits
<1> DEFINE f == [Top(w) EXCEPT !.pc = "overflow"]
<1>4. f \in Frames /\ f.pc = "overflow" /\ f.task = Top(w).task /\ f.todo = Top(w).todo
      /\ f.base = Top(w).base
  BY <1>3 DEF Frames, Pc, BodyPc
<1>5. SameRole(Top(w), f) /\ FitsHead(w, f, deque[w].head) /\ FrameOK(f)
  BY <1>1, <1>3, <1>4
     DEF SameRole, FitsHead, AtHead, FrameOK, BodyPc, WaitPc, ShrinkPc, TakenPc, RefPc, OtherPc
<1>6. Fits(deque[w], f)
  BY <1>1, <1>3, <1>4 DEF Fits, Moving, Asks, Sharing
<1>7. CASE Jump(w, "overflow")
  BY <1>1, <1>2, <1>4, <1>5, <1>6, <1>7, QuietBecome DEF Jump, WaitPc
<1>8. CASE deque[w].splitCopy < kTaskArraySize /\ ~deque[w].allStolenCopy
            /\ CallThen(w, Frame("growShared"), "overflow")
  <2> DEFINE g == Frame("growShared")
  <2>1. g \in Frames /\ g.pc = "growShared"
    BY NewFrames DEF Pc, GrowPc
  <2>2. MayCall(f, g) /\ FitsHead(w, g, deque[w].head) /\ FrameOK(g)
    BY <1>4, <2>1
       DEF MayCall, FitsHead, AtHead, FrameOK, RefPc, OtherPc, BodyPc, WaitPc, ShrinkPc, TakenPc,
           GrowPc
  <2>3. deque[w].splitCopy < deque[w].head
    BY <1>1, <1>3, <1>8, DequeTypes DEF SpawnFull
  <2>4. Fits(deque[w], g)
    BY <1>1, <1>3, <1>8, <2>1, <2>3, DequeTypes DEF Fits, Moving, Asks, Sharing, Smaller
  <2> HIDE DEF f, g
  <2> QED  BY <1>1, <1>2, <1>4, <1>5, <1>8, <2>1, <2>2, <2>4, QuietCall
           DEF CallThen, f, g, WaitPc, StopPc, ThreadPc, BodyPc
<1> QED  BY <1>7, <1>8 DEF SpawnFull

LEMMA AtTop ==
  ASSUME SInv, NEW w \in Worker, NEW pc, At(w, pc)
  PROVE  /\ Depth(w) > 0 /\ Top(w).pc = pc /\ Top(w) \in Frames /\ FrameOK(Top(w))
         /\ FitsHead(w, Top(w), deque[w].head) /\ Fits(deque[w], Top(w))
         /\ deque[w] \in Deque /\ deque[w].head \in Nat
         /\ pc \in RefPc => Top(w).ref \in Ref
BY GoodParts, TopFits DEF At

LEMMA PopSleeperStep ==
  ASSUME SInv, NEW w \in Worker, PopSleeper(w)
  PROVE  Advance
<1>1. At(w, "publishWork") /\ UNCHANGED <<deque, arrays, signals, haveJobs, stopped, history>>
  BY DEF PopSleeper
<1>2. Depth(w) > 0 /\ Top(w).pc = "publishWork" /\ Top(w) \in Frames /\ Fits(deque[w], Top(w))
  BY <1>1, AtTop
<1>3. sleepers \in Seq(Worker)
  BY DEF SInv, TypeOK
<1>4. CASE sleepers = <<>> /\ Return(w) /\ UNCHANGED sleepers
  <2>1. Rest' /\ UNCHANGED slot
    BY <1>1, <1>3, <1>4, RestStays
  <2> QED  BY <1>1, <1>2, <1>4, <2>1, QuietReturn DEF BodyPc, Moving
<1>5. CASE /\ sleepers # <<>> /\ sleepers' = Tail(sleepers)
           /\ Become(w, [Top(w) EXCEPT !.pc = "selfSteal", !.other = Head(sleepers)])
  <2> DEFINE f == [Top(w) EXCEPT !.pc = "selfSteal", !.other = Head(sleepers)]
  <2>1. Head(sleepers) \in Worker /\ Tail(sleepers) \in Seq(Worker)
    BY <1>3, <1>5
  <2>2. Rest' /\ UNCHANGED slot
    BY <1>1, <1>5, <2>1, RestStays
  <2>3. f \in Frames /\ f.pc = "selfSteal" /\ f.other \in Worker /\ f.task = Top(w).task
        /\ f.todo = Top(w).todo /\ f.base = Top(w).base /\ f.ref = Top(w).ref
    BY <1>2, <2>1 DEF Frames, Pc, PublishPc
  <2>4. Fits(deque[w], f)
    BY <1>2, <2>3 DEF Fits, Moving, Asks, Sharing
  <2>5. SameRole(Top(w), f)
    BY <1>2, <2>3 DEF SameRole, PublishPc
  <2> HIDE DEF f
  <2> QED  BY <1>1, <1>2, <1>5, <2>2, <2>3, <2>4, <2>5, Onward DEF f, WaitPc
<1> QED  BY <1>4, <1>5 DEF PopSleeper

LEMMA BeginTypes ==
  ASSUME SInv, NEW t \in Task, Begin(t)
  PROVE  begun' \in [Task -> Nat]
<1>1. begun \in [Task -> Nat] /\ begun[t] + 1 \in Nat
  BY DEF SInv, TypeOK
<1> QED  BY <1>1 DEF Begin

LEMMA RunOwnStep ==
  ASSUME SInv, NEW w \in Worker, RunOwn(w)
  PROVE  Advance
<1> DEFINE h == deque[w].head
           task == slot[w][h]
<1>1. At(w, "runOwn") /\ UNCHANGED <<deque, arrays, signals, bunk, stopped, done>>
  BY DEF RunOwn
<1>2. /\ Depth(w) > 0 /\ Top(w).pc = "runOwn" /\ Top(w) \in Frames /\ Fits(deque[w], Top(w))
      /\ FrameOK(Top(w)) /\ FitsHead(w, Top(w), deque[w].head) /\ h \in Nat
      /\ Top(w).ref \in Ref
  BY <1>1, AtTop DEF RefPc
<1>3. Top(w).ref = <<w, h>> /\ task \in Task
  BY <1>2 DEF FitsHead, AtHead, FrameOK, FullRef, RefPc
<1>4. CASE Begin(task) /\ Become(w, Body(task, h))
  <2>1. begun' \in [Task -> Nat]
    BY <1>3, <1>4, BeginTypes
  <2>2. Rest' /\ UNCHANGED <<deque, slot>>
    BY <1>1, <2>1, RestNow DEF Rest, arrays, signals, bunk, FullRef
  <2> DEFINE f == Body(task, h)
  <2>3. /\ f \in Frames /\ f.pc = "body" /\ f.base = h /\ f.task \in Task
        /\ f.todo \in Todos
    BY <1>2, <1>3, NewFrames
  <2>4. FitsHead(w, f, h) /\ FrameOK(f)
    BY <1>2, <2>3 DEF FitsHead, AtHead, FrameOK, RefPc, OtherPc, BodyPc, WaitPc, ShrinkPc, TakenPc
  <2>5. Fits(deque[w], f)
    BY <1>2, <2>3 DEF Fits, Moving, Asks, Sharing
  <2>6. SameRole(Top(w), f)
    BY <1>2, <1>3, <2>3 DEF SameRole, BodyPc
  <2> HIDE DEF f
  <2> QED  BY <1>2, <1>4, <2>2, <2>3, <2>4, <2>5, <2>6, QuietBecome DEF f, WaitPc
<1>5. CASE Return(w) /\ begun' = begun
  <2>1. Rest' /\ UNCHANGED <<deque, slot>>
    BY <1>1, <1>5, RestNow DEF Rest, arrays, signals, bunk, FullRef
  <2> QED  BY <1>2, <1>5, <2>1, QuietReturn DEF BodyPc, Moving
<1> QED  BY <1>4, <1>5 DEF RunOwn

LEMMA BodyEndsStep ==
  ASSUME SInv, NEW w \in Worker, BodyEnds(w)
  PROVE  Advance
<1>1. /\ At(w, "body") /\ Return(w) /\ deque[w].head = Top(w).base
      /\ done' = done \cup {Top(w).task}
      /\ UNCHANGED <<deque, arrays, signals, bunk, stopped, begun>>
  BY DEF BodyEnds
<1>2. Depth(w) > 0 /\ Top(w).pc = "body" /\ FrameOK(Top(w))
  BY <1>1, AtTop
<1>3. done' \subseteq Task
  BY <1>1, <1>2 DEF FrameOK, BodyPc, SInv, TypeOK
<1>4. Rest' /\ UNCHANGED <<deque, slot>>
  BY <1>1, <1>3, RestNow DEF Rest, arrays, signals, bunk, FullRef
<1> QED  BY <1>1, <1>2, <1>4, QuietReturn DEF Moving

LEMMA RunStolenTaskStep ==
  ASSUME SInv, NEW w \in Worker, RunStolenTask(w)
  PROVE  Advance
<1> DEFINE ref == Top(w).ref
           task == slot[ref[1]][ref[2]]
           h == deque[w].head
           b == [Top(w) EXCEPT !.pc = "markAsFinished"]
<1>1. At(w, "runStolenTask") /\ UNCHANGED <<deque, slot, signals, bunk, stopped, done>>
  BY DEF RunStolenTask
<1>2. /\ Depth(w) > 0 /\ Top(w).pc = "runStolenTask" /\ Top(w) \in Frames
      /\ Fits(deque[w], Top(w)) /\ FrameOK(Top(w)) /\ FitsHead(w, Top(w), h) /\ h \in Nat
      /\ ref \in Ref
  BY <1>1, AtTop DEF RefPc, TakenPc
<1>3. FullRef(ref) /\ task \in Task
  BY <1>2 DEF FrameOK, FullRef, RefPc, TakenPc
<1>4. b \in Frames /\ b.pc = "markAsFinished" /\ b.task = Top(w).task /\ b.todo = Top(w).todo
      /\ b.base = Top(w).base /\ b.ref = ref
  BY <1>2 DEF Frames, Pc, TakenPc
<1>5. SameRole(Top(w), b) /\ FitsHead(w, b, h) /\ FrameOK(b)
  BY <1>2, <1>3, <1>4
     DEF SameRole, TakenPc, FitsHead, AtHead, FrameOK, OtherPc, BodyPc, WaitPc, ShrinkPc
<1>6. Fits(deque[w], b)
  BY <1>2, <1>4 DEF Fits, Moving, Asks, Sharing
<1>7. CASE /\ stealer' = [stealer EXCEPT ![ref[1]][ref[2]] = w] /\ Begin(task)
           /\ CallThen(w, Body(task, h), "markAsFinished")
  <2>1. /\ begun' \in [Task -> Nat]
        /\ stealer' \in [Worker -> [Slot -> Worker \cup {"unset", "finished"}]]
    BY <1>3, <1>7, BeginTypes DEF SInv, TypeOK
  <2>2. Rest' /\ UNCHANGED <<deque, slot>>
    BY <1>1, <2>1, RestNow DEF Rest, signals, bunk, FullRef
  <2> DEFINE f == Body(task, h)
  <2>3. /\ f \in Frames /\ f.pc = "body" /\ f.base = h /\ f.task \in Task
        /\ f.todo \in Todos
    BY <1>2, <1>3, NewFrames
  <2>4. FitsHead(w, f, h) /\ FrameOK(f)
    BY <1>2, <2>3 DEF FitsHead, AtHead, FrameOK, RefPc, OtherPc, BodyPc, WaitPc, ShrinkPc, TakenPc
  <2>5. Fits(deque[w], f)
    BY <1>2, <2>3 DEF Fits, Moving, Asks, Sharing
  <2>6. MayCall(b, f)
    BY <1>4, <2>3 DEF MayCall, BodyPc
  <2>7. Call(w, f, b)
    BY <1>7 DEF CallThen
  <2> HIDE DEF f, b
  <2> QED  BY <1>2, <1>4, <1>5, <2>2, <2>3, <2>4, <2>5, <2>6, <2>7, QuietCall
           DEF WaitPc, StopPc, ThreadPc
<1>8. CASE Jump(w, "markAsFinished") /\ UNCHANGED <<stealer, begun>>
  <2>1. Rest' /\ UNCHANGED <<deque, slot>>
    BY <1>1, <1>8, RestNow DEF Rest, signals, bunk, FullRef
  <2>2. Become(w, b)
    BY <1>8 DEF Jump
  <2> HIDE DEF b
  <2> QED  BY <1>2, <1>4, <1>5, <1>6, <2>1, <2>2, Onward DEF WaitPc, OtherPc
<1> QED  BY <1>7, <1>8 DEF RunStolenTask

LEMMA MarkAsFinishedStep ==
  ASSUME SInv, NEW w \in Worker, MarkAsFinished(w)
  PROVE  Advance
<1> DEFINE ref == Top(w).ref
<1>1. /\ At(w, "markAsFinished") /\ UNCHANGED <<deque, slot, signals, bunk, stopped, history>>
      /\ stealer' = [stealer EXCEPT ![ref[1]][ref[2]] = "finished"]
      /\ Become(w, Release(Metadata(ref))) \/ Return(w)
  BY DEF MarkAsFinished
<1>2. /\ Depth(w) > 0 /\ Top(w).pc = "markAsFinished" /\ Top(w) \in Frames
      /\ Fits(deque[w], Top(w)) /\ ref \in Ref
  BY <1>1, AtTop DEF RefPc, TakenPc
<1>3. stealer' \in [Worker -> [Slot -> Worker \cup {"unset", "finished"}]]
  BY <1>1 DEF SInv, TypeOK
<1>4. Rest' /\ UNCHANGED <<deque, slot>>
  BY <1>1, <1>3, RestNow DEF Rest, signals, bunk, history, FullRef
<1>5. CASE Become(w, Release(Metadata(ref)))
  <2> DEFINE f == Release(Metadata(ref))
  <2>1. Metadata(ref) \in Worker \cup {"unset", "finished"}
    <3>1. ref[1] \in Worker /\ ref[2] \in Slot
      BY <1>2, RefTypes
    <3> QED  BY <3>1 DEF Metadata, SInv, TypeOK
  <2>2. f \in Frames /\ f.pc = "release"
    BY <2>1, NewFrames
  <2>3. FitsHead(w, f, deque[w].head) /\ FrameOK(f)
    BY <2>2 DEF FitsHead, AtHead, FrameOK, RefPc, OtherPc, BodyPc, WaitPc, ShrinkPc, TakenPc
  <2>4. Fits(deque[w], f) /\ SameRole(Top(w), f)
    BY <1>2, <2>2 DEF Fits, Moving, Asks, Sharing, SameRole, TakenPc, ReleasePc
  <2> HIDE DEF f
  <2> QED  BY <1>2, <1>4, <1>5, <2>2, <2>3, <2>4, QuietBecome DEF f, WaitPc
<1>6. CASE Return(w)
  BY <1>2, <1>4, <1>6, QuietReturn DEF BodyPc, Moving
<1> QED  BY <1>1, <1>5, <1>6

-----------------------------------------------------------------------------
(* Stealing, and waiting for what was stolen                               *)

(* The calls below which a stolen task runs.                               *)
HuntPc == {"leapt", "yield", "random_steal_loop"}

(* What w knows after a raid on any deque, its own included.               *)
LEMMA AfterRaid ==
  ASSUME SInv, NEW w \in Worker, Depth(w) > 0, NEW victim \in Worker, NEW e,
         Raided(deque[victim], e), deque' = [deque EXCEPT ![victim] = e], UNCHANGED slot,
         Top(w).pc \notin Moving
  PROVE  \E o \in Deque :
           /\ deque'[w] = o /\ o.head = deque[w].head /\ Rested(o)
           /\ \A f \in Frames : f.pc \notin {"pushShare", "correctTail"} =>
                                  Keeps(deque[w], Top(w), o, f)
           /\ Top(w).pc \in WaitPc => TakenSlot(o, Top(w), Top(w).ref[2])
           /\ e \in Deque /\ SlotsStay
           /\ \A i \in Slot :
                i < e.head \/ i < e.split \/ i < e.splitCopy => slot'[victim][i] \in Task
<1>1. PICK d \in Deque : d = deque[victim]
  BY GoodParts
<1>2. PICK p \in Deque : p = deque[w]
  BY GoodParts
<1>3. Fits(p, Top(w)) /\ Top(w) \in Frames /\ Rested(p)
  BY <1>2, GoodParts DEF Fits
<1>4. e \in Deque /\ e.head = d.head /\ e.split = d.split /\ e.splitCopy = d.splitCopy
  BY <1>1 DEF Raided, Deque
<1>5. PICK o \in Deque : o = deque'[w] /\ Raided(p, o)
  <2>1. deque'[w] = IF victim = w THEN e ELSE p
    BY <1>2 DEF SInv, TypeOK
  <2> QED  BY <1>1, <1>2, <1>4, <2>1 DEF Raided
<1>6. o.head = p.head /\ Fits(o, Top(w)) /\ Keeps(p, Top(w), o, Top(w))
  BY <1>3, <1>5, RaidedFits
<1>7. Rested(o)
  BY <1>6 DEF Fits
<1>8. \A f \in Frames : f.pc \notin {"pushShare", "correctTail"} => Keeps(p, Top(w), o, f)
  BY <1>6 DEF Keeps, TakenSlot, Moving
<1>9. ASSUME Top(w).pc \in WaitPc  PROVE TakenSlot(o, Top(w), Top(w).ref[2])
  <2>1. TakenSlot(p, Top(w), Top(w).ref[2])
    BY <1>2, <1>9, TopTaken
  <2>2. Top(w).ref[2] \in Nat /\ Top(w).ref[2] < p.head
    <3>1. Top(w).ref \in Ref /\ p.head = Top(w).ref[2] + 1
      BY <1>2, <1>9, TopFits DEF FitsHead, AtHead, RefPc
    <3> QED  BY <3>1, RefTypes
  <2> QED  BY <1>6, <2>1, <2>2 DEF Keeps
<1>10. SlotsStay
  BY DEF SlotsStay
<1>11. \A i \in Slot : i < e.head \/ i < e.split \/ i < e.splitCopy => slot'[victim][i] \in Task
  BY <1>1, <1>4 DEF SInv, Filled
<1> QED  BY <1>2, <1>4, <1>5, <1>6, <1>7, <1>8, <1>9, <1>10, <1>11

LEMMA StealStep ==
  ASSUME SInv, NEW w \in Worker, Depth(w) > 0, NEW victim \in Worker,
         NEW hit \in Frames, NEW miss \in Frames, Steal(w, victim, hit, miss),
         Top(w).pc \in {"leapSteal", "yieldSteal", "randomSteal"},
         hit.pc \in HuntPc, SameRole(Top(w), hit), FrameOK(hit),
         FitsHead(w, hit, deque[w].head), hit.pc \in WaitPc => hit.ref = Top(w).ref,
         miss.pc \in HuntPc, SameRole(Top(w), miss), FrameOK(miss),
         FitsHead(w, miss, deque[w].head), miss.pc \in WaitPc => miss.ref = Top(w).ref,
         UNCHANGED slot, Rest'
  PROVE  Advance
<1>1. PICK d \in Deque : d = deque[victim]
  BY GoodParts
<1>2. Top(w).pc \notin Moving \cup ReleasePc
  BY DEF Moving, ReleasePc
<1>3. /\ hit.pc \in WaitPc => Top(w).pc \in WaitPc
      /\ miss.pc \in WaitPc => Top(w).pc \in WaitPc
  BY DEF SameRole, WaitPc, ShrinkPc, BodyPc, GrowPc, PublishPc, PushPc, TakenPc, SleepPc,
         ReleasePc, ThreadPc, StopPc
<1>4. CASE d.tail < d.split
  <2> DEFINE e == [d EXCEPT !.tail = @ + 1]
             f == OnSlot("runStolenTask", <<victim, d.tail>>)
  <2>1. deque' = [deque EXCEPT ![victim] = e] /\ Call(w, f, hit)
    BY <1>1, <1>4 DEF Steal
  <2>2. Raided(d, e)
    BY <1>4 DEF Raided
  <2>3. FullRef(<<victim, d.tail>>)
    <3>1. d.tail \in Slot
      BY <1>4, DequeTypes DEF Slot
    <3>2. slot[victim][d.tail] \in Task
      BY <1>1, <1>4, <3>1 DEF SInv, Filled
    <3> QED  BY <3>1, <3>2 DEF FullRef, Ref
  <2>4. f \in Frames /\ f.pc = "runStolenTask" /\ f.ref = <<victim, d.tail>>
    <3>1. "runStolenTask" \in Pc /\ <<victim, d.tail>> \in Ref
      BY <2>3 DEF FullRef, Pc, TakenPc
    <3> QED  BY <3>1, NewFrames
  <2> HIDE DEF e, f
  <2>5. PICK o \in Deque :
           /\ deque'[w] = o /\ o.head = deque[w].head /\ Rested(o)
           /\ \A g \in Frames : g.pc \notin {"pushShare", "correctTail"} =>
                                  Keeps(deque[w], Top(w), o, g)
           /\ Top(w).pc \in WaitPc => TakenSlot(o, Top(w), Top(w).ref[2])
           /\ e \in Deque /\ SlotsStay
           /\ \A i \in Slot :
                i < e.head \/ i < e.split \/ i < e.splitCopy => slot'[victim][i] \in Task
    BY <1>1, <1>2, <2>1, <2>2, AfterRaid
  <2>6. FrameOK(f)' /\ FrameOK(hit)'
    <3>1. FrameOK(f)
      BY <2>3, <2>4 DEF FrameOK, OtherPc, BodyPc
    <3> QED  BY <2>5, <3>1, FramesStay
  <2>7. MayCall(hit, f) /\ FitsHead(w, f, o.head) /\ f.pc \notin StopPc \cup ThreadPc
        /\ f.pc \notin BodyPc
    BY <2>3, <2>4 DEF MayCall, HuntPc, TakenPc, FitsHead, AtHead, FullRef, WaitPc, ShrinkPc, BodyPc,
                      StopPc, ThreadPc
  <2>8. Fits(o, f) /\ Keeps(deque[w], Top(w), o, f)
    BY <2>4, <2>5 DEF Fits, Asks, Sharing
  <2>9. hit.pc \in WaitPc => TakenSlot(o, f, hit.ref[2])
    BY <1>2, <1>3, <2>4, <2>5 DEF TakenSlot, Moving
  <2>10. HeadMoves(Top(w), deque[w].head, o.head)
    BY <2>5 DEF HeadMoves
  <2>11. /\ stack' \in [Worker -> Seq(Frames)] /\ Moved(w)
         /\ \A v \in Worker \ {w} : stack'[v] = stack[v]
    BY <1>2, <2>1, <2>4, <2>5, <2>6, <2>7, <2>8, <2>9, <2>10, CallKeeps DEF HuntPc, WaitPc
  <2> QED  BY <1>1, <2>1, <2>2, <2>5, <2>11, Finish
<1>5. CASE ~(d.tail < d.split)
  <2> DEFINE e == [d EXCEPT !.splitRequest = @ \/ d.tail < kTaskArraySize]
  <2>1. deque' = [deque EXCEPT ![victim] = e] /\ Become(w, miss)
    <3>1. deque' = [deque EXCEPT ![victim].splitRequest = @ \/ d.tail < kTaskArraySize]
      BY <1>1, <1>5 DEF Steal
    <3>2. deque' = [deque EXCEPT ![victim] = e]
      BY <1>1, <3>1 DEF SInv, TypeOK
    <3> QED  BY <1>1, <1>5, <3>2 DEF Steal
  <2>2. Raided(d, e)
    <3>1. d.splitRequest \in BOOLEAN
      BY DEF Deque
    <3>2. PICK r \in BOOLEAN : r = (d.splitRequest \/ d.tail < kTaskArraySize)
      BY <3>1
    <3> QED  BY <3>2 DEF Raided
  <2> HIDE DEF e
  <2>5. PICK o \in Deque :
           /\ deque'[w] = o /\ o.head = deque[w].head /\ Rested(o)
           /\ \A g \in Frames : g.pc \notin {"pushShare", "correctTail"} =>
                                  Keeps(deque[w], Top(w), o, g)
           /\ Top(w).pc \in WaitPc => TakenSlot(o, Top(w), Top(w).ref[2])
           /\ e \in Deque /\ SlotsStay
           /\ \A i \in Slot :
                i < e.head \/ i < e.split \/ i < e.splitCopy => slot'[victim][i] \in Task
    BY <1>1, <1>2, <2>1, <2>2, AfterRaid
  <2>6. FrameOK(miss)'
    BY <2>5, FramesStay
  <2>8. Fits(o, miss) /\ Keeps(deque[w], Top(w), o, miss)
    BY <2>5 DEF Fits, Asks, Sharing, HuntPc
  <2>9. miss.pc \in WaitPc => TakenSlot(o, miss, miss.ref[2])
    BY <1>2, <1>3, <2>5 DEF TakenSlot, Moving, HuntPc
  <2>10. HeadMoves(Top(w), deque[w].head, o.head)
    BY <2>5 DEF HeadMoves
  <2>11. /\ stack' \in [Worker -> Seq(Frames)] /\ Moved(w)
         /\ \A v \in Worker \ {w} : stack'[v] = stack[v]
    BY <1>2, <2>1, <2>5, <2>6, <2>8, <2>9, <2>10, BecomeKeeps
  <2> QED  BY <1>1, <2>1, <2>2, <2>5, <2>11, Finish
<1> QED  BY <1>4, <1>5

LEMMA LeapfrogStep ==
  ASSUME SInv, NEW w \in Worker, Leapfrog(w)
  PROVE  Advance
<1> DEFINE ref == Top(w).ref
           m == Metadata(ref)
           h == deque[w].head
           y == OnSlot("yield", ref)
<1>1. UNCHANGED <<arrays, signals, bunk, stopped, history>>
  BY DEF Leapfrog
<1>2. Rest' /\ UNCHANGED slot
  BY <1>1, RestStays, RestNow DEF Rest, bunk
<1>3. PICK pc \in {"stolen", "leap", "leapSteal", "leapt"} : At(w, pc)
  BY DEF Leapfrog
<1>4. /\ Depth(w) > 0 /\ Top(w).pc = pc /\ Top(w) \in Frames /\ FrameOK(Top(w))
      /\ FitsHead(w, Top(w), h) /\ Fits(deque[w], Top(w)) /\ ref \in Ref
  BY <1>3, AtTop DEF RefPc, WaitPc
<1>5. y \in Frames /\ y.pc = "yield" /\ y.ref = ref
  <2>1. "yield" \in Pc
    BY DEF Pc, WaitPc
  <2> QED  BY <1>4, <2>1, NewFrames
<1>6. SameRole(Top(w), y) /\ FrameOK(y) /\ FitsHead(w, y, h) /\ Fits(deque[w], y)
  BY <1>4, <1>5
     DEF SameRole, FrameOK, FitsHead, AtHead, Fits, WaitPc, ShrinkPc, BodyPc, RefPc, OtherPc,
                    TakenPc, Moving, Asks, Sharing
<1> HIDE DEF y
<1>7. ASSUME NEW f \in Frames, f.pc \in {"popStolen", "leap", "leapSteal", "leapt"},
             f.pc \in OtherPc => f.other \in Worker,
             f.task = Top(w).task, f.todo = Top(w).todo, f.base = Top(w).base, f.ref = ref
      PROVE  SameRole(Top(w), f) /\ FrameOK(f) /\ FitsHead(w, f, h) /\ Fits(deque[w], f)
  BY <1>4, <1>7 DEF SameRole, FrameOK, FitsHead, AtHead, Fits, WaitPc, ShrinkPc, BodyPc, RefPc,
                    TakenPc, Moving, Asks, Sharing
<1>8. ASSUME NEW pc2 \in {"popStolen", "leap", "leapSteal"}, pc # "stolen" \/ pc2 = "popStolen",
             pc # "leapSteal",
             Jump(w, pc2), UNCHANGED deque
      PROVE  Advance
  <2> DEFINE f == [Top(w) EXCEPT !.pc = pc2]
  <2>1. /\ f \in Frames /\ f.pc = pc2 /\ f.ref = ref /\ f.other = Top(w).other
        /\ f.task = Top(w).task /\ f.todo = Top(w).todo /\ f.base = Top(w).base
    BY <1>4 DEF Frames, Pc, WaitPc
  <2>2. pc2 \in OtherPc => Top(w).other \in Worker
    BY <1>4, <1>8 DEF FrameOK, OtherPc
  <2>3. Become(w, f)
    BY <1>8 DEF Jump
  <2> HIDE DEF f
  <2>4. SameRole(Top(w), f) /\ FrameOK(f) /\ FitsHead(w, f, h) /\ Fits(deque[w], f)
    BY <1>7, <2>1, <2>2
  <2> QED  BY <1>2, <1>4, <1>8, <2>1, <2>3, <2>4, QuietBecome DEF WaitPc
<1>11. CASE At(w, "stolen")
  <2>1. pc = "stolen" /\ m # "unset" /\ UNCHANGED deque
    BY <1>3, <1>11 DEF Leapfrog, At
  <2>2. CASE Jump(w, "popStolen")
    BY <1>8, <2>1, <2>2
  <2>3. CASE ~Finished(ref) /\ Become(w, [Top(w) EXCEPT !.pc = "leap", !.other = m])
    <3> DEFINE f == [Top(w) EXCEPT !.pc = "leap", !.other = m]
    <3>1. m \in Worker
      <4>1. ref[1] \in Worker /\ ref[2] \in Slot
        BY <1>4, RefTypes
      <4> QED  BY <2>1, <2>3, <4>1 DEF Metadata, Finished, SInv, TypeOK
    <3>2. /\ f \in Frames /\ f.pc = "leap" /\ f.ref = ref /\ f.other = m
          /\ f.task = Top(w).task /\ f.todo = Top(w).todo /\ f.base = Top(w).base
      BY <1>4, <3>1 DEF Frames, Pc, WaitPc
    <3> HIDE DEF f
    <3>3. SameRole(Top(w), f) /\ FrameOK(f) /\ FitsHead(w, f, h) /\ Fits(deque[w], f)
      BY <1>7, <3>1, <3>2
    <3> QED  BY <1>2, <1>4, <2>1, <2>3, <3>2, <3>3, QuietBecome DEF f, WaitPc
  <2> QED  BY <1>11, <2>1, <2>2, <2>3 DEF Leapfrog, At
<1>12. CASE At(w, "leap")
  <2>1. pc = "leap" /\ UNCHANGED deque
    BY <1>3, <1>12 DEF Leapfrog, At
  <2>2. CASE Become(w, y)
    BY <1>2, <1>4, <1>5, <1>6, <2>1, <2>2, QuietBecome DEF WaitPc
  <2>3. CASE Jump(w, "leapSteal")
    BY <1>8, <2>1, <2>3
  <2> QED  BY <1>12, <2>1, <2>2, <2>3 DEF Leapfrog, At, y
<1>13. CASE At(w, "leapSteal")
  <2> DEFINE f == [Top(w) EXCEPT !.pc = "leapt"]
  <2>1. pc = "leapSteal" /\ Steal(w, Top(w).other, f, y)
    BY <1>3, <1>13 DEF Leapfrog, At, y
  <2>2. /\ f \in Frames /\ f.pc = "leapt" /\ f.ref = ref /\ f.other = Top(w).other
        /\ f.task = Top(w).task /\ f.todo = Top(w).todo /\ f.base = Top(w).base
    BY <1>4 DEF Frames, Pc, WaitPc
  <2>3. Top(w).other \in Worker
    BY <1>4, <2>1 DEF FrameOK, OtherPc
  <2> HIDE DEF f
  <2>4. SameRole(Top(w), f) /\ FrameOK(f) /\ FitsHead(w, f, h)
    BY <1>7, <2>2, <2>3
  <2> QED  BY <1>2, <1>4, <1>5, <1>6, <2>1, <2>2, <2>3, <2>4, StealStep DEF HuntPc
<1>14. CASE At(w, "leapt")
  <2>1. pc = "leapt" /\ UNCHANGED deque
    BY <1>3, <1>14 DEF Leapfrog, At
  <2> QED  BY <1>8, <1>14, <2>1 DEF Leapfrog, At
<1> QED  BY <1>3, <1>11, <1>12, <1>13, <1>14

LEMMA YieldStep ==
  ASSUME SInv, NEW w \in Worker, Yield(w)
  PROVE  Advance
<1> DEFINE ref == Top(w).ref
           h == deque[w].head
           y == OnSlot("yield", ref)
<1>1. UNCHANGED <<arrays, signals, bunk, stopped, history>>
  BY DEF Yield
<1>2. Rest' /\ UNCHANGED slot
  BY <1>1, RestStays, RestNow DEF Rest, bunk
<1>3. PICK pc \in {"yield", "yieldSteal"} : At(w, pc)
  BY DEF Yield
<1>4. /\ Depth(w) > 0 /\ Top(w).pc = pc /\ Top(w) \in Frames /\ FrameOK(Top(w))
      /\ FitsHead(w, Top(w), h) /\ Fits(deque[w], Top(w)) /\ ref \in Ref
  BY <1>3, AtTop DEF RefPc, WaitPc
<1>5. y \in Frames /\ y.pc = "yield" /\ y.ref = ref
  <2>1. "yield" \in Pc
    BY DEF Pc, WaitPc
  <2> QED  BY <1>4, <2>1, NewFrames
<1>6. SameRole(Top(w), y) /\ FrameOK(y) /\ FitsHead(w, y, h)
  BY <1>4, <1>5 DEF SameRole, FrameOK, FitsHead, AtHead, WaitPc, ShrinkPc, BodyPc, RefPc, OtherPc,
                    TakenPc
<1> HIDE DEF y
<1>7. ASSUME pc = "yield", UNCHANGED deque,
             NEW f \in Frames, Become(w, f), f.pc \in WaitPc \ {"leap", "leapSteal"},
             f.pc \in OtherPc => f.other \in Worker,
             f.task = Top(w).task, f.todo = Top(w).todo, f.base = Top(w).base, f.ref = ref
      PROVE  Advance
  <2>1. SameRole(Top(w), f) /\ Fits(deque[w], f)
    BY <1>4, <1>7 DEF SameRole, Fits, WaitPc, Moving, Asks, Sharing
  <2> QED  BY <1>2, <1>4, <1>7, <2>1, Onward DEF WaitPc
<1>8. ASSUME NEW pc2 \in {"popStolen", "waitForTaskToFinish"}, Jump(w, pc2), pc = "yield",
             UNCHANGED deque
      PROVE  Advance
  <2> DEFINE f == [Top(w) EXCEPT !.pc = pc2]
  <2>1. /\ f \in Frames /\ f.pc = pc2 /\ f.ref = ref
        /\ f.task = Top(w).task /\ f.todo = Top(w).todo /\ f.base = Top(w).base
    BY <1>4 DEF Frames, Pc, WaitPc
  <2>2. Become(w, f)
    BY <1>8 DEF Jump
  <2> HIDE DEF f
  <2> QED  BY <1>7, <1>8, <2>1, <2>2 DEF WaitPc, OtherPc
<1>9. CASE At(w, "yield")
  <2>1. pc = "yield" /\ UNCHANGED deque
    BY <1>3, <1>9 DEF Yield, At
  <2>2. ASSUME NEW v \in Worker, Become(w, [Top(w) EXCEPT !.pc = "yieldSteal", !.other = v])
        PROVE  Advance
    <3> DEFINE f == [Top(w) EXCEPT !.pc = "yieldSteal", !.other = v]
    <3>1. /\ f \in Frames /\ f.pc = "yieldSteal" /\ f.ref = ref /\ f.other = v
          /\ f.task = Top(w).task /\ f.todo = Top(w).todo /\ f.base = Top(w).base
      BY <1>4 DEF Frames, Pc, WaitPc
    <3> HIDE DEF f
    <3> QED  BY <1>7, <2>1, <2>2, <3>1 DEF f, WaitPc
  <2> QED  BY <1>8, <1>9, <2>1, <2>2 DEF Yield, At
<1>10. CASE At(w, "yieldSteal")
  <2>1. pc = "yieldSteal" /\ Steal(w, Top(w).other, y, y)
    BY <1>3, <1>10 DEF Yield, At, y
  <2>2. Top(w).other \in Worker
    BY <1>4, <2>1 DEF FrameOK, OtherPc
  <2> QED  BY <1>2, <1>4, <1>5, <1>6, <2>1, <2>2, StealStep DEF HuntPc
<1> QED  BY <1>3, <1>9, <1>10

LEMMA WaitForTaskToFinishStep ==
  ASSUME SInv, NEW w \in Worker, WaitForTaskToFinish(w)
  PROVE  Advance
<1> DEFINE ref == Top(w).ref
           b == [Top(w) EXCEPT !.pc = "popStolen"]
           f == Frame("acquireSlow")
<1>1. At(w, "waitForTaskToFinish") /\ UNCHANGED <<deque, slot, signals, bunk, stopped, history>>
  BY DEF WaitForTaskToFinish
<1>2. /\ Depth(w) > 0 /\ Top(w).pc = "waitForTaskToFinish" /\ Top(w) \in Frames
      /\ FrameOK(Top(w)) /\ FitsHead(w, Top(w), deque[w].head) /\ Fits(deque[w], Top(w))
      /\ ref \in Ref
  BY <1>1, AtTop DEF RefPc, WaitPc
<1>3. stealer' \in [Worker -> [Slot -> Worker \cup {"unset", "finished"}]]
  <2>1. CASE stealer' = stealer
    BY <2>1 DEF SInv, TypeOK
  <2>2. CASE stealer' = [stealer EXCEPT ![ref[1]][ref[2]] = w]
    BY <2>2 DEF SInv, TypeOK
  <2> QED  BY <2>1, <2>2 DEF WaitForTaskToFinish
<1>4. Rest' /\ UNCHANGED <<deque, slot>>
  BY <1>1, <1>3, RestNow DEF Rest, signals, bunk, history, FullRef
<1>5. /\ b \in Frames /\ b.pc = "popStolen" /\ b.ref = ref
      /\ b.task = Top(w).task /\ b.todo = Top(w).todo /\ b.base = Top(w).base
  BY <1>2 DEF Frames, Pc, WaitPc
<1>6. f \in Frames /\ f.pc = "acquireSlow"
  BY NewFrames DEF Pc, SleepPc
<1>7. SameRole(Top(w), b) /\ FrameOK(b) /\ FitsHead(w, b, deque[w].head) /\ Fits(deque[w], b)
  BY <1>2, <1>5
     DEF SameRole, FrameOK, FitsHead, AtHead, Fits, WaitPc, ShrinkPc, BodyPc, RefPc, OtherPc,
                    TakenPc, Moving, Asks, Sharing
<1>8. MayCall(b, f) /\ FrameOK(f) /\ FitsHead(w, f, deque[w].head)
  BY <1>5, <1>6 DEF MayCall, FrameOK, FitsHead, AtHead, WaitPc, ShrinkPc, BodyPc, RefPc, OtherPc,
                    TakenPc, SleepPc
<1>9. Fits(deque[w], f)
  BY <1>2, <1>6 DEF Fits, Moving, Asks, Sharing
<1>10. CASE Jump(w, "popStolen")
  <2>1. Become(w, b)
    BY <1>10 DEF Jump
  <2> HIDE DEF b
  <2> QED  BY <1>2, <1>4, <1>5, <1>7, <2>1, QuietBecome DEF WaitPc
<1>11. CASE CallThen(w, f, "popStolen")
  <2>1. Call(w, f, b)
    BY <1>11 DEF CallThen
  <2> HIDE DEF b, f
  <2> QED  BY <1>2, <1>4, <1>5, <1>6, <1>7, <1>8, <1>9, <2>1, QuietCall
           DEF WaitPc, StopPc, ThreadPc, BodyPc
<1> QED  BY <1>10, <1>11 DEF WaitForTaskToFinish

-----------------------------------------------------------------------------
(* The semaphore, the worker threads and the shutdown                      *)

LEMMA WorkerSeq ==
  /\ SetToSeq(Worker) \in Seq(Worker)
  /\ \A i, j \in DOMAIN SetToSeq(Worker) : SetToSeq(Worker)[i] = SetToSeq(Worker)[j] => i = j
<1> DEFINE n == Cardinality(Worker)
           f == SetToSeq(Worker)
<1>1. n \in Nat /\ ExistsBijection(1..n, Worker)
  BY StealingAssumption, FS_CardinalityType
<1>2. PICK g \in [1..n -> Worker] : IsInjective(g)
  BY <1>1 DEF ExistsBijection, Bijection, Injection
<1>3. f \in [1..n -> Worker] /\ IsInjective(f)
  BY <1>2 DEF SetToSeq
<1> HIDE DEF n, f
<1>4. f \in Seq(Worker)
  BY <1>1, <1>3
<1> QED  BY <1>3, <1>4 DEF IsInjective, f

LEMMA ReleaseSemaphoreStep ==
  ASSUME SInv, NEW w \in Worker, ReleaseSemaphore(w)
  PROVE  Advance
<1>1. PICK pc \in {"release", "notify"} : At(w, pc)
  BY DEF ReleaseSemaphore
<1>2. /\ Depth(w) > 0 /\ Top(w).pc = pc /\ Top(w) \in Frames /\ Fits(deque[w], Top(w))
  BY <1>1, AtTop
<1>3. UNCHANGED <<deque, slot>> /\ Rest'
  <2>1. UNCHANGED <<deque, arrays, injected, bunk, stopped, history>>
    BY DEF ReleaseSemaphore
  <2>2. semaphore' \in [Worker -> {-1, 0, 1}]
    BY DEF ReleaseSemaphore, SInv, TypeOK
  <2>3. notified' \in [Worker -> BOOLEAN]
    <3>1. \A v : At(v, "asleep") \in BOOLEAN
      BY DEF At
    <3> QED  BY <3>1 DEF ReleaseSemaphore, SInv, TypeOK
  <2> QED  BY <2>1, <2>2, <2>3, RestNow DEF Rest, arrays, bunk, history, FullRef
<1>4. CASE Return(w)
  BY <1>2, <1>3, <1>4, QuietReturn DEF BodyPc, Moving
<1>5. CASE Jump(w, "notify")
  <2> DEFINE f == [Top(w) EXCEPT !.pc = "notify"]
  <2>1. /\ f \in Frames /\ f.pc = "notify" /\ f.ref = Top(w).ref
        /\ f.task = Top(w).task /\ f.todo = Top(w).todo /\ f.base = Top(w).base
    BY <1>2 DEF Frames, Pc, ReleasePc
  <2>2. SameRole(Top(w), f) /\ Fits(deque[w], f)
    BY <1>2, <2>1 DEF SameRole, ReleasePc, Fits, Moving, Asks, Sharing
  <2>3. Become(w, f)
    BY <1>5 DEF Jump
  <2> HIDE DEF f
  <2> QED  BY <1>2, <1>3, <2>1, <2>2, <2>3, Onward DEF WaitPc, OtherPc
<1> QED  BY <1>4, <1>5 DEF ReleaseSemaphore

(* The steps of acquire, and a waiter that wakes up.                       *)
LEMMA SleepStep ==
  ASSUME SInv, NEW w \in Worker, Acquire(w) \/ WakeUp(w) \/ SpuriousWakeUp(w)
  PROVE  Advance
<1>1. PICK pc \in SleepPc : At(w, pc)
  BY DEF Acquire, WakeUp, SpuriousWakeUp, SleepPc
<1>2. /\ Depth(w) > 0 /\ Top(w).pc = pc /\ Top(w) \in Frames /\ Fits(deque[w], Top(w))
  BY <1>1, AtTop
<1>3. UNCHANGED <<deque, slot>> /\ Rest'
  <2>1. UNCHANGED <<deque, arrays, injected, bunk, stopped, history>>
    BY DEF Acquire, WakeUp, SpuriousWakeUp
  <2>2. semaphore' \in [Worker -> {-1, 0, 1}]
    BY DEF Acquire, WakeUp, SpuriousWakeUp, SInv, TypeOK
  <2>3. notified' \in [Worker -> BOOLEAN]
    BY DEF Acquire, WakeUp, SpuriousWakeUp, SInv, TypeOK
  <2> QED  BY <2>1, <2>2, <2>3, RestNow DEF Rest, arrays, bunk, history, FullRef
<1>4. CASE Return(w)
  BY <1>2, <1>3, <1>4, QuietReturn DEF BodyPc, Moving, SleepPc
<1>5. ASSUME NEW p \in SleepPc \ {"acquire"}, Jump(w, p)
      PROVE  Advance
  <2> DEFINE f == [Top(w) EXCEPT !.pc = p]
  <2>1. /\ f \in Frames /\ f.pc = p /\ f.ref = Top(w).ref
        /\ f.task = Top(w).task /\ f.todo = Top(w).todo /\ f.base = Top(w).base
    BY <1>2 DEF Frames, Pc
  <2>2. SameRole(Top(w), f) /\ Fits(deque[w], f)
    BY <1>2, <2>1 DEF SameRole, SleepPc, Fits, Moving, Asks, Sharing
  <2>3. Become(w, f)
    BY <1>5 DEF Jump
  <2> HIDE DEF f
  <2> QED  BY <1>2, <1>3, <2>1, <2>2, <2>3, Onward DEF WaitPc, OtherPc, SleepPc
<1> QED  BY <1>4, <1>5 DEF Acquire, WakeUp, SpuriousWakeUp, SleepPc

LEMMA RunWorkerStep ==
  ASSUME SInv, NEW w \in Worker, RunWorker(w)
  PROVE  Advance
<1>1. PICK pc \in {"run_worker", "waitForNewTask", "woken"} : At(w, pc)
  BY DEF RunWorker
<1>2. /\ Depth(w) > 0 /\ Top(w).pc = pc /\ Top(w) \in Frames /\ Fits(deque[w], Top(w))
  BY <1>1, AtTop
<1>3. UNCHANGED <<deque, slot>> /\ Rest'
  <2>1. UNCHANGED <<deque, arrays, signals, haveJobs, stopped, history>>
    BY DEF RunWorker, bunk
  <2>2. sleepers' \in Seq(Worker)
    <3>1. sleepers' = sleepers \/ sleepers' = <<w>> \o sleepers
      BY DEF RunWorker, bunk
    <3>2. sleepers \in Seq(Worker) /\ <<w>> \o sleepers \in Seq(Worker)
      BY DEF SInv, TypeOK
    <3> QED  BY <3>1, <3>2
  <2> QED  BY <2>1, <2>2, RestStays DEF arrays
<1>4. CASE Return(w)
  BY <1>2, <1>3, <1>4, QuietReturn DEF BodyPc, Moving
<1>5. ASSUME NEW p \in {"woken", "random_steal_loop", "waitForNewTask"}, NEW f,
             f = [Top(w) EXCEPT !.pc = p]
      PROVE  /\ f \in Frames /\ f.pc = p /\ f.ref = Top(w).ref
             /\ f.task = Top(w).task /\ f.todo = Top(w).todo /\ f.base = Top(w).base
             /\ SameRole(Top(w), f) /\ Fits(deque[w], f) /\ FrameOK(f)
             /\ FitsHead(w, f, deque[w].head)
  <2>1. /\ f \in Frames /\ f.pc = p /\ f.ref = Top(w).ref
        /\ f.task = Top(w).task /\ f.todo = Top(w).todo /\ f.base = Top(w).base
    BY <1>2, <1>5 DEF Frames, Pc, ThreadPc
  <2>2. SameRole(Top(w), f) /\ Fits(deque[w], f)
    BY <1>2, <2>1 DEF SameRole, ThreadPc, Fits, Moving, Asks, Sharing
  <2>3. FrameOK(f) /\ FitsHead(w, f, deque[w].head)
    BY <2>1 DEF FrameOK, FitsHead, AtHead, RefPc, OtherPc, WaitPc, ShrinkPc, BodyPc, TakenPc
  <2> QED  BY <2>1, <2>2, <2>3
<1>6. CASE At(w, "run_worker")
  <2>1. ASSUME Jump(w, "waitForNewTask")  PROVE Advance
    <3>1. PICK f : f = [Top(w) EXCEPT !.pc = "waitForNewTask"]
      OBVIOUS
    <3>2. Become(w, f)
      BY <2>1, <3>1 DEF Jump
    <3>3. Top(w).pc = "run_worker"
      BY <1>6 DEF At
    <3> QED  BY <1>2, <1>3, <1>5, <3>1, <3>2, <3>3, Onward DEF WaitPc, OtherPc
  <2> QED  BY <1>4, <1>6, <2>1 DEF RunWorker, At
<1>7. CASE At(w, "waitForNewTask")
  <2> DEFINE g == Frame("acquire")
  <2>1. PICK f : f = [Top(w) EXCEPT !.pc = "woken"]
    OBVIOUS
  <2>2. Call(w, g, f)
    BY <1>7, <2>1 DEF RunWorker, At, CallThen
  <2>3. g \in Frames /\ g.pc = "acquire"
    BY NewFrames DEF Pc, SleepPc
  <2>4. /\ f \in Frames /\ f.pc = "woken" /\ SameRole(Top(w), f) /\ FrameOK(f)
        /\ FitsHead(w, f, deque[w].head)
    BY <1>5, <2>1
  <2>5. MayCall(f, g) /\ FrameOK(g) /\ FitsHead(w, g, deque[w].head)
    BY <2>3, <2>4
       DEF MayCall, SleepPc, FrameOK, FitsHead, AtHead, RefPc, OtherPc, WaitPc, ShrinkPc, BodyPc,
           TakenPc
  <2>6. Fits(deque[w], g)
    BY <1>2, <2>3 DEF Fits, Moving, Asks, Sharing
  <2> HIDE DEF g
  <2> QED  BY <1>2, <1>3, <2>2, <2>3, <2>4, <2>5, <2>6, QuietCall
              DEF WaitPc, StopPc, ThreadPc, BodyPc
<1>8. CASE At(w, "woken")
  <2>1. ASSUME injected[w] # None,
               CallThen(w, OnSlot("runStolenTask", injected[w]), "random_steal_loop")
        PROVE  Advance
    <3> DEFINE g == OnSlot("runStolenTask", injected[w])
    <3>1. PICK f : f = [Top(w) EXCEPT !.pc = "random_steal_loop"]
      OBVIOUS
    <3>2. Call(w, g, f)
      BY <2>1, <3>1 DEF CallThen
    <3>3. FullRef(injected[w])
      BY <2>1 DEF SInv
    <3>4. g \in Frames /\ g.pc = "runStolenTask" /\ g.ref = injected[w]
      <4>1. "runStolenTask" \in Pc /\ injected[w] \in Ref
        BY <3>3 DEF FullRef, Pc, TakenPc
      <4> QED  BY <4>1, NewFrames
    <3> HIDE DEF g
    <3>5. /\ f \in Frames /\ f.pc = "random_steal_loop" /\ SameRole(Top(w), f) /\ FrameOK(f)
          /\ FitsHead(w, f, deque[w].head)
      BY <1>5, <3>1
    <3>6. MayCall(f, g) /\ FrameOK(g) /\ FitsHead(w, g, deque[w].head)
      BY <3>3, <3>4, <3>5
         DEF MayCall, FrameOK, FitsHead, AtHead, OtherPc, WaitPc, ShrinkPc, BodyPc, TakenPc, FullRef
    <3>7. Fits(deque[w], g)
      BY <1>2, <3>4 DEF Fits, Moving, Asks, Sharing
    <3> QED  BY <1>2, <1>3, <3>2, <3>4, <3>5, <3>6, <3>7, QuietCall
                DEF WaitPc, StopPc, ThreadPc, BodyPc
  <2> QED  BY <1>4, <1>8, <2>1 DEF RunWorker, At
<1> QED  BY <1>1, <1>6, <1>7, <1>8

LEMMA RandomStealLoopStep ==
  ASSUME SInv, NEW w \in Worker, RandomStealLoop(w)
  PROVE  Advance
<1>1. PICK pc \in {"random_steal_loop", "randomSteal"} : At(w, pc)
  BY DEF RandomStealLoop
<1>2. /\ Depth(w) > 0 /\ Top(w).pc = pc /\ Top(w) \in Frames /\ Fits(deque[w], Top(w))
      /\ FrameOK(Top(w))
  BY <1>1, AtTop
<1>3. UNCHANGED slot /\ Rest'
  <2>1. UNCHANGED <<arrays, signals, bunk, stopped, history>>
    BY DEF RandomStealLoop
  <2> QED  BY <2>1, RestStays, RestNow DEF Rest, bunk
<1>4. CASE At(w, "random_steal_loop")
  <2>1. pc = "random_steal_loop" /\ UNCHANGED deque
    BY <1>1, <1>4 DEF RandomStealLoop, At
  <2>2. ASSUME NEW f \in Frames, f.pc \in {"waitForNewTask", "randomSteal"},
               f.pc = "randomSteal" => f.other \in Worker, Become(w, f),
               f.task = Top(w).task, f.todo = Top(w).todo, f.base = Top(w).base, f.ref = Top(w).ref
        PROVE  Advance
    <3>1. SameRole(Top(w), f) /\ Fits(deque[w], f)
      BY <1>2, <2>1, <2>2 DEF SameRole, ThreadPc, Fits, Moving, Asks, Sharing
    <3> QED  BY <1>2, <1>3, <2>1, <2>2, <3>1, Onward DEF WaitPc, OtherPc
  <2>3. ASSUME Jump(w, "waitForNewTask")  PROVE Advance
    <3> DEFINE f == [Top(w) EXCEPT !.pc = "waitForNewTask"]
    <3>1. /\ f \in Frames /\ f.pc = "waitForNewTask" /\ f.ref = Top(w).ref
          /\ f.task = Top(w).task /\ f.todo = Top(w).todo /\ f.base = Top(w).base
      BY <1>2 DEF Frames, Pc, ThreadPc
    <3>2. Become(w, f)
      BY <2>3 DEF Jump
    <3> HIDE DEF f
    <3> QED  BY <2>2, <3>1, <3>2
  <2>4. ASSUME NEW v \in Worker, Become(w, [Top(w) EXCEPT !.pc = "randomSteal", !.other = v])
        PROVE  Advance
    <3> DEFINE f == [Top(w) EXCEPT !.pc = "randomSteal", !.other = v]
    <3>1. /\ f \in Frames /\ f.pc = "randomSteal" /\ f.ref = Top(w).ref /\ f.other = v
          /\ f.task = Top(w).task /\ f.todo = Top(w).todo /\ f.base = Top(w).base
      BY <1>2 DEF Frames, Pc, ThreadPc
    <3> HIDE DEF f
    <3> QED  BY <2>2, <2>4, <3>1 DEF f
  <2> QED  BY <1>4, <2>3, <2>4 DEF RandomStealLoop, At
<1>5. CASE At(w, "randomSteal")
  <2> DEFINE y == Frame("random_steal_loop")
  <2>1. pc = "randomSteal" /\ Steal(w, Top(w).other, y, y)
    BY <1>1, <1>5 DEF RandomStealLoop, At
  <2>2. Top(w).other \in Worker
    BY <1>2, <2>1 DEF FrameOK, OtherPc
  <2>3. y \in Frames /\ y.pc = "random_steal_loop"
    BY NewFrames DEF Pc, ThreadPc
  <2>4. SameRole(Top(w), y) /\ FrameOK(y) /\ FitsHead(w, y, deque[w].head)
    BY <1>2, <2>1, <2>3
       DEF SameRole, ThreadPc, FrameOK, FitsHead, AtHead, RefPc, OtherPc, WaitPc, ShrinkPc,
           BodyPc, TakenPc
  <2> HIDE DEF y
  <2> QED  BY <1>2, <1>3, <2>1, <2>2, <2>3, <2>4, StealStep DEF HuntPc, WaitPc
<1> QED  BY <1>1, <1>4, <1>5

LEMMA StopWorkerThreadsStep ==
  ASSUME SInv, NEW w \in Worker, StopWorkerThreads(w)
  PROVE  Advance
<1>1. PICK pc \in {"stopWorkerThreads", "stopping"} : At(w, pc)
  BY DEF StopWorkerThreads
<1>2. /\ Depth(w) > 0 /\ Top(w).pc = pc /\ Top(w) \in Frames /\ Fits(deque[w], Top(w))
      /\ FrameOK(Top(w))
  BY <1>1, AtTop
<1>3. UNCHANGED <<deque, slot>> /\ Rest'
  <2>1. UNCHANGED <<deque, arrays, semaphore, notified, bunk, history>>
    BY DEF StopWorkerThreads, signals
  <2>2. stopped' \in BOOLEAN
    BY DEF StopWorkerThreads, SInv, TypeOK
  <2>3. /\ injected' \in [Worker -> Ref \cup {None}]
        /\ \A v \in Worker : injected'[v] # None => injected'[v] = injected[v]
    BY DEF StopWorkerThreads, signals, SInv, TypeOK
  <2>4. \A r : FullRef(r)' <=> FullRef(r)
    BY <2>1 DEF FullRef, arrays
  <2> QED  BY <2>1, <2>2, <2>3, <2>4, RestNow DEF Rest, arrays, bunk, history
<1>4. CASE Return(w)
  BY <1>2, <1>3, <1>4, QuietReturn DEF BodyPc, Moving
<1>5. ASSUME NEW f \in Frames, f.pc = "stopping", f.todo \in Seq(Worker)
      PROVE  SameRole(Top(w), f) /\ Fits(deque[w], f) /\ FrameOK(f) /\ FitsHead(w, f, deque[w].head)
  BY <1>2, <1>5 DEF SameRole, StopPc, Fits, Moving, Asks, Sharing, FrameOK, FitsHead, AtHead, RefPc,
                    OtherPc, WaitPc, ShrinkPc, BodyPc, TakenPc
<1>6. ASSUME Become(w, [Frame("stopping") EXCEPT !.todo = SetToSeq(Worker)])
      PROVE  Advance
  <2> DEFINE f == [Frame("stopping") EXCEPT !.todo = SetToSeq(Worker)]
  <2>1. SetToSeq(Worker) \in Seq(Worker)
    BY WorkerSeq
  <2>2. SetToSeq(Worker) \in Seq(Task \cup Worker \cup {None})
    BY <2>1
  <2>3. f \in Frames /\ f.pc = "stopping" /\ f.todo = SetToSeq(Worker)
    BY <2>2 DEF Frame, Frames, Pc, StopPc
  <2> HIDE DEF f
  <2> QED  BY <1>2, <1>3, <1>5, <1>6, <2>1, <2>3, QuietBecome DEF f, WaitPc
<1>7. ASSUME pc = "stopping", Top(w).todo # <<>>,
             Call(w, Release(Head(Top(w).todo)), [Top(w) EXCEPT !.todo = Tail(@)])
      PROVE  Advance
  <2> DEFINE g == Release(Head(Top(w).todo))
             f == [Top(w) EXCEPT !.todo = Tail(@)]
  <2>1. Head(Top(w).todo) \in Worker /\ Tail(Top(w).todo) \in Seq(Worker)
    <3>1. Top(w).todo \in Seq(Worker)
      BY <1>2, <1>7 DEF FrameOK
    <3> QED  BY <1>7, <3>1
  <2>2. Tail(Top(w).todo) \in Seq(Task \cup Worker \cup {None})
    BY <2>1
  <2>3. f \in Frames /\ f.pc = "stopping" /\ f.todo \in Seq(Worker)
    BY <1>2, <1>7, <2>1, <2>2 DEF Frames
  <2>4. g \in Frames /\ g.pc = "release"
    BY <2>1, NewFrames
  <2> HIDE DEF f, g
  <2>5. SameRole(Top(w), f) /\ FrameOK(f) /\ FitsHead(w, f, deque[w].head)
    BY <1>5, <2>3
  <2>6. MayCall(f, g) /\ FrameOK(g) /\ FitsHead(w, g, deque[w].head)
    BY <2>3, <2>4
       DEF MayCall, ReleasePc, FrameOK, FitsHead, AtHead, RefPc, OtherPc, WaitPc, ShrinkPc,
           BodyPc, TakenPc
  <2>7. Fits(deque[w], g)
    BY <1>2, <2>4 DEF Fits, Moving, Asks, Sharing
  <2> QED  BY <1>2, <1>3, <1>7, <2>3, <2>4, <2>5, <2>6, <2>7, QuietCall
           DEF f, g, WaitPc, StopPc, ThreadPc, BodyPc
<1> QED  BY <1>1, <1>4, <1>6, <1>7 DEF StopWorkerThreads, At

-----------------------------------------------------------------------------
(* The steps of an owner that move its deque                               *)

LEMMA GaveUp ==
  ASSUME SInv, NEW w \in Worker, NEW d \in Deque, GiveUpShare(w, d)
  PROVE  \E e \in Deque :
           /\ deque' = [deque EXCEPT ![w] = e] /\ haveJobs' \in Int /\ e.allStolenCopy
           /\ e.head = d.head /\ e.tail = d.tail /\ e.split = d.split /\ e.splitCopy = d.splitCopy
<1>1. haveJobs \in Int
  BY DEF SInv, TypeOK
<1>2. CASE d.allStolenCopy
  BY <1>1, <1>2 DEF GiveUpShare
<1>3. CASE ~d.allStolenCopy
  <2> DEFINE e == [d EXCEPT !.allStolenCopy = TRUE, !.allStolen = TRUE]
  <2>1. /\ e \in Deque /\ e.allStolenCopy
        /\ e.head = d.head /\ e.tail = d.tail /\ e.split = d.split /\ e.splitCopy = d.splitCopy
    BY DEF Deque
  <2>2. deque' = [deque EXCEPT ![w] = e] /\ haveJobs' \in Int
    BY <1>1, <1>3 DEF GiveUpShare
  <2> QED  BY <2>1, <2>2
<1> QED  BY <1>2, <1>3

(* Such a step, when it changes neither what the slots hold nor more than  *)
(* it says of the rest.                                                    *)
LEMMA OwnerStep ==
  ASSUME SInv, NEW w \in Worker, NEW e \in Deque, deque' = [deque EXCEPT ![w] = e],
         UNCHANGED slot, Rest',
         \A i \in Slot : i < e.head \/ i < e.split \/ i < e.splitCopy =>
                           i < deque[w].head \/ i < deque[w].split \/ i < deque[w].splitCopy,
         stack' \in [Worker -> Seq(Frames)], Moved(w),
         \A v \in Worker \ {w} : stack'[v] = stack[v]
  PROVE  Advance
<1>1. SlotsStay
  BY DEF SlotsStay
<1>2. \A i \in Slot : i < e.head \/ i < e.split \/ i < e.splitCopy => slot'[w][i] \in Task
  BY DEF SInv, Filled
<1> QED  BY <1>1, <1>2, Finish

LEMMA DequeNow ==
  ASSUME SInv, NEW w \in Worker, NEW e, deque' = [deque EXCEPT ![w] = e]
  PROVE  deque'[w] = e
BY DEF SInv, TypeOK

LEMMA SpawnStep ==
  ASSUME SInv, NEW w \in Worker, Spawn(w)
  PROVE  Advance
<1>1. PICK d \in Deque : d = deque[w]
  BY GoodParts
<1> DEFINE h == d.head
           t == Head(Top(w).todo)
<1>2. /\ At(w, "body") /\ Top(w).todo # <<>> /\ t # None /\ h < kTaskArraySize
      /\ slot' = [slot EXCEPT ![w][h] = t]
      /\ stealer' = [stealer EXCEPT ![w][h] = "unset"]
      /\ UNCHANGED <<signals, bunk, stopped, history>>
  BY <1>1 DEF Spawn, Spawns
<1>3. /\ Depth(w) > 0 /\ Top(w).pc = "body" /\ Top(w) \in Frames /\ FrameOK(Top(w))
      /\ FitsHead(w, Top(w), h) /\ Fits(d, Top(w)) /\ Top(w).base \in Nat
  BY <1>1, <1>2, AtTop, FrameFields
<1>4. t \in Task /\ Tail(Top(w).todo) \in Todos
  <2>1. Top(w).todo \in Todos
    BY <1>3 DEF FrameOK, BodyPc
  <2> QED  BY <1>2, <2>1, TodoFacts
<1>5. PICK b \in Frames :
        /\ b = [Top(w) EXCEPT !.todo = Tail(@)]
        /\ b.pc = "body" /\ b.base = Top(w).base /\ b.task = Top(w).task
        /\ b.todo = Tail(Top(w).todo)
  <2> DEFINE b == [Top(w) EXCEPT !.todo = Tail(@)]
  <2>1. Tail(Top(w).todo) \in Seq(Task \cup Worker \cup {None})
    BY <1>4, TodoFacts
  <2>2. /\ b \in Frames /\ b.pc = "body" /\ b.base = Top(w).base /\ b.task = Top(w).task
        /\ b.todo = Tail(Top(w).todo)
    BY <1>3, <2>1 DEF Frames
  <2> QED  BY <2>2
<1>6. h \in Slot /\ h \in Nat /\ d.splitCopy \in Nat /\ d.tail \in Nat /\ d.split \in Nat
      /\ kTaskArraySize \in Nat /\ h + 1 \in 0..kTaskArraySize
  BY <1>2, DequeTypes DEF Slot
<1>7. SlotsStay /\ slot'[w][h] \in Task
      /\ slot' \in [Worker -> [Slot -> Task \cup {None}]]
  BY <1>2, <1>4, <1>6 DEF SlotsStay, SInv, TypeOK
<1>8. Rest'
  <2>1. stealer' \in [Worker -> [Slot -> Worker \cup {"unset", "finished"}]]
    BY <1>2 DEF SInv, TypeOK
  <2>2. \A r : FullRef(r) => FullRef(r)'
    BY <1>7, FramesStay
  <2> QED  BY <1>2, <1>7, <2>1, <2>2, RestNow DEF Rest, signals, bunk, history
<1>9. ASSUME NEW e \in Deque, deque' = [deque EXCEPT ![w] = e], e.head = h + 1,
             e.split \in {d.split, h + 1}, e.splitCopy = d.splitCopy,
             NEW p \in {"pushShare", "growShared"}, Call(w, Frame(p), b),
             Fits(e, Frame(p)), d.allStolenCopy \/ d.tail <= e.tail,
             d.allStolenCopy => h <= e.tail
      PROVE  Advance
  <2> DEFINE f == Frame(p)
  <2>1. f \in Frames /\ f.pc = p
    BY NewFrames DEF Pc, PushPc, GrowPc
  <2> HIDE DEF f
  <2>2. SameRole(Top(w), b) /\ HeadMoves(Top(w), h, e.head) /\ FitsHead(w, b, e.head)
    BY <1>3, <1>5, <1>6, <1>9 DEF SameRole, HeadMoves, FitsHead, AtHead, BodyPc, RefPc, WaitPc,
                                  ShrinkPc, TakenPc
  <2>3. MayCall(b, f) /\ FitsHead(w, f, e.head)
    BY <1>5, <2>1 DEF MayCall, PushPc, GrowPc, FitsHead, AtHead, BodyPc, RefPc, WaitPc, ShrinkPc,
                      TakenPc
  <2>4. FrameOK(f)' /\ FrameOK(b)'
    <3>1. FrameOK(f) /\ FrameOK(b)
      BY <1>3, <1>4, <1>5, <2>1 DEF FrameOK, BodyPc, RefPc, OtherPc, WaitPc, ShrinkPc, TakenPc
    <3> QED  BY <1>7, <3>1, FramesStay
  <2>5. Keeps(d, Top(w), e, f)
    BY <1>3, <1>6, <1>9, <2>1, DequeTypes DEF Keeps, TakenSlot
  <2>6. deque'[w] = e
    BY <1>9, DequeNow
  <2>7. /\ stack' \in [Worker -> Seq(Frames)] /\ Moved(w)
        /\ \A v \in Worker \ {w} : stack'[v] = stack[v]
    BY <1>1, <1>3, <1>5, <1>7, <1>9, <2>1, <2>2, <2>3, <2>4, <2>5, <2>6, CallKeeps
       DEF f, WaitPc, StopPc, ThreadPc, BodyPc, ReleasePc
  <2>8. \A i \in Slot : i < e.head \/ i < e.split \/ i < e.splitCopy => slot'[w][i] \in Task
    <3> SUFFICES ASSUME NEW i \in Slot, i < e.head \/ i < e.split \/ i < e.splitCopy, i # h
                 PROVE  slot[w][i] \in Task
      BY <1>7 DEF SlotsStay
    <3>1. i < d.head \/ i < d.split \/ i < d.splitCopy
      BY <1>6, <1>9 DEF Slot
    <3> QED  BY <1>1, <3>1 DEF SInv, Filled
  <2> QED  BY <1>7, <1>8, <1>9, <2>7, <2>8, Finish
<1>10. Rested(d)
  BY <1>3 DEF Fits, Moving
<1>11. CASE /\ d.allStolenCopy /\ Call(w, Frame("pushShare"), b)
            /\ deque' = [deque EXCEPT ![w] = [d EXCEPT !.head = h + 1, !.tail = h, !.split = h + 1]]
  <2> DEFINE n == h + 1
             e == [d EXCEPT !.head = n, !.tail = h, !.split = n]
  <2>0. n \in Nat /\ n \in 0..kTaskArraySize /\ n = h + 1
    BY <1>6
  <2> HIDE DEF n
  <2>1. /\ e \in Deque /\ e.head = h + 1 /\ e.split = h + 1 /\ e.splitCopy = d.splitCopy
        /\ e.tail = h /\ e.allStolenCopy
    BY <1>6, <1>11, <2>0 DEF Deque
  <2> HIDE DEF e
  <2>2. Frame("pushShare").pc = "pushShare"
    BY NewFrames DEF Pc, PushPc
  <2>3. Fits(e, Frame("pushShare"))
    BY <1>6, <2>1, <2>2 DEF Fits, Moving, Asks, Sharing
  <2>4. "pushShare" \in {"pushShare", "growShared"} /\ e.split \in {d.split, h + 1} /\ h <= e.tail
    BY <1>6, <2>1
  <2>5. deque' = [deque EXCEPT ![w] = e]
    BY <1>11 DEF e, n
  <2> QED  BY <1>9, <1>11, <2>1, <2>3, <2>4, <2>5
<1>12. CASE /\ ~d.allStolenCopy /\ Call(w, Frame("growShared"), b)
            /\ deque' = [deque EXCEPT ![w].head = h + 1]
  <2> DEFINE e == [d EXCEPT !.head = h + 1]
  <2>1. /\ e \in Deque /\ e.head = h + 1 /\ e.split = d.split /\ e.splitCopy = d.splitCopy
        /\ e.tail = d.tail /\ ~e.allStolenCopy
    BY <1>2, <1>6, <1>12 DEF Deque
  <2>2. Frame("growShared").pc = "growShared"
    BY NewFrames DEF Pc, GrowPc
  <2>3. deque' = [deque EXCEPT ![w] = e]
    BY <1>1, <1>12 DEF SInv, TypeOK
  <2> HIDE DEF e
  <2>4. Fits(e, Frame("growShared"))
    <3>1. d.splitCopy < Smaller(kTaskArraySize, h + 1)
      BY <1>2, <1>6, <1>10, <1>12 DEF Rested, Smaller
    <3>2. Rested(e)
      BY <1>6, <1>10, <1>12, <2>1 DEF Rested
    <3> QED  BY <2>1, <2>2, <3>1, <3>2 DEF Fits, Moving, Asks, Sharing
  <2>5. "growShared" \in {"pushShare", "growShared"} /\ e.split \in {d.split, h + 1}
        /\ d.tail <= e.tail
    BY <1>6, <2>1
  <2> QED  BY <1>9, <1>12, <2>1, <2>3, <2>4, <2>5
<1> QED  BY <1>1, <1>5, <1>11, <1>12 DEF Spawn

LEMMA OverflowStep ==
  ASSUME SInv, NEW w \in Worker, Overflow(w)
  PROVE  Advance
<1>1. PICK d \in Deque : d = deque[w]
  BY GoodParts
<1> DEFINE h == d.head
           t == Head(Top(w).todo)
<1>2. /\ At(w, "overflow") /\ Begin(t) /\ deque' = [deque EXCEPT ![w].head = @ + 1]
      /\ Call(w, Body(t, h + 1), [Top(w) EXCEPT !.pc = "body", !.todo = Tail(@)])
      /\ UNCHANGED <<arrays, signals, bunk, stopped, done>>
  BY <1>1 DEF Overflow
<1>3. /\ Depth(w) > 0 /\ Top(w).pc = "overflow" /\ Top(w) \in Frames /\ FrameOK(Top(w))
      /\ FitsHead(w, Top(w), h) /\ Fits(d, Top(w)) /\ Top(w).base \in Nat
  BY <1>1, <1>2, AtTop, FrameFields
<1>4. t \in Task /\ Tail(Top(w).todo) \in Todos
  <2>1. Top(w).todo \in Todos /\ Top(w).todo # <<>> /\ t # None
    BY <1>3 DEF FrameOK, BodyPc
  <2> QED  BY <2>1, TodoFacts
<1>5. PICK b \in Frames :
        /\ b = [Top(w) EXCEPT !.pc = "body", !.todo = Tail(@)]
        /\ b.pc = "body" /\ b.base = Top(w).base /\ b.task = Top(w).task
        /\ b.todo = Tail(Top(w).todo)
  <2> DEFINE b == [Top(w) EXCEPT !.pc = "body", !.todo = Tail(@)]
  <2>1. Tail(Top(w).todo) \in Seq(Task \cup Worker \cup {None})
    BY <1>4, TodoFacts
  <2>2. /\ b \in Frames /\ b.pc = "body" /\ b.base = Top(w).base /\ b.task = Top(w).task
        /\ b.todo = Tail(Top(w).todo)
    BY <1>3, <2>1 DEF Frames, Pc, BodyPc
  <2> QED  BY <2>2
<1>6. h \in Nat /\ h + 1 \in Nat /\ kTaskArraySize \in Nat /\ kTaskArraySize <= h
      /\ d.splitCopy \in Nat /\ d.tail \in Nat /\ d.split \in Nat
  BY <1>3, DequeTypes DEF FitsHead, AtHead
<1>7. PICK f \in Frames :
        /\ f = Body(t, h + 1) /\ f.pc = "body" /\ f.base = h + 1 /\ f.task \in Task
        /\ f.todo \in Todos
  BY <1>4, <1>6, NewFrames
<1>8. PICK e \in Deque :
        /\ e = [d EXCEPT !.head = h + 1] /\ e.head = h + 1 /\ e.split = d.split
        /\ e.splitCopy = d.splitCopy /\ e.tail = d.tail /\ e.allStolenCopy = d.allStolenCopy
  <2> DEFINE e == [d EXCEPT !.head = h + 1]
  <2>1. /\ e \in Deque /\ e.head = h + 1 /\ e.split = d.split
        /\ e.splitCopy = d.splitCopy /\ e.tail = d.tail /\ e.allStolenCopy = d.allStolenCopy
    BY <1>6 DEF Deque
  <2> QED  BY <2>1
<1>9. deque' = [deque EXCEPT ![w] = e]
  BY <1>1, <1>2, <1>8 DEF SInv, TypeOK
<1>10. Rest' /\ UNCHANGED slot /\ SlotsStay
  <2>1. begun' \in [Task -> Nat]
    BY <1>2, <1>4, BeginTypes
  <2> QED  BY <1>2, <2>1, RestNow DEF Rest, arrays, signals, bunk, FullRef, SlotsStay
<1>11. SameRole(Top(w), b) /\ HeadMoves(Top(w), h, e.head) /\ FitsHead(w, b, e.head)
  BY <1>3, <1>5, <1>6, <1>8 DEF SameRole, HeadMoves, FitsHead, AtHead, BodyPc, RefPc, WaitPc,
                                ShrinkPc, TakenPc
<1>12. MayCall(b, f) /\ FitsHead(w, f, e.head)
  BY <1>3, <1>5, <1>6, <1>7, <1>8, <1>11 DEF MayCall, FitsHead, AtHead, BodyPc, RefPc, WaitPc,
                                             ShrinkPc, TakenPc
<1>13. FrameOK(f)' /\ FrameOK(b)'
  <2>1. FrameOK(f) /\ FrameOK(b)
    BY <1>3, <1>4, <1>5, <1>7 DEF FrameOK, BodyPc, RefPc, OtherPc, WaitPc, ShrinkPc, TakenPc
  <2> QED  BY <1>10, <2>1, FramesStay
<1>14. Fits(e, f) /\ Keeps(d, Top(w), e, f)
  BY <1>3, <1>6, <1>7, <1>8 DEF Fits, Rested, Keeps, TakenSlot, Moving, Asks, Sharing
<1>15. deque'[w] = e
  BY <1>9, DequeNow
<1>16. /\ stack' \in [Worker -> Seq(Frames)] /\ Moved(w)
       /\ \A v \in Worker \ {w} : stack'[v] = stack[v]
  BY <1>1, <1>2, <1>3, <1>5, <1>7, <1>8, <1>10, <1>11, <1>12, <1>13, <1>14, <1>15, CallKeeps
     DEF WaitPc, StopPc, ThreadPc, BodyPc, ReleasePc
<1>17. \A i \in Slot : i < e.head \/ i < e.split \/ i < e.splitCopy =>
                           i < deque[w].head \/ i < deque[w].split \/ i < deque[w].splitCopy
  BY <1>1, <1>6, <1>8 DEF Slot
<1> QED  BY <1>9, <1>10, <1>16, <1>17, OwnerStep

LEMMA OwnerOnward ==
  ASSUME SInv, NEW w \in Worker, Depth(w) > 0, NEW e \in Deque,
         deque' = [deque EXCEPT ![w] = e], e.head = deque[w].head,
         \A i \in Slot : i < e.head \/ i < e.split \/ i < e.splitCopy =>
                           i < deque[w].head \/ i < deque[w].split \/ i < deque[w].splitCopy,
         UNCHANGED slot, Rest', NEW f \in Frames, Become(w, f),
         f.task = Top(w).task, f.todo = Top(w).todo, f.base = Top(w).base, f.ref = Top(w).ref,
         SameRole(Top(w), f), f.pc \notin {"runOwn", "overflow", "stopping"},
         Top(w).pc \notin ReleasePc \cup {"runOwn"}, f.pc \in OtherPc => f.other \in Worker,
         Fits(e, f), Keeps(deque[w], Top(w), e, f),
         f.pc \in WaitPc => TakenSlot(e, f, f.ref[2])
  PROVE  Advance
<1>1. FrameOK(Top(w)) /\ FitsHead(w, Top(w), deque[w].head)
  BY GoodParts, TopFits
<1>2. /\ f.pc \in RefPc => Top(w).pc \in RefPc
      /\ f.pc \in BodyPc => Top(w).pc \in BodyPc
      /\ f.pc \in WaitPc \cup ShrinkPc => Top(w).pc \in WaitPc \cup ShrinkPc
  BY DEF SameRole, RefPc, BodyPc, WaitPc, ShrinkPc, GrowPc, PublishPc, PushPc, TakenPc, SleepPc,
         ReleasePc, ThreadPc, StopPc
<1>3. SlotsStay /\ deque'[w] = e
  BY DequeNow DEF SlotsStay
<1>4. FrameOK(f)'
  <2>1. FrameOK(f)
    BY <1>1, <1>2 DEF FrameOK
  <2> QED  BY <1>3, <2>1, FramesStay
<1>5. FitsHead(w, f, e.head) /\ HeadMoves(Top(w), deque[w].head, e.head)
  BY <1>1, <1>2 DEF FitsHead, AtHead, HeadMoves
<1>6. /\ stack' \in [Worker -> Seq(Frames)] /\ Moved(w)
      /\ \A v \in Worker \ {w} : stack'[v] = stack[v]
  BY <1>3, <1>4, <1>5, BecomeKeeps
<1> QED  BY <1>6, OwnerStep

LEMMA OwnerReturn ==
  ASSUME SInv, NEW w \in Worker, Depth(w) > 0, NEW e \in Deque,
         deque' = [deque EXCEPT ![w] = e], HeadMoves(Top(w), deque[w].head, e.head),
         \A i \in Slot : i < e.head \/ i < e.split \/ i < e.splitCopy =>
                           i < deque[w].head \/ i < deque[w].split \/ i < deque[w].splitCopy,
         UNCHANGED slot, Rest', Return(w), Top(w).pc \notin BodyPc \cup ReleasePc,
         Rested(e), Keeps(deque[w], Top(w), e, Frame("body"))
  PROVE  Advance
<1>1. SlotsStay /\ deque'[w] = e
  BY DequeNow DEF SlotsStay
<1>2. /\ stack' \in [Worker -> Seq(Frames)] /\ Moved(w)
      /\ \A v \in Worker \ {w} : stack'[v] = stack[v]
  BY <1>1, ReturnKeeps
<1> QED  BY <1>2, OwnerStep

LEMMA PushShareStep ==
  ASSUME SInv, NEW w \in Worker, PushShare(w)
  PROVE  Advance
<1>1. PICK d \in Deque : d = deque[w]
  BY GoodParts
<1>2. PICK pc \in PushPc : At(w, pc)
  BY DEF PushShare, PushPc
<1>3. /\ Depth(w) > 0 /\ Top(w).pc = pc /\ Top(w) \in Frames /\ Fits(d, Top(w))
  BY <1>1, <1>2, AtTop
<1>4. UNCHANGED slot /\ Rest'
  <2>1. haveJobs' \in Int /\ UNCHANGED <<arrays, signals, sleepers, stopped, history>>
    BY DEF PushShare, bunk, SInv, TypeOK
  <2> QED  BY <2>1, RestNow DEF Rest, arrays, signals, history, FullRef
<1>5. CASE At(w, "pushShare")
  <2> DEFINE e == [d EXCEPT !.allStolen = FALSE, !.splitCopy = d.head, !.allStolenCopy = FALSE]
             f == [Top(w) EXCEPT !.pc = "pushJobs"]
  <2>1. pc = "pushShare"
    BY <1>2, <1>5 DEF At
  <2>2. deque' = [deque EXCEPT ![w] = e] /\ Become(w, f)
    BY <1>1, <1>5, <2>1 DEF PushShare, At, Jump
  <2>3. d.split = d.head /\ d.tail <= d.split
    BY <1>3, <2>1 DEF Fits
  <2>4. /\ e \in Deque /\ e.head = d.head /\ e.split = d.split /\ e.splitCopy = d.head
        /\ e.tail = d.tail /\ ~e.allStolenCopy
    BY <2>3 DEF Deque
  <2>5. /\ f \in Frames /\ f.pc = "pushJobs" /\ f.ref = Top(w).ref
        /\ f.task = Top(w).task /\ f.todo = Top(w).todo /\ f.base = Top(w).base
    BY <1>3 DEF Frames, Pc, PushPc
  <2> HIDE DEF e, f
  <2>6. Fits(e, f) /\ Keeps(d, Top(w), e, f) /\ SameRole(Top(w), f)
    <3>1. Rested(e)
      BY <2>3, <2>4, DequeTypes DEF Rested
    <3>2. Keeps(d, Top(w), e, f)
      BY <1>3, <2>1, <2>4, <2>5 DEF Keeps, TakenSlot
    <3> QED  BY <1>3, <2>1, <2>4, <2>5, <3>1, <3>2 DEF Fits, Moving, Asks, Sharing, SameRole, PushPc
  <2> QED  BY <1>1, <1>3, <1>4, <2>1, <2>2, <2>3, <2>4, <2>5, <2>6, OwnerOnward
           DEF WaitPc, OtherPc, ReleasePc
<1>6. CASE At(w, "pushJobs")
  <2> DEFINE e == [d EXCEPT !.splitRequest = FALSE]
             f == [Top(w) EXCEPT !.pc = "publishWork"]
  <2>1. pc = "pushJobs"
    BY <1>2, <1>6 DEF At
  <2>2. /\ deque' = [deque EXCEPT ![w] = e]
        /\ Become(w, f) \/ Return(w)
    <3>1. deque' = [deque EXCEPT ![w].splitRequest = FALSE] /\ (Become(w, f) \/ Return(w))
      BY <1>6, <2>1 DEF PushShare, At, Jump
    <3> QED  BY <1>1, <3>1 DEF SInv, TypeOK
  <2>3. Rested(d) /\ ~d.allStolenCopy
    BY <1>3, <2>1 DEF Fits, Moving, Sharing
  <2>4. /\ e \in Deque /\ e.head = d.head /\ e.split = d.split /\ e.splitCopy = d.splitCopy
        /\ e.tail = d.tail /\ ~e.allStolenCopy
    BY <2>3 DEF Deque
  <2>5. /\ f \in Frames /\ f.pc = "publishWork" /\ f.ref = Top(w).ref
        /\ f.task = Top(w).task /\ f.todo = Top(w).todo /\ f.base = Top(w).base
    BY <1>3 DEF Frames, Pc, PublishPc
  <2> HIDE DEF e, f
  <2>6. Rested(e)
    BY <2>3, <2>4 DEF Rested
  <2>7. Fits(e, f) /\ SameRole(Top(w), f)
    BY <1>3, <2>1, <2>4, <2>5, <2>6 DEF Fits, Moving, Asks, Sharing, SameRole, PushPc, PublishPc
  <2>8. Keeps(d, Top(w), e, f) /\ Keeps(d, Top(w), e, Frame("body"))
    BY <1>3, <2>1, <2>3, <2>4, <2>5 DEF Keeps, TakenSlot, Frame
  <2>9. CASE Become(w, f)
    BY <1>1, <1>3, <1>4, <2>1, <2>2, <2>4, <2>5, <2>7, <2>8, <2>9, OwnerOnward
       DEF WaitPc, OtherPc, ReleasePc
  <2>10. CASE Return(w)
    <3>1. HeadMoves(Top(w), d.head, e.head)
      BY <2>4 DEF HeadMoves
    <3> QED  BY <1>1, <1>3, <1>4, <2>1, <2>2, <2>4, <2>6, <2>8, <2>10, <3>1, OwnerReturn
             DEF BodyPc, ReleasePc
  <2> QED  BY <2>2, <2>9, <2>10
<1> QED  BY <1>2, <1>5, <1>6 DEF PushPc

LEMMA GrowSharedStep ==
  ASSUME SInv, NEW w \in Worker, GrowShared(w)
  PROVE  Advance
<1>1. PICK d \in Deque : d = deque[w]
  BY GoodParts
<1>2. PICK pc \in GrowPc : At(w, pc)
  BY DEF GrowShared, GrowPc
<1>3. /\ Depth(w) > 0 /\ Top(w).pc = pc /\ Top(w) \in Frames /\ Fits(d, Top(w))
  BY <1>1, <1>2, AtTop
<1>4. UNCHANGED slot /\ Rest'
  <2>1. UNCHANGED <<arrays, signals, bunk, stopped, history>>
    BY DEF GrowShared
  <2> QED  BY <2>1, RestStays, RestNow DEF Rest, bunk
<1>5. ASSUME NEW e \in Deque, deque' = [deque EXCEPT ![w] = e], e.head = d.head,
             \A i \in Slot : i < e.head \/ i < e.split \/ i < e.splitCopy =>
                               i < d.head \/ i < d.split \/ i < d.splitCopy,
             e.tail = d.tail, e.allStolenCopy = d.allStolenCopy,
             NEW f \in Frames, Become(w, f), f.pc \in GrowPc \cup {"publishWork"},
             f.task = Top(w).task, f.todo = Top(w).todo, f.base = Top(w).base, f.ref = Top(w).ref,
             Fits(e, f)
      PROVE  Advance
  <2>1. SameRole(Top(w), f)
    BY <1>3, <1>5 DEF SameRole, GrowPc, PublishPc
  <2>2. Keeps(d, Top(w), e, f)
    BY <1>3, <1>5 DEF Keeps, TakenSlot, GrowPc
  <2> QED  BY <1>1, <1>3, <1>4, <1>5, <2>1, <2>2, OwnerOnward DEF WaitPc, OtherPc, ReleasePc, GrowPc
<1>6. deque = [deque EXCEPT ![w] = d]
  BY <1>1 DEF SInv, TypeOK
<1>7. CASE pc \in {"growShared", "growAsked"}
  <2>1. UNCHANGED deque
    BY <1>2, <1>7 DEF GrowShared, At
  <2>2. CASE Return(w)
    BY <1>3, <1>4, <1>7, <2>1, <2>2, QuietReturn DEF BodyPc, Moving
  <2>3. ASSUME NEW f \in Frames, Become(w, f), f.pc \in {"growAsked", "growMove"},
             f.task = Top(w).task, f.todo = Top(w).todo, f.base = Top(w).base, f.ref = Top(w).ref
        PROVE  Advance
    <3>1. Fits(d, f)
      BY <1>3, <1>7, <2>3 DEF Fits, Moving, Asks, Sharing
    <3>2. f.pc \in GrowPc \cup {"publishWork"}
      BY <2>3 DEF GrowPc
    <3> QED  BY <1>5, <1>6, <2>1, <2>3, <3>1, <3>2
  <2>4. ASSUME NEW p \in {"growAsked", "growMove"}, Jump(w, p)  PROVE Advance
    <3> DEFINE f == [Top(w) EXCEPT !.pc = p]
    <3>1. /\ f \in Frames /\ f.pc = p /\ f.ref = Top(w).ref
          /\ f.task = Top(w).task /\ f.todo = Top(w).todo /\ f.base = Top(w).base
      BY <1>3 DEF Frames, Pc, GrowPc
    <3>2. Become(w, f)
      BY <2>4 DEF Jump
    <3> HIDE DEF f
    <3> QED  BY <2>3, <3>1, <3>2
  <2>5. ASSUME Become(w, [Top(w) EXCEPT !.pc = "growMove", !.t = 1])  PROVE Advance
    <3> DEFINE f == [Top(w) EXCEPT !.pc = "growMove", !.t = 1]
    <3>1. /\ f \in Frames /\ f.pc = "growMove" /\ f.ref = Top(w).ref
          /\ f.task = Top(w).task /\ f.todo = Top(w).todo /\ f.base = Top(w).base
      BY <1>3 DEF Frames, Pc, GrowPc
    <3> HIDE DEF f
    <3> QED  BY <2>3, <2>5, <3>1 DEF f
  <2> QED  BY <1>2, <1>7, <2>2, <2>4, <2>5 DEF GrowShared, At
<1>8. CASE pc = "growMove"
  <2> DEFINE new == Smaller(kTaskArraySize, d.head)
             e == [d EXCEPT !.split = new, !.splitCopy = new]
  <2>1. /\ deque' = [deque EXCEPT ![w] = e]
        /\ Jump(w, "growClear") \/ Jump(w, "publishWork")
    BY <1>1, <1>2, <1>8 DEF GrowShared, At
  <2>2. /\ ~d.allStolenCopy /\ d.splitCopy < new /\ d.split = d.splitCopy /\ d.tail <= d.split
    BY <1>3, <1>8 DEF Fits, Rested, Moving, Asks
  <2>3. new \in 0..kTaskArraySize /\ new \in Nat /\ new <= d.head
    BY DequeTypes DEF Smaller
  <2> HIDE DEF new
  <2>4. /\ e \in Deque /\ e.head = d.head /\ e.split = new /\ e.splitCopy = new
        /\ e.tail = d.tail /\ e.allStolenCopy = d.allStolenCopy
    BY <2>3 DEF Deque
  <2> HIDE DEF e
  <2>5. Rested(e)
    BY <2>2, <2>3, <2>4, DequeTypes DEF Rested
  <2>6. ASSUME NEW p \in {"growClear", "publishWork"}, Jump(w, p)  PROVE Advance
    <3> DEFINE f == [Top(w) EXCEPT !.pc = p]
    <3>1. /\ f \in Frames /\ f.pc = p /\ f.ref = Top(w).ref
          /\ f.task = Top(w).task /\ f.todo = Top(w).todo /\ f.base = Top(w).base
      BY <1>3 DEF Frames, Pc, GrowPc, PublishPc
    <3>2. Become(w, f)
      BY <2>6 DEF Jump
    <3> HIDE DEF f
    <3>3. Fits(e, f)
      BY <2>2, <2>4, <2>5, <3>1 DEF Fits, Moving, Asks, Sharing
    <3>4. f.pc \in GrowPc \cup {"publishWork"}
      BY <3>1 DEF GrowPc
    <3>5. \A i \in Slot : i < e.head \/ i < e.split \/ i < e.splitCopy =>
                               i < d.head \/ i < d.split \/ i < d.splitCopy
      BY <2>3, <2>4, DequeTypes DEF Slot
    <3> QED  BY <1>5, <2>1, <2>4, <3>1, <3>2, <3>3, <3>4, <3>5
  <2> QED  BY <2>1, <2>6
<1>9. CASE pc = "growClear"
  <2> DEFINE e == [d EXCEPT !.splitRequest = FALSE]
  <2>1. deque' = [deque EXCEPT ![w] = e] /\ Return(w)
    <3>1. deque' = [deque EXCEPT ![w].splitRequest = FALSE] /\ Return(w)
      BY <1>2, <1>9 DEF GrowShared, At
    <3> QED  BY <1>1, <3>1 DEF SInv, TypeOK
  <2>2. /\ e \in Deque /\ e.head = d.head /\ e.split = d.split /\ e.splitCopy = d.splitCopy
        /\ e.tail = d.tail /\ e.allStolenCopy = d.allStolenCopy
    BY DEF Deque
  <2> HIDE DEF e
  <2>3. Rested(e)
    BY <1>3, <1>9, <2>2 DEF Fits, Rested, Moving
  <2>4. Keeps(d, Top(w), e, Frame("body")) /\ HeadMoves(Top(w), d.head, e.head)
    BY <1>3, <1>9, <2>2 DEF Keeps, TakenSlot, Frame, HeadMoves
  <2> QED  BY <1>1, <1>3, <1>4, <1>9, <2>1, <2>2, <2>3, <2>4, OwnerReturn DEF BodyPc, ReleasePc
<1> QED  BY <1>7, <1>8, <1>9 DEF GrowPc

LEMMA SelfStealStep ==
  ASSUME SInv, NEW w \in Worker, SelfSteal(w)
  PROVE  Advance
<1>1. PICK d \in Deque : d = deque[w]
  BY GoodParts
<1> DEFINE t == d.tail
           p == IF t = d.splitCopy THEN "correctTail" ELSE "inject"
           f == [Top(w) EXCEPT !.t = t, !.pc = p]
           e == [d EXCEPT !.tail = t + 1]
<1>2. At(w, "selfSteal") /\ UNCHANGED <<arrays, signals, bunk, stopped, history>> /\ Become(w, f)
  BY <1>1 DEF SelfSteal
<1>3. /\ Depth(w) > 0 /\ Top(w).pc = "selfSteal" /\ Top(w) \in Frames /\ Fits(d, Top(w))
      /\ Top(w).other \in Worker
  BY <1>1, <1>2, AtTop DEF FrameOK, OtherPc
<1>4. UNCHANGED slot /\ Rest'
  BY <1>2, RestStays, RestNow DEF Rest, bunk
<1>5. deque' = [deque EXCEPT ![w] = e]
  <2>1. deque' = [deque EXCEPT ![w].tail = t + 1]
    BY <1>1 DEF SelfSteal
  <2> QED  BY <1>1, <2>1 DEF SInv, TypeOK
<1>6. /\ t \in Nat /\ t + 1 \in Nat /\ ~d.allStolenCopy /\ d.split = d.splitCopy
      /\ t <= d.split /\ d.splitCopy <= d.head
      /\ d.splitCopy \in Nat /\ d.head \in Nat
  BY <1>3, DequeTypes DEF Fits, Moving, Sharing, Rested
<1>7. /\ e \in Deque /\ e.head = d.head /\ e.split = d.split /\ e.splitCopy = d.splitCopy
      /\ e.tail = t + 1 /\ e.allStolenCopy = d.allStolenCopy
  BY <1>6 DEF Deque
<1>8. /\ f \in Frames /\ f.pc = p /\ f.other = Top(w).other /\ f.t = t /\ f.task = Top(w).task
      /\ f.todo = Top(w).todo /\ f.base = Top(w).base /\ f.ref = Top(w).ref
  BY <1>3, <1>6 DEF Frames, Pc, PublishPc
<1>9. p \in {"correctTail", "inject"} /\ (p = "inject" => t < d.splitCopy)
      /\ (p = "correctTail" => t = d.splitCopy)
  BY <1>6
<1> HIDE DEF e, f, p, t
<1>10. Fits(e, f)
  BY <1>6, <1>7, <1>8, <1>9 DEF Fits, Rested, Injects, Moving, Asks, Sharing
<1>11. Keeps(d, Top(w), e, f)
  BY <1>3, <1>6, <1>7, <1>8, <1>9 DEF Keeps, TakenSlot, t
<1>12. SameRole(Top(w), f)
  BY <1>3, <1>8, <1>9 DEF SameRole, PublishPc
<1> QED  BY <1>1, <1>2, <1>3, <1>4, <1>5, <1>7, <1>8, <1>9, <1>10, <1>11, <1>12, OwnerOnward
         DEF ReleasePc, WaitPc

LEMMA GiveBackStep ==
  ASSUME SInv, NEW w \in Worker, GiveBack(w)
  PROVE  Advance
<1>1. PICK d \in Deque : d = deque[w]
  BY GoodParts
<1>2. PICK pc \in {"correctTail", "giveUp", "pushBack"} : At(w, pc)
  BY DEF GiveBack
<1>3. /\ Depth(w) > 0 /\ Top(w).pc = pc /\ Top(w) \in Frames /\ Fits(d, Top(w))
      /\ Top(w).other \in Worker
  BY <1>1, <1>2, AtTop DEF FrameOK, OtherPc
<1>4. UNCHANGED <<arrays, signals, stopped, history>>
  BY DEF GiveBack
<1>5. ASSUME NEW p \in {"giveUp", "pushBack"}, Jump(w, p)
      PROVE  \E f \in Frames : /\ Become(w, f) /\ f.pc = p /\ f.other \in Worker
                               /\ f.task = Top(w).task /\ f.todo = Top(w).todo
                               /\ f.base = Top(w).base /\ f.ref = Top(w).ref
                               /\ SameRole(Top(w), f)
  <2> DEFINE f == [Top(w) EXCEPT !.pc = p]
  <2>1. /\ f \in Frames /\ f.pc = p /\ f.other = Top(w).other /\ f.task = Top(w).task
        /\ f.todo = Top(w).todo /\ f.base = Top(w).base /\ f.ref = Top(w).ref
    BY <1>3 DEF Frames, Pc, PublishPc
  <2>2. Become(w, f)
    BY <1>5 DEF Jump
  <2> HIDE DEF f
  <2>3. SameRole(Top(w), f)
    BY <1>3, <2>1 DEF SameRole, PublishPc
  <2> QED  BY <1>3, <2>1, <2>2, <2>3
<1>6. CASE pc = "correctTail"
  <2> DEFINE e == [d EXCEPT !.tail = Top(w).t]
  <2>1. Jump(w, "giveUp") /\ UNCHANGED bunk /\ deque' = [deque EXCEPT ![w] = e]
    <3>1. /\ deque' = [deque EXCEPT ![w].tail = Top(w).t]
          /\ Jump(w, "giveUp") /\ UNCHANGED bunk
      BY <1>2, <1>6 DEF GiveBack, At
    <3> QED  BY <1>1, <3>1 DEF SInv, TypeOK
  <2>2. /\ ~d.allStolenCopy /\ d.split = d.splitCopy /\ d.splitCopy <= d.head /\ Top(w).t = d.split
        /\ Top(w).t \in Nat
    BY <1>3, <1>6, FrameFields DEF Fits
  <2>3. /\ e \in Deque /\ e.head = d.head /\ e.split = d.split /\ e.splitCopy = d.splitCopy
        /\ e.tail = d.split /\ e.allStolenCopy = d.allStolenCopy
    BY <2>2 DEF Deque
  <2> HIDE DEF e
  <2>4. PICK f \in Frames : /\ Become(w, f) /\ f.pc = "giveUp" /\ f.other \in Worker
                            /\ f.task = Top(w).task /\ f.todo = Top(w).todo
                            /\ f.base = Top(w).base /\ f.ref = Top(w).ref
                            /\ SameRole(Top(w), f)
    BY <1>5, <2>1
  <2>5. Fits(e, f)
    BY <2>2, <2>3, <2>4, DequeTypes DEF Fits, Rested, Moving, Asks, Sharing
  <2>6. Keeps(d, Top(w), e, f)
    BY <1>3, <1>6, <2>2, <2>3, <2>4 DEF Keeps, TakenSlot
  <2>7. UNCHANGED slot /\ Rest'
    BY <1>4, <2>1, RestStays, RestNow DEF Rest, bunk
  <2> QED  BY <1>1, <1>3, <1>6, <2>1, <2>3, <2>4, <2>5, <2>6, <2>7, OwnerOnward
           DEF ReleasePc, WaitPc
<1>7. CASE pc = "giveUp"
  <2>1. /\ Jump(w, "pushBack") /\ UNCHANGED sleepers
        /\ (IF d.head = d.splitCopy THEN GiveUpShare(w, d) ELSE UNCHANGED <<deque, haveJobs>>)
    BY <1>1, <1>2, <1>7 DEF GiveBack, At
  <2>2. Rested(d) /\ d.tail = d.split /\ ~d.allStolenCopy
    BY <1>3, <1>7 DEF Fits, Moving, Sharing
  <2>3. PICK e \in Deque :
          /\ deque' = [deque EXCEPT ![w] = e] /\ haveJobs' \in Int
          /\ e.head = d.head /\ e.tail = d.tail /\ e.split = d.split /\ e.splitCopy = d.splitCopy
          /\ d.allStolenCopy => e.allStolenCopy
    <3>1. CASE GiveUpShare(w, d)
      BY <3>1, GaveUp
    <3>2. CASE UNCHANGED <<deque, haveJobs>>
      BY <1>1, <3>2 DEF SInv, TypeOK
    <3> QED  BY <2>1, <3>1, <3>2
  <2>4. PICK f \in Frames : /\ Become(w, f) /\ f.pc = "pushBack" /\ f.other \in Worker
                            /\ f.task = Top(w).task /\ f.todo = Top(w).todo
                            /\ f.base = Top(w).base /\ f.ref = Top(w).ref
                            /\ SameRole(Top(w), f)
    BY <1>5, <2>1
  <2>5. Rested(e)
    BY <2>2, <2>3, DequeTypes DEF Rested
  <2>6. Fits(e, f)
    BY <2>4, <2>5 DEF Fits, Moving, Asks, Sharing
  <2>7. Keeps(d, Top(w), e, f)
    BY <1>3, <1>7, <2>2, <2>3, <2>4 DEF Keeps, TakenSlot
  <2>8. UNCHANGED slot /\ Rest'
    BY <1>4, <2>1, <2>3, RestNow DEF Rest, arrays, signals, history, FullRef
  <2> QED  BY <1>1, <1>3, <1>7, <2>3, <2>4, <2>6, <2>7, <2>8, OwnerOnward
           DEF ReleasePc, WaitPc
<1>8. CASE pc = "pushBack"
  <2>1. /\ Return(w) /\ sleepers' = <<Top(w).other>> \o sleepers /\ UNCHANGED <<deque, haveJobs>>
    BY <1>2, <1>8 DEF GiveBack, At
  <2>2. sleepers' \in Seq(Worker)
    BY <1>3, <2>1 DEF SInv, TypeOK
  <2>3. UNCHANGED slot /\ Rest'
    BY <1>4, <2>1, <2>2, RestStays
  <2> QED  BY <1>3, <1>8, <2>1, <2>3, QuietReturn DEF BodyPc, Moving
<1> QED  BY <1>2, <1>6, <1>7, <1>8

LEMMA InjectStep ==
  ASSUME SInv, NEW w \in Worker, Inject(w)
  PROVE  Advance
<1>1. PICK d \in Deque : d = deque[w]
  BY GoodParts
<1>2. PICK pc \in {"inject", "injectNext"} : At(w, pc)
  BY DEF Inject
<1>3. /\ Depth(w) > 0 /\ Top(w).pc = pc /\ Top(w) \in Frames /\ Fits(d, Top(w))
      /\ Top(w).other \in Worker /\ FitsHead(w, Top(w), d.head)
  BY <1>1, <1>2, AtTop DEF FrameOK, OtherPc
<1>4. /\ Rested(d) /\ ~d.allStolenCopy /\ d.split = d.splitCopy
      /\ Top(w).t < d.splitCopy /\ Top(w).t < d.tail /\ Top(w).t \in Nat
  BY <1>3, FrameFields DEF Fits, Moving, Injects, Rested
<1>5. CASE pc = "inject"
  <2> DEFINE v == Top(w).other
             r == <<w, Top(w).t>>
             g == Release(v)
             f == [Top(w) EXCEPT !.pc = "injectNext"]
  <2>1. /\ injected' = [injected EXCEPT ![v] = r] /\ Call(w, g, f)
        /\ UNCHANGED <<deque, arrays, semaphore, notified, bunk, stopped, history>>
    BY <1>2, <1>5 DEF Inject, At, CallThen
  <2>2. FullRef(r)
    <3>1. Top(w).t \in Slot
      BY <1>4, DequeTypes DEF Slot
    <3> QED  BY <1>1, <1>4, <3>1 DEF FullRef, Ref, SInv, Filled
  <2>3. r \in Ref
    BY <2>2 DEF FullRef
  <2> HIDE DEF r
  <2>4. Rest'
    <3>1. injected' \in [Worker -> Ref \cup {None}]
      BY <1>3, <2>1, <2>3 DEF SInv, TypeOK
    <3>2. \A x : FullRef(x) => FullRef(x)'
      BY <2>1 DEF FullRef, arrays
    <3>3. PICK j : j = injected'
      OBVIOUS
    <3>4. \A u \in Worker : j[u] # None => FullRef(j[u])'
      <4> TAKE u \in Worker
      <4>1. j[u] = r \/ j[u] = injected[u]
        BY <1>3, <2>1, <3>3 DEF SInv, TypeOK
      <4> QED  BY <2>2, <3>2, <4>1 DEF SInv
    <3> QED  BY <2>1, <3>1, <3>3, <3>4, RestNow DEF Rest, FullRef, arrays, bunk, history
  <2>5. /\ f \in Frames /\ f.pc = "injectNext" /\ f.other = v /\ f.t = Top(w).t
        /\ f.task = Top(w).task /\ f.todo = Top(w).todo /\ f.base = Top(w).base
        /\ f.ref = Top(w).ref
    BY <1>3 DEF Frames, Pc, PublishPc
  <2>6. g \in Frames /\ g.pc = "release"
    BY <1>3, NewFrames
  <2> HIDE DEF f, g
  <2>7. SameRole(Top(w), f) /\ MayCall(f, g)
    BY <1>3, <1>5, <2>5, <2>6 DEF SameRole, MayCall, PublishPc, ReleasePc
  <2>8. FrameOK(f) /\ FrameOK(g) /\ FitsHead(w, f, d.head) /\ FitsHead(w, g, d.head)
    BY <1>3, <2>5, <2>6 DEF FrameOK, FitsHead, AtHead, RefPc, OtherPc, WaitPc, ShrinkPc, TakenPc,
                            BodyPc
  <2>9. Fits(d, g) /\ Injects(d, f)
    BY <1>4, <2>5, <2>6 DEF Fits, Moving, Asks, Sharing, Injects
  <2>10. UNCHANGED <<deque, slot>>
    BY <2>1 DEF arrays
  <2> QED  BY <1>1, <1>3, <1>5, <2>1, <2>4, <2>5, <2>6, <2>7, <2>8, <2>9, <2>10, QuietCall
           DEF WaitPc, StopPc, ThreadPc, BodyPc
<1>6. CASE pc = "injectNext"
  <2>1. UNCHANGED <<arrays, signals, sleepers, stopped, history>>
    BY <1>2, <1>6 DEF Inject, At
  <2>2. CASE Top(w).t = d.splitCopy - 1
    <3>1. /\ Return(w)
          /\ (IF d.head = d.splitCopy THEN GiveUpShare(w, d) ELSE UNCHANGED <<deque, haveJobs>>)
      BY <1>1, <1>2, <1>6, <2>2 DEF Inject, At
    <3>2. PICK e \in Deque :
            /\ deque' = [deque EXCEPT ![w] = e] /\ haveJobs' \in Int
            /\ e.head = d.head /\ e.tail = d.tail /\ e.split = d.split /\ e.splitCopy = d.splitCopy
      <4>1. CASE GiveUpShare(w, d)
        BY <4>1, GaveUp
      <4>2. CASE UNCHANGED <<deque, haveJobs>>
        BY <1>1, <4>2 DEF SInv, TypeOK
      <4> QED  BY <3>1, <4>1, <4>2
    <3>3. d.split <= d.tail
      BY <1>4, <2>2, DequeTypes
    <3>4. Rested(e) /\ Keeps(d, Top(w), e, Frame("body"))
      BY <1>3, <1>4, <1>6, <3>2, <3>3, DequeTypes DEF Rested, Keeps, TakenSlot, Frame
    <3>5. UNCHANGED slot /\ Rest'
      BY <2>1, <3>2, RestNow DEF Rest, arrays, signals, history, FullRef
    <3>6. HeadMoves(Top(w), d.head, e.head)
      BY <3>2 DEF HeadMoves
    <3> QED  BY <1>1, <1>3, <1>6, <3>1, <3>2, <3>4, <3>5, <3>6, OwnerReturn DEF BodyPc, ReleasePc
  <2>3. CASE Top(w).t # d.splitCopy - 1
    <3> DEFINE f == [Top(w) EXCEPT !.pc = "publishWork"]
    <3>1. Become(w, f) /\ UNCHANGED <<deque, haveJobs>>
      BY <1>1, <1>2, <1>6, <2>3 DEF Inject, At, Jump
    <3>2. /\ f \in Frames /\ f.pc = "publishWork" /\ f.task = Top(w).task /\ f.todo = Top(w).todo
          /\ f.base = Top(w).base /\ f.ref = Top(w).ref
      BY <1>3 DEF Frames, Pc, PublishPc
    <3> HIDE DEF f
    <3>3. SameRole(Top(w), f) /\ Fits(d, f)
      BY <1>3, <1>4, <1>6, <3>2 DEF SameRole, PublishPc, Fits, Moving, Asks, Sharing
    <3>4. UNCHANGED <<deque, slot>> /\ Rest'
      BY <2>1, <3>1, RestNow DEF Rest, arrays, signals, history, FullRef
    <3> QED  BY <1>1, <1>3, <1>6, <3>1, <3>2, <3>3, <3>4, Onward DEF WaitPc, OtherPc
  <2> QED  BY <2>2, <2>3
<1> QED  BY <1>2, <1>5, <1>6

LEMMA SyncedFrame ==
  ASSUME SInv, NEW w \in Worker, Syncs(w)
  PROVE  \E f \in Frames :
           /\ f = Synced(w) /\ f.pc = "body" /\ f.base = Top(w).base /\ f.task = Top(w).task
           /\ Depth(w) > 0 /\ Top(w).pc = "body" /\ Top(w).base \in Nat
           /\ Top(w).base < deque[w].head /\ SameRole(Top(w), f)
           /\ FrameOK(f) /\ \A h \in Nat : Top(w).base <= h => FitsHead(w, f, h)
<1> DEFINE f == Synced(w)
<1>1. /\ Depth(w) > 0 /\ Top(w).pc = "body" /\ Top(w) \in Frames /\ FrameOK(Top(w))
      /\ Top(w).base \in Nat /\ Top(w).base < deque[w].head /\ deque[w].head \in Nat
  BY AtTop, FrameFields DEF Syncs
<1>2. Top(w).task \in Task /\ Top(w).todo \in Todos
  BY <1>1 DEF FrameOK, BodyPc
<1> DEFINE y == IF Top(w).todo = <<>> THEN Top(w).todo ELSE Tail(Top(w).todo)
<1>3. y \in Todos
  BY <1>2, TodoFacts
<1>4. y \in Seq(Task \cup Worker \cup {None})
  BY <1>3, TodoFacts
<1>5. f = [Top(w) EXCEPT !.todo = y]
  BY DEF Synced
<1> HIDE DEF y, f
<1>6. f \in Frames /\ f.pc = "body" /\ f.base = Top(w).base /\ f.task = Top(w).task /\ f.todo = y
  BY <1>1, <1>4, <1>5 DEF Frames
<1>7. SameRole(Top(w), f) /\ FrameOK(f)
  BY <1>1, <1>2, <1>3, <1>6 DEF SameRole, BodyPc, FrameOK, RefPc, OtherPc, WaitPc, ShrinkPc, TakenPc
<1>8. \A h \in Nat : Top(w).base <= h => FitsHead(w, f, h)
  BY <1>6 DEF FitsHead, AtHead, RefPc, WaitPc, ShrinkPc, TakenPc
<1> QED  BY <1>1, <1>6, <1>7, <1>8 DEF f

LEMMA PopOverflownStep ==
  ASSUME SInv, NEW w \in Worker, PopOverflown(w)
  PROVE  Advance
<1>1. PICK d \in Deque : d = deque[w]
  BY GoodParts
<1>2. Syncs(w) /\ d.head > kTaskArraySize /\ Become(w, Synced(w))
      /\ UNCHANGED <<arrays, signals, bunk, stopped, history>>
  BY <1>1 DEF PopOverflown
<1>3. PICK f \in Frames :
        /\ f = Synced(w) /\ f.pc = "body" /\ f.base = Top(w).base /\ f.task = Top(w).task
        /\ Depth(w) > 0 /\ Top(w).pc = "body" /\ Top(w).base \in Nat
        /\ Top(w).base < deque[w].head /\ SameRole(Top(w), f)
        /\ FrameOK(f) /\ \A h \in Nat : Top(w).base <= h => FitsHead(w, f, h)
  BY <1>2, SyncedFrame
<1> DEFINE h == d.head - 1
<1>4. /\ h \in Nat /\ h < d.head /\ Top(w).base <= h /\ d.splitCopy <= h
      /\ d.splitCopy \in Nat /\ d.head \in Nat /\ d.split \in Nat /\ d.tail \in Nat
  BY <1>1, <1>2, <1>3, DequeTypes
<1> HIDE DEF h
<1>5. PICK e \in Deque :
        /\ deque' = [deque EXCEPT ![w] = e] /\ e.head = h /\ e.split = d.split
        /\ e.splitCopy = d.splitCopy /\ e.tail = d.tail /\ e.allStolenCopy = d.allStolenCopy
  <2> DEFINE e == [d EXCEPT !.head = h]
  <2>1. /\ e \in Deque /\ e.head = h /\ e.split = d.split
        /\ e.splitCopy = d.splitCopy /\ e.tail = d.tail /\ e.allStolenCopy = d.allStolenCopy
    BY <1>4 DEF Deque
  <2>2. deque' = [deque EXCEPT ![w].head = @ - 1]
    BY DEF PopOverflown
  <2>3. deque' = [deque EXCEPT ![w] = e]
    BY <1>1, <2>2 DEF SInv, TypeOK, h
  <2> QED  BY <2>1, <2>3
<1>6. UNCHANGED slot /\ Rest' /\ SlotsStay
  BY <1>2, RestStays, RestNow DEF Rest, bunk, SlotsStay
<1>7. deque'[w] = e
  BY <1>5, DequeNow
<1>8. HeadMoves(Top(w), d.head, e.head) /\ FitsHead(w, f, e.head)
  BY <1>3, <1>4, <1>5 DEF HeadMoves, BodyPc
<1>9. FrameOK(f)'
  BY <1>3, <1>6, FramesStay
<1>10. Fits(d, Top(w))
  BY <1>1, <1>3, GoodParts
<1>11. Fits(e, f) /\ Keeps(d, Top(w), e, f)
  BY <1>3, <1>4, <1>5, <1>10 DEF Fits, Rested, Keeps, TakenSlot, Moving, Asks, Sharing
<1>12. /\ stack' \in [Worker -> Seq(Frames)] /\ Moved(w)
       /\ \A v \in Worker \ {w} : stack'[v] = stack[v]
  BY <1>1, <1>2, <1>3, <1>6, <1>7, <1>8, <1>9, <1>11, BecomeKeeps DEF WaitPc, ReleasePc
<1>13. \A i \in Slot : i < e.head \/ i < e.split \/ i < e.splitCopy =>
                           i < deque[w].head \/ i < deque[w].split \/ i < deque[w].splitCopy
  BY <1>1, <1>4, <1>5 DEF Slot
<1> QED  BY <1>5, <1>6, <1>12, <1>13, OwnerStep

LEMMA Half ==
  ASSUME NEW m \in Nat, NEW n \in Nat, m < n
  PROVE  (m + n) \div 2 \in Nat /\ m <= (m + n) \div 2 /\ (m + n) \div 2 < n
OBVIOUS

(* The owner has its task: d is its deque with the head where it was, y    *)
(* its stack below the call of the task.                                   *)
LEMMA TakeOwnStep ==
  ASSUME SInv, NEW w \in Worker, Depth(w) > 0,
         NEW d \in Deque, NEW y \in Seq(Frames), TakeOwn(w, d, y),
         UNCHANGED <<arrays, signals, sleepers, stopped, history>>,
         d.head = deque[w].head, d.head > 0, d.head <= kTaskArraySize,
         d.tail = deque[w].tail, ~deque[w].allStolenCopy,
         ~d.allStolenCopy, d.split = d.splitCopy, d.tail <= d.split, d.splitCopy < d.head,
         Top(w).pc \notin {"pushShare", "correctTail"} \cup ReleasePc,
         Shape(w, y, d.head - 1), Len(y) > 0, y[Len(y)].pc = "body", y[Len(y)].base <= d.head - 1,
         \A l \in 1..Len(y) : /\ FrameOK(y[l])
                              /\ (l < Depth(w) /\ y[l] = stack[w][l]) \/ y[l].pc = "body"
  PROVE  Advance
<1> DEFINE h == d.head - 1
           s == stack[w]
<1>1. /\ h \in Nat /\ h < d.head /\ h < kTaskArraySize /\ h \in Slot /\ d.head \in Nat
      /\ d.split \in Nat /\ d.splitCopy \in Nat /\ d.tail \in Nat /\ d.splitCopy <= h
      /\ kTaskArraySize \in Nat
  BY DequeTypes DEF Slot
<1>2. Shape(w, y, h) /\ y[Len(y)].base <= h
  OBVIOUS
<1>3. /\ s \in Seq(Frames) /\ deque[w] \in Deque /\ Shape(w, s, deque[w].head)
      /\ Owned(deque[w], s) /\ Len(s) > 0 /\ s[Len(s)] = Top(w) /\ Len(s) = Depth(w)
  BY GoodParts DEF Depth, Top
<1> DEFINE run == OnSlot("runOwn", <<w, h>>)
           grow == Frame("growShared")
           popped == [d EXCEPT !.head = h]
           z == IF h # 0 /\ h # d.splitCopy THEN Append(Append(y, run), grow) ELSE Append(y, run)
<1>4. /\ (IF h = 0 THEN GiveUpShare(w, popped)
          ELSE deque' = [deque EXCEPT ![w] = popped] /\ haveJobs' = haveJobs)
      /\ stack' = [stack EXCEPT ![w] = z]
  BY DEF TakeOwn
<1>5. <<w, h>> \in Ref
  BY <1>1 DEF Ref
<1>6. /\ run \in Frames /\ run.pc = "runOwn" /\ run.ref = <<w, h>>
      /\ grow \in Frames /\ grow.pc = "growShared"
  <2>1. "runOwn" \in Pc /\ "growShared" \in Pc
    BY DEF Pc, GrowPc
  <2>2. run \in Frames /\ run.pc = "runOwn" /\ run.ref = <<w, h>>
    BY <1>5, <2>1, NewFrames
  <2> QED  BY <2>1, <2>2, NewFrames
<1>7. /\ popped \in Deque /\ popped.head = h /\ popped.split = d.split /\ popped.tail = d.tail
      /\ popped.splitCopy = d.splitCopy /\ ~popped.allStolenCopy
  BY <1>1 DEF Deque
<1> HIDE DEF h, run, grow, popped
<1>8. PICK e \in Deque :
        /\ deque' = [deque EXCEPT ![w] = e] /\ haveJobs' \in Int
        /\ e.head = h /\ e.split = d.split /\ e.splitCopy = d.splitCopy /\ e.tail = d.tail
        /\ e.allStolenCopy <=> h = 0
  <2>1. CASE h = 0
    BY <1>4, <1>7, <2>1, GaveUp
  <2>2. CASE h # 0
    BY <1>4, <1>7, <2>2 DEF SInv, TypeOK
  <2> QED  BY <2>1, <2>2
<1>9. /\ deque'[w] = e /\ UNCHANGED slot /\ SlotsStay /\ Rest'
  <2>1. deque'[w] = e
    BY <1>8, DequeNow
  <2> QED  BY <1>8, <2>1, RestNow DEF Rest, arrays, signals, history, FullRef, SlotsStay
<1>10. Append(y, run) \in Seq(Frames) /\ Shape(w, Append(y, run), h)
  <2>1. MayCall(y[Len(y)], run)
    BY <1>2, <1>6 DEF MayCall
  <2>2. FitsHead(w, run, h)
    BY <1>5, <1>6 DEF FitsHead, AtHead, WaitPc, ShrinkPc, BodyPc
  <2> QED  BY <1>1, <1>2, <1>6, <2>1, <2>2, PushShape DEF StopPc, ThreadPc, BodyPc
<1>11. z \in Seq(Frames) /\ Shape(w, z, h)
  <2>1. MayCall(run, grow)
    BY <1>6 DEF MayCall, GrowPc
  <2>2. FitsHead(w, grow, h)
    BY <1>6 DEF FitsHead, AtHead, RefPc, WaitPc, ShrinkPc, TakenPc, BodyPc
  <2> DEFINE x == Append(y, run)
  <2>3. /\ x \in Seq(Frames) /\ Len(x) > 0 /\ x[Len(x)] = run /\ Shape(w, x, h)
    BY <1>6, <1>10
  <2> HIDE DEF x
  <2>4. Append(x, grow) \in Seq(Frames) /\ Shape(w, Append(x, grow), h)
    BY <1>1, <1>6, <2>1, <2>2, <2>3, PushShape DEF StopPc, ThreadPc, BodyPc
  <2> QED  BY <1>10, <2>4 DEF x
<1>12. /\ Len(z) > 0 /\ (z[Len(z)] = run \/ (h # 0 /\ h # d.splitCopy /\ z[Len(z)] = grow))
       /\ \A l \in 1..Len(z) : (l \in 1..Len(y) /\ z[l] = y[l]) \/ z[l] \in {run, grow}
  <2> DEFINE x == Append(y, run)
  <2>1. /\ x \in Seq(Frames) /\ Len(x) = Len(y) + 1 /\ x[Len(x)] = run
        /\ \A l \in 1..Len(x) : (l \in 1..Len(y) /\ x[l] = y[l]) \/ x[l] = run
    BY <1>6
  <2> DEFINE xx == Append(x, grow)
  <2> HIDE DEF x
  <2>2. /\ xx \in Seq(Frames) /\ Len(xx) = Len(x) + 1 /\ xx[Len(xx)] = grow
        /\ \A l \in 1..Len(xx) : (l \in 1..Len(x) /\ xx[l] = x[l]) \/ xx[l] = grow
    BY <1>6, <2>1
  <2> HIDE DEF xx
  <2>3. CASE h # 0 /\ h # d.splitCopy
    <3>1. z = xx
      BY <2>3 DEF x, xx
    <3> QED  BY <2>1, <2>2, <2>3, <3>1
  <2>4. CASE ~(h # 0 /\ h # d.splitCopy)
    <3>1. z = x
      BY <2>4 DEF x
    <3> QED  BY <2>1, <3>1
  <2> QED  BY <2>3, <2>4
<1> HIDE DEF z
<1>13. Rested(e)
  BY <1>1, <1>8 DEF Rested
<1>14. Fits(e, z[Len(z)])
  BY <1>1, <1>6, <1>8, <1>12, <1>13 DEF Fits, Moving, Asks, Sharing, Smaller
<1>15. Keeps(deque[w], s[Len(s)], e, z[Len(z)])
  BY <1>1, <1>3, <1>6, <1>8, <1>12 DEF Keeps, TakenSlot
<1>16. \A l \in 1..Len(z) :
         \/ l < Len(s) /\ z[l] = s[l]
         \/ z[l].pc \notin WaitPc /\ z[l].pc # "injectNext"
  BY <1>3, <1>6, <1>12 DEF WaitPc
<1>17. Owned(e, z)
  BY <1>3, <1>11, <1>12, <1>14, <1>15, <1>16, OwnedStep
<1>18. FrameOK(run) /\ FrameOK(grow)
  <2>1. slot[w][h] \in Task
    BY <1>1 DEF SInv, Filled
  <2>2. FullRef(<<w, h>>)
    BY <1>5, <2>1 DEF FullRef
  <2> QED  BY <1>6, <2>2 DEF FrameOK, RefPc, OtherPc, WaitPc, ShrinkPc, TakenPc, BodyPc
<1>19. \A l \in 1..Len(z) : FrameOK(z[l])
  BY <1>12, <1>18
<1>20. \A l \in 1..Len(z) : \A g : g = z[l] => FrameOK(g)'
  BY <1>9, <1>19, FramesStay
<1>21. /\ stack' \in [Worker -> Seq(Frames)] /\ Moved(w)
       /\ \A v \in Worker \ {w} : stack'[v] = stack[v]
  <2>1. Shape(w, z, e.head)
    BY <1>8, <1>11
  <2>2. /\ stack' \in [Worker -> Seq(Frames)] /\ Good(w)'
        /\ \A v \in Worker \ {w} : stack'[v] = stack[v]
    BY <1>4, <1>9, <1>11, <1>17, <1>20, <2>1, NewStack
  <2>3. stack'[w] = z
    BY <1>4 DEF SInv, TypeOK
  <2>4. Now(w) = s[Len(s)] /\ Now(w)' = z[Len(z)]
    BY <1>3, <1>12, <2>3 DEF Now, Top, Depth
  <2>5. Kept(w)
    BY <1>9, <1>15, <2>4 DEF Kept
  <2> QED  BY <2>2, <2>5 DEF Moved
<1>22. \A i \in Slot : i < e.head \/ i < e.split \/ i < e.splitCopy => i < deque[w].head
  BY <1>1, <1>8 DEF Slot
<1> QED  BY <1>8, <1>9, <1>21, <1>22, OwnerStep

(* The owner goes to wait for its newest task, or to take it back.         *)
LEMMA PopCall ==
  ASSUME SInv, NEW w \in Worker, Syncs(w), deque[w].head <= kTaskArraySize,
         NEW e \in Deque, deque' = [deque EXCEPT ![w] = e], e.head = deque[w].head,
         e.tail = deque[w].tail, e.split = deque[w].split,
         e.splitCopy = deque[w].splitCopy \/ e.splitCopy < e.head,
         UNCHANGED <<arrays, signals, sleepers, stopped, history>>, haveJobs' \in Int,
         NEW pc \in {"stolen", "shrinkShared"},
         Call(w, OnSlot(pc, <<w, deque[w].head - 1>>), Synced(w)),
         pc = "stolen" => e.allStolenCopy /\ e.split <= e.tail,
         pc = "shrinkShared" =>
           ~e.allStolenCopy /\ e.split = e.head /\ e.splitCopy < e.head /\ e.tail <= e.split
             /\ ~deque[w].allStolenCopy
  PROVE  Advance
<1>1. PICK d \in Deque : d = deque[w]
  BY GoodParts
<1>2. PICK b \in Frames :
        /\ b = Synced(w) /\ b.pc = "body" /\ b.base = Top(w).base /\ b.task = Top(w).task
        /\ Depth(w) > 0 /\ Top(w).pc = "body" /\ Top(w).base \in Nat
        /\ Top(w).base < deque[w].head /\ SameRole(Top(w), b)
        /\ FrameOK(b) /\ \A h \in Nat : Top(w).base <= h => FitsHead(w, b, h)
  BY SyncedFrame
<1> DEFINE h == d.head - 1
           r == <<w, h>>
           f == OnSlot(pc, r)
<1>3. /\ h \in Nat /\ h + 1 = d.head /\ d.head \in Nat /\ h \in Slot /\ Top(w).base <= h
      /\ e.splitCopy \in Nat /\ h < d.head /\ Top(w).base <= d.head
  BY <1>1, <1>2, DequeTypes DEF Slot
<1>4. r \in Ref /\ r[1] = w /\ r[2] = h
  BY <1>3 DEF Ref
<1>5. FullRef(r)
  BY <1>1, <1>3, <1>4 DEF FullRef, SInv, Filled
<1>6. f \in Frames /\ f.pc = pc /\ f.ref = r
  <2>1. pc \in Pc
    BY DEF Pc, WaitPc, ShrinkPc
  <2> QED  BY <1>4, <2>1, NewFrames
<1>7. Call(w, f, b)
  BY <1>1, <1>2
<1> HIDE DEF h, r, f
<1>8. UNCHANGED slot /\ Rest' /\ SlotsStay /\ deque'[w] = e
  BY RestNow, DequeNow DEF Rest, arrays, signals, history, FullRef, SlotsStay
<1>9. HeadMoves(Top(w), deque[w].head, e.head) /\ FitsHead(w, b, e.head)
  BY <1>1, <1>2, <1>3 DEF HeadMoves
<1>10. MayCall(b, f) /\ FitsHead(w, f, e.head)
  BY <1>1, <1>2, <1>3, <1>4, <1>6 DEF MayCall, FitsHead, AtHead, WaitPc, ShrinkPc, BodyPc
<1>11. FrameOK(f)' /\ FrameOK(b)'
  <2>1. FrameOK(f)
    BY <1>5, <1>6 DEF FrameOK, RefPc, OtherPc, BodyPc
  <2> QED  BY <1>2, <1>8, <2>1, FramesStay
<1>12. Fits(e, f)
  BY <1>6 DEF Fits, Rested, Moving, Asks, Sharing
<1>13. Keeps(deque[w], Top(w), e, f)
  BY <1>2, <1>6 DEF Keeps, TakenSlot
<1>14. f.pc \in WaitPc => TakenSlot(e, f, f.ref[2])
  BY <1>6 DEF TakenSlot, WaitPc
<1>15. /\ stack' \in [Worker -> Seq(Frames)] /\ Moved(w)
       /\ \A v \in Worker \ {w} : stack'[v] = stack[v]
  BY <1>2, <1>6, <1>7, <1>8, <1>9, <1>10, <1>11, <1>12, <1>13, <1>14, CallKeeps
     DEF WaitPc, StopPc, ThreadPc, BodyPc, ReleasePc
<1>16. \A i \in Slot : i < e.head \/ i < e.split \/ i < e.splitCopy =>
                           i < deque[w].head \/ i < deque[w].split \/ i < deque[w].splitCopy
  BY <1>1, <1>3 DEF Slot
<1> QED  BY <1>8, <1>15, <1>16, OwnerStep

LEMMA PopStep ==
  ASSUME SInv, NEW w \in Worker, Pop(w)
  PROVE  Advance
<1>1. PICK d \in Deque : d = deque[w]
  BY GoodParts
<1> DEFINE ref == <<w, d.head - 1>>
<1>2. /\ Syncs(w) /\ d.head <= kTaskArraySize
      /\ UNCHANGED <<arrays, signals, sleepers, stopped, history>>
  BY <1>1 DEF Pop
<1>3. PICK f \in Frames :
        /\ f = Synced(w) /\ f.pc = "body" /\ f.base = Top(w).base /\ f.task = Top(w).task
        /\ Depth(w) > 0 /\ Top(w).pc = "body" /\ Top(w).base \in Nat
        /\ Top(w).base < deque[w].head /\ SameRole(Top(w), f)
        /\ FrameOK(f) /\ \A h \in Nat : Top(w).base <= h => FitsHead(w, f, h)
  BY <1>2, SyncedFrame
<1>4. Rested(d)
  BY <1>1, <1>3, GoodParts DEF Fits, Moving
<1>5. haveJobs \in Int /\ d.head \in Nat /\ d.head > 0 /\ d.head - 1 \in Nat /\ d.splitCopy \in Nat
      /\ d.tail \in Nat /\ d.split \in Nat /\ Top(w).base <= d.head - 1 /\ kTaskArraySize \in Nat
      /\ d.splitCopy <= kTaskArraySize
  BY <1>1, <1>3, DequeTypes DEF SInv, TypeOK
<1>6. CASE /\ d.allStolenCopy /\ Call(w, OnSlot("stolen", ref), Synced(w))
           /\ UNCHANGED <<deque, haveJobs>>
  <2>1. deque' = [deque EXCEPT ![w] = d]
    BY <1>1, <1>6 DEF SInv, TypeOK
  <2> QED  BY <1>1, <1>2, <1>4, <1>5, <1>6, <2>1, PopCall DEF Rested
<1>7. CASE ~d.allStolenCopy /\ d.splitCopy # d.head /\ TakeOwn(w, d, With(w, Synced(w)))
  <2> DEFINE y == With(w, Synced(w))
             s == stack[w]
  <2>1. /\ s \in Seq(Frames) /\ Shape(w, s, d.head) /\ Len(s) > 0 /\ s[Len(s)] = Top(w)
        /\ Len(s) = Depth(w) /\ \A l \in 1..Len(s) : FrameOK(s[l])
    BY <1>1, <1>3, GoodParts DEF Depth, Top, Levels
  <2>2. y = [s EXCEPT ![Len(s)] = f]
    BY <1>3 DEF With, Depth
  <2>3. /\ y \in Seq(Frames) /\ Len(y) = Len(s) /\ y[Len(y)] = f
        /\ \A l \in 1..Len(y) : (l < Len(s) /\ y[l] = s[l]) \/ y[l] = f
    BY <2>1, <2>2
  <2>4. Shape(w, y, d.head - 1)
    <3>1. HeadMoves(s[Len(s)], d.head, d.head - 1)
      BY <1>3, <1>5, <2>1 DEF HeadMoves, BodyPc
    <3>2. PICK g \in Nat : g = d.head - 1
      BY <1>5
    <3>3. SameRole(s[Len(s)], f) /\ FitsHead(w, f, g)
      BY <1>3, <1>5, <2>1, <3>2
    <3> HIDE DEF s, y
    <3>4. Shape(w, [s EXCEPT ![Len(s)] = f], g)
      BY <1>5, <2>1, <3>1, <3>2, <3>3, ReplaceShape
    <3> QED  BY <2>2, <3>2, <3>4
  <2>5. d.split = d.splitCopy /\ d.tail <= d.split /\ d.splitCopy < d.head
    BY <1>4, <1>5, <1>7 DEF Rested
  <2>6. \A l \in 1..Len(y) : /\ FrameOK(y[l])
                             /\ (l < Depth(w) /\ y[l] = stack[w][l]) \/ y[l].pc = "body"
    BY <1>3, <2>1, <2>3
  <2>7. Top(w).pc \notin {"pushShare", "correctTail"} \cup ReleasePc
    BY <1>3 DEF ReleasePc
  <2> HIDE DEF y
  <2> QED  BY <1>1, <1>2, <1>3, <1>5, <1>7, <2>1, <2>3, <2>4, <2>5, <2>6, <2>7, TakeOwnStep DEF y
<1>8. CASE /\ ~d.allStolenCopy /\ d.splitCopy = d.head /\ d.tail = d.splitCopy
           /\ GiveUpShare(w, d) /\ Call(w, OnSlot("stolen", ref), Synced(w))
  <2>1. PICK e \in Deque :
          /\ deque' = [deque EXCEPT ![w] = e] /\ haveJobs' \in Int /\ e.allStolenCopy
          /\ e.head = d.head /\ e.tail = d.tail /\ e.split = d.split /\ e.splitCopy = d.splitCopy
    BY <1>8, GaveUp
  <2> QED  BY <1>1, <1>2, <1>4, <1>5, <1>8, <2>1, PopCall DEF Rested
<1>9. CASE /\ ~d.allStolenCopy /\ d.splitCopy = d.head /\ d.tail # d.splitCopy
           /\ deque' = [deque EXCEPT ![w].splitCopy = (d.tail + @) \div 2]
           /\ Call(w, OnSlot("shrinkShared", ref), Synced(w)) /\ haveJobs' = haveJobs
  <2> DEFINE n == (d.tail + d.splitCopy) \div 2
             e == [d EXCEPT !.splitCopy = n]
  <2>1. d.split = d.splitCopy /\ d.tail < d.splitCopy
    BY <1>4, <1>5, <1>9 DEF Rested
  <2>2. n \in Nat /\ n < d.splitCopy
    BY <1>5, <2>1, Half
  <2>3. deque' = [deque EXCEPT ![w] = e]
    BY <1>1, <1>9 DEF SInv, TypeOK
  <2> HIDE DEF n
  <2>4. n \in 0..kTaskArraySize
    BY <1>5, <2>2
  <2>5. /\ e \in Deque /\ e.head = d.head /\ e.tail = d.tail /\ e.split = d.split
        /\ e.splitCopy = n /\ ~e.allStolenCopy
    BY <1>9, <2>4 DEF Deque
  <2> HIDE DEF e
  <2>6. /\ e.split = e.head /\ e.splitCopy < e.head /\ e.tail <= e.split
        /\ e.head = deque[w].head /\ e.tail = deque[w].tail /\ e.split = deque[w].split
        /\ ~e.allStolenCopy /\ ~deque[w].allStolenCopy
    BY <1>1, <1>5, <1>9, <2>1, <2>2, <2>5
  <2>7. Call(w, OnSlot("shrinkShared", <<w, deque[w].head - 1>>), Synced(w)) /\ haveJobs' \in Int
    BY <1>1, <1>5, <1>9
  <2>8. deque[w].head <= kTaskArraySize
    BY <1>1, <1>2
  <2> QED  BY <1>2, <2>3, <2>5, <2>6, <2>7, <2>8, PopCall
<1> QED  BY <1>1, <1>6, <1>7, <1>8, <1>9 DEF Pop

(* What is below shrinkShared is the body that syncs.                      *)
LEMMA BelowShrink ==
  ASSUME SInv, NEW w \in Worker, Depth(w) > 0, Top(w).pc \in ShrinkPc
  PROVE  /\ Below(w) \in Seq(Frames) /\ Len(Below(w)) > 0
         /\ Shape(w, Below(w), deque[w].head - 1)
         /\ Below(w)[Len(Below(w))].pc = "body"
         /\ Below(w)[Len(Below(w))].base <= deque[w].head - 1
         /\ \A l \in 1..Len(Below(w)) :
              FrameOK(Below(w)[l]) /\ l < Depth(w) /\ Below(w)[l] = stack[w][l]
         /\ deque[w].head > 0
<1> DEFINE s == stack[w]
           n == Len(s)
           h == deque[w].head
<1>1. /\ s \in Seq(Frames) /\ Shape(w, s, h) /\ n \in Nat /\ n > 0 /\ s[n] = Top(w)
      /\ n = Depth(w) /\ h \in Nat /\ Top(w).ref \in Ref
      /\ \A l \in 1..n : FrameOK(s[l]) /\ s[l] \in Frames
  BY GoodParts DEF Depth, Top, Levels, RefPc
<1>2. FitsHead(w, Top(w), h)
  BY TopFits
<1>3. Top(w).ref[2] + 1 = h /\ Top(w).ref[2] \in Nat
  BY <1>1, <1>2, RefTypes DEF FitsHead
<1> HIDE DEF h
<1>4. h > 0 /\ h - 1 \in Nat /\ Top(w).ref[2] = h - 1
  BY <1>1, <1>3
<1>5. n # 1
  <2>1. SUFFICES ASSUME n = 1  PROVE FALSE
    OBVIOUS
  <2>2. AtBottom(w, s[1])
    BY <1>1, <2>1 DEF Shape, Chain
  <2> QED  BY <1>1, <2>1, <2>2 DEF AtBottom, ShrinkPc, StopPc, ThreadPc
<1>6. n - 1 \in 1..(n - 1) /\ n - 1 \in 1..n
  BY <1>1, <1>5
<1>7. MayCall(s[n - 1], s[n])
  <2>1. MayCall(s[n - 1], s[(n - 1) + 1])
    BY <1>1, <1>6 DEF Shape, Chain
  <2>2. (n - 1) + 1 = n
    BY <1>1
  <2> QED  BY <2>1, <2>2
<1>8. s[n - 1].pc = "body" /\ s[n - 1].base <= h - 1
  BY <1>1, <1>4, <1>7 DEF MayCall, ShrinkPc, BodyPc, PushPc, GrowPc, PublishPc, ReleasePc, TakenPc,
                          SleepPc, WaitPc
<1>9. /\ SubSeq(s, 1, n - 1) \in Seq(Frames) /\ Len(SubSeq(s, 1, n - 1)) = n - 1
      /\ \A l \in 1..(n - 1) : SubSeq(s, 1, n - 1)[l] = s[l]
  BY <1>1, FrontSeq
<1>10. Shape(w, SubSeq(s, 1, n - 1), h - 1)
  <2>1. HeadMoves(s[n], h, h - 1)
    BY <1>1, <1>4 DEF HeadMoves
  <2>2. s[n].pc \notin BodyPc
    BY <1>1 DEF ShrinkPc, BodyPc
  <2> QED  BY <1>1, <1>4, <2>1, <2>2, PopShape
<1>11. Below(w) = SubSeq(s, 1, n - 1)
  BY <1>1 DEF Below
<1>12. \A l \in 1..(n - 1) : l \in 1..n /\ l < n
  BY <1>1
<1> HIDE DEF n, s
<1> QED  BY <1>1, <1>4, <1>6, <1>8, <1>9, <1>10, <1>11, <1>12 DEF h, s

LEMMA ShrinkSharedStep ==
  ASSUME SInv, NEW w \in Worker, ShrinkShared(w)
  PROVE  Advance
<1>1. PICK d \in Deque : d = deque[w]
  BY GoodParts
<1> DEFINE moved == [d EXCEPT !.split = d.splitCopy]
<1>2. PICK pc \in ShrinkPc : At(w, pc)
  BY DEF ShrinkShared, ShrinkPc
<1>3. /\ Depth(w) > 0 /\ Top(w).pc = pc /\ Top(w) \in Frames /\ Fits(d, Top(w))
      /\ Top(w).pc \in ShrinkPc /\ Top(w).pc \notin BodyPc \cup ReleasePc
      /\ Top(w).pc \notin {"pushShare", "correctTail"} \cup ReleasePc
  BY <1>1, <1>2, AtTop DEF ShrinkPc, BodyPc, ReleasePc
<1>4. UNCHANGED <<arrays, signals, sleepers, stopped, history>>
  BY DEF ShrinkShared
<1>5. /\ d.head \in Nat /\ d.head > 0 /\ d.splitCopy \in Nat /\ d.tail \in Nat /\ d.split \in Nat
      /\ haveJobs \in Int /\ d.split <= kTaskArraySize /\ d.splitCopy <= kTaskArraySize
      /\ kTaskArraySize \in Nat
  BY <1>1, <1>3, BelowShrink, DequeTypes DEF SInv, TypeOK
<1>6. ~d.allStolenCopy /\ d.splitCopy < d.head /\ d.head <= kTaskArraySize
  BY <1>3, <1>5 DEF Fits, ShrinkPc
<1>7. /\ moved \in Deque /\ moved.head = d.head /\ moved.split = d.splitCopy
      /\ moved.splitCopy = d.splitCopy /\ moved.tail = d.tail /\ ~moved.allStolenCopy
  BY <1>6 DEF Deque
<1>8. CASE d.tail <= d.splitCopy /\ TakeOwn(w, moved, Below(w))
  <2> HIDE DEF moved
  <2>1. \A l \in 1..Len(Below(w)) :
          /\ FrameOK(Below(w)[l])
          /\ (l < Depth(w) /\ Below(w)[l] = stack[w][l]) \/ Below(w)[l].pc = "body"
    BY <1>3, BelowShrink
  <2>2. /\ Below(w) \in Seq(Frames) /\ Len(Below(w)) > 0
        /\ Shape(w, Below(w), moved.head - 1)
        /\ Below(w)[Len(Below(w))].pc = "body"
        /\ Below(w)[Len(Below(w))].base <= moved.head - 1
    BY <1>1, <1>3, <1>7, BelowShrink
  <2>3. /\ moved.head = deque[w].head /\ moved.head > 0 /\ moved.head <= kTaskArraySize
        /\ moved.tail = deque[w].tail /\ ~deque[w].allStolenCopy
        /\ moved.split = moved.splitCopy /\ moved.tail <= moved.split
        /\ moved.splitCopy < moved.head
    BY <1>1, <1>5, <1>6, <1>7, <1>8
  <2> QED  BY <1>3, <1>4, <1>7, <1>8, <2>1, <2>2, <2>3, TakeOwnStep
<1>9. ASSUME NEW e \in Deque, deque' = [deque EXCEPT ![w] = e], haveJobs' \in Int,
             e.head = d.head, e.tail = d.tail, e.split = d.splitCopy, e.splitCopy < d.head,
             NEW p \in {"stolen", "shrinkStore"}, Jump(w, p),
             p = "stolen" => e.allStolenCopy /\ e.split <= e.tail,
             p = "shrinkStore" => ~e.allStolenCopy /\ e.split < e.tail /\ e.tail <= e.splitCopy
      PROVE  Advance
  <2> DEFINE f == [Top(w) EXCEPT !.pc = p]
  <2>1. /\ f \in Frames /\ f.pc = p /\ f.task = Top(w).task /\ f.todo = Top(w).todo
        /\ f.base = Top(w).base /\ f.ref = Top(w).ref
    BY <1>3, <1>9 DEF Frames, Pc, WaitPc, ShrinkPc
  <2>2. Become(w, f)
    BY <1>9 DEF Jump
  <2> HIDE DEF f
  <2>3. SameRole(Top(w), f)
    BY <1>3, <2>1 DEF SameRole, WaitPc, ShrinkPc
  <2>4. Fits(e, f)
    BY <1>6, <1>9, <2>1 DEF Fits, Rested, Moving, Asks, Sharing
  <2>5. Keeps(d, Top(w), e, f)
    BY <1>3, <1>6, <1>9, <2>1 DEF Keeps, TakenSlot
  <2>6. f.pc \in WaitPc => TakenSlot(e, f, f.ref[2])
    BY <1>9, <2>1 DEF TakenSlot, WaitPc
  <2>7. UNCHANGED slot /\ Rest'
    BY <1>4, <1>9, RestNow DEF Rest, arrays, signals, history, FullRef
  <2>8. \A i \in Slot : i < e.head \/ i < e.split \/ i < e.splitCopy =>
                          i < d.head \/ i < d.split \/ i < d.splitCopy
    BY <1>5, <1>9, DequeTypes DEF Slot
  <2>9. Top(w).pc \notin ReleasePc \cup {"runOwn"} /\ f.pc \notin OtherPc
        /\ f.pc \notin {"runOwn", "overflow", "stopping"}
    BY <1>3, <2>1 DEF ShrinkPc, ReleasePc, OtherPc
  <2> QED  BY <1>1, <1>3, <1>9, <2>1, <2>2, <2>3, <2>4, <2>5, <2>6, <2>7, <2>8, <2>9, OwnerOnward
<1>10. CASE At(w, "shrinkShared") /\ d.tail = d.head /\ GiveUpShare(w, moved) /\ Jump(w, "stolen")
  <2> HIDE DEF moved
  <2>1. PICK e \in Deque :
          /\ deque' = [deque EXCEPT ![w] = e] /\ haveJobs' \in Int /\ e.allStolenCopy
          /\ e.head = moved.head /\ e.tail = moved.tail /\ e.split = moved.split
          /\ e.splitCopy = moved.splitCopy
    BY <1>7, <1>10, GaveUp
  <2>2. e.split <= e.tail /\ e.splitCopy < d.head /\ e.head = d.head /\ e.tail = d.tail
        /\ e.split = d.splitCopy
    BY <1>5, <1>6, <1>7, <1>10, <2>1
  <2> QED  BY <1>9, <1>10, <2>1, <2>2
<1>11. CASE /\ At(w, "shrinkShared") /\ d.tail # d.head /\ d.tail > d.splitCopy
            /\ deque' = [deque EXCEPT ![w] = [moved EXCEPT !.splitCopy = (d.tail + d.head) \div 2]]
            /\ Jump(w, "shrinkStore") /\ haveJobs' = haveJobs
  <2> DEFINE n == (d.tail + d.head) \div 2
             e == [moved EXCEPT !.splitCopy = n]
  <2>1. d.tail < d.head
    BY <1>3, <1>5, <1>11 DEF Fits, At
  <2>2. n \in Nat /\ d.tail <= n /\ n < d.head
    BY <1>5, <2>1, Half
  <2>3. deque' = [deque EXCEPT ![w] = e]
    BY <1>11
  <2> HIDE DEF n
  <2>4. n \in 0..kTaskArraySize
    BY <1>5, <1>6, <2>2
  <2>5. /\ e \in Deque /\ e.head = d.head /\ e.tail = d.tail /\ e.split = d.splitCopy
        /\ e.splitCopy = n /\ ~e.allStolenCopy
    BY <1>7, <2>4 DEF Deque
  <2> HIDE DEF e, moved
  <2>6. haveJobs' \in Int /\ e.splitCopy < d.head /\ e.split < e.tail /\ e.tail <= e.splitCopy
    BY <1>5, <1>11, <2>2, <2>5
  <2> QED  BY <1>9, <1>11, <2>3, <2>5, <2>6
<1>12. CASE At(w, "shrinkStore") /\ TakeOwn(w, moved, Below(w))
  <2>1. d.tail <= d.splitCopy
    BY <1>3, <1>12 DEF Fits, At
  <2> QED  BY <1>8, <1>12, <2>1
<1> QED  BY <1>1, <1>8, <1>10, <1>11, <1>12 DEF ShrinkShared

LEMMA PopStolenStep ==
  ASSUME SInv, NEW w \in Worker, PopStolen(w)
  PROVE  Advance
<1>1. PICK d \in Deque : d = deque[w]
  BY GoodParts
<1> DEFINE h == d.head - 1
           popped == [d EXCEPT !.head = h]
<1>2. /\ At(w, "popStolen") /\ Return(w) /\ GiveUpShare(w, popped)
      /\ UNCHANGED <<arrays, signals, sleepers, stopped, history>>
  BY <1>1 DEF PopStolen
<1>3. /\ Depth(w) > 0 /\ Top(w).pc = "popStolen" /\ Top(w) \in Frames /\ Fits(d, Top(w))
      /\ FitsHead(w, Top(w), d.head) /\ Top(w).ref \in Ref
  BY <1>1, <1>2, AtTop DEF RefPc, WaitPc
<1>4. /\ Top(w).ref[2] + 1 = d.head /\ Top(w).ref[2] \in Nat /\ d.head \in Nat
      /\ d.tail \in Nat /\ d.split \in Nat /\ d.splitCopy \in Nat
  BY <1>3, RefTypes, DequeTypes DEF FitsHead, WaitPc
<1>5. h \in Nat /\ Top(w).ref[2] = h /\ h < d.head
  BY <1>4
<1>6. /\ popped \in Deque /\ popped.head = h /\ popped.tail = d.tail /\ popped.split = d.split
      /\ popped.splitCopy = d.splitCopy
  BY <1>5 DEF Deque
<1> HIDE DEF popped
<1>7. PICK e \in Deque :
        /\ deque' = [deque EXCEPT ![w] = e] /\ haveJobs' \in Int /\ e.allStolenCopy
        /\ e.head = h /\ e.tail = d.tail /\ e.split = d.split /\ e.splitCopy = d.splitCopy
  BY <1>2, <1>6, GaveUp
<1>8. TakenSlot(d, Top(w), h)
  BY <1>1, <1>3, <1>5, TopTaken DEF WaitPc
<1>9. Rested(d)
  BY <1>3 DEF Fits, Moving
<1>10. Rested(e)
  BY <1>3, <1>4, <1>5, <1>7, <1>8, <1>9 DEF Rested, TakenSlot
<1>11. Keeps(d, Top(w), e, Frame("body")) /\ HeadMoves(Top(w), d.head, e.head)
  BY <1>3, <1>5, <1>7 DEF Keeps, TakenSlot, Frame, HeadMoves, WaitPc
<1>12. UNCHANGED slot /\ Rest'
  BY <1>2, <1>7, RestNow DEF Rest, arrays, signals, history, FullRef
<1>13. \A i \in Slot : i < e.head \/ i < e.split \/ i < e.splitCopy =>
                         i < d.head \/ i < d.split \/ i < d.splitCopy
  BY <1>4, <1>5, <1>7 DEF Slot
<1> QED  BY <1>1, <1>2, <1>3, <1>7, <1>10, <1>11, <1>12, <1>13, OwnerReturn DEF BodyPc, ReleasePc

LEMMA StutterStep ==
  ASSUME SInv, UNCHANGED vars
  PROVE  Advance
<1>1. SInv'
  BY DEF vars, arrays, signals, bunk, history, SInv, TypeOK, Good, Structure, Framed, Levels,
         Depth, FrameOK, FullRef, Filled
<1>2. \A w \in Worker : Kept(w)
  BY DEF vars, Kept, Keeps, Now, Depth, Top
<1> QED  BY <1>1, <1>2 DEF Advance

-----------------------------------------------------------------------------
(* THE INVARIANT HOLDS                                                     *)

LEMMA SInvInit ==
  ASSUME Init
  PROVE  SInv
<1> USE StealingAssumption
<1> DEFINE first(w) == IF w = Main THEN <<Frame("stopWorkerThreads"), Body(Root, 0)>>
                                   ELSE <<Frame("run_worker")>>
<1>1. /\ EmptyDeque \in Deque /\ EmptyDeque.head = 0 /\ EmptyDeque.split = 0
      /\ EmptyDeque.splitCopy = 0 /\ EmptyDeque.tail = 0 /\ EmptyDeque.allStolenCopy
  BY DEF EmptyDeque, Deque
<1>2. PICK f \in Frames : f = Frame("stopWorkerThreads") /\ f.pc = "stopWorkerThreads"
  BY NewFrames DEF Pc, StopPc
<1>3. PICK g \in Frames : /\ g = Body(Root, 0) /\ g.pc = "body" /\ g.base = 0 /\ g.task = Root
                          /\ g.todo \in Todos
  BY NewFrames
<1>4. PICK r \in Frames : r = Frame("run_worker") /\ r.pc = "run_worker"
  BY NewFrames DEF Pc, ThreadPc
<1>5. \A w \in Worker : /\ stack[w] \in Seq(Frames)
                        /\ w = Main => stack[w] = <<f, g>>
                        /\ w # Main => stack[w] = <<r>>
  BY <1>2, <1>3, <1>4 DEF Init
<1>6. \A w \in Worker : deque[w] = EmptyDeque /\ injected[w] = None
  BY DEF Init
<1>7. TypeOK
  <2>1. deque \in [Worker -> Deque]
    BY <1>1 DEF Init
  <2>2. stack \in [Worker -> Seq(Frames)]
    <3>1. stack = [w \in Worker |-> stack[w]]
      BY DEF Init
    <3> QED  BY <1>5, <3>1
  <2>3. begun \in [Task -> Nat]
    BY DEF Init
  <2>4. /\ slot \in [Worker -> [Slot -> Task \cup {None}]]
        /\ stealer \in [Worker -> [Slot -> Worker \cup {"unset", "finished"}]]
        /\ injected \in [Worker -> Ref \cup {None}]
    BY DEF Init
  <2>5. /\ semaphore \in [Worker -> {-1, 0, 1}] /\ notified \in [Worker -> BOOLEAN]
    BY DEF Init
  <2>6. /\ sleepers \in Seq(Worker) /\ haveJobs \in Int /\ stopped \in BOOLEAN
        /\ done \subseteq Task
    <3>1. sleepers \in Seq(Worker) /\ haveJobs \in Int
      BY DEF Init
    <3>2. stopped \in BOOLEAN /\ done \subseteq Task
      BY Zenon DEF Init
    <3> QED  BY <3>1, <3>2
  <2> QED  BY <2>1, <2>2, <2>3, <2>4, <2>5, <2>6 DEF TypeOK
<1>8. \A w \in Worker : Filled(w)
  BY <1>1, <1>6 DEF Filled, Slot
<1>9. ASSUME NEW w \in Worker
      PROVE  Good(w)
  <2> DEFINE s == stack[w]
  <2>1. CASE w = Main
    <3>1. s = <<f, g>>
      BY <1>5, <2>1
    <3> HIDE DEF s
    <3>9. Len(s) = 2 /\ s[1] = f /\ s[2] = g /\ s \in Seq(Frames)
      BY <3>1
    <3>2. FrameOK(f) /\ FrameOK(g)
      BY <1>2, <1>3 DEF FrameOK, RefPc, OtherPc, WaitPc, ShrinkPc, TakenPc, BodyPc
    <3>3. Framed(w)
      BY <3>2, <3>9 DEF Framed, Levels, Depth, s
    <3>4. MayCall(f, g) /\ AtBottom(w, f)
      BY <1>2, <1>3, <2>1 DEF MayCall, AtBottom, StopPc, BodyPc
    <3>5. Chain(w, s)
      BY <1>2, <1>3, <3>9, <3>4 DEF Chain, StopPc, ThreadPc, RefPc, WaitPc, ShrinkPc, TakenPc
    <3>6. Heights(w, s, 0)
      BY <1>2, <1>3, <3>9 DEF Heights, AtHead, WaitPc, ShrinkPc
    <3>7. Based(s, 0)
      BY <1>2, <1>3, <3>9 DEF Based, BodyPc
    <3>8. Owned(EmptyDeque, s)
      BY <1>1, <1>2, <1>3, <3>9 DEF Owned, Fits, Rested, Moving, Asks, Sharing, WaitPc
    <3> QED  BY <1>1, <1>6, <3>3, <3>5, <3>6, <3>7, <3>8 DEF Good, Structure, Shape, s
  <2>2. CASE w # Main
    <3>1. s = <<r>>
      BY <1>5, <2>2
    <3> HIDE DEF s
    <3>9. Len(s) = 1 /\ s[1] = r /\ s \in Seq(Frames)
      BY <3>1
    <3>2. FrameOK(r)
      BY <1>4 DEF FrameOK, RefPc, OtherPc, WaitPc, ShrinkPc, TakenPc, BodyPc
    <3>3. Framed(w)
      BY <3>2, <3>9 DEF Framed, Levels, Depth, s
    <3>4. AtBottom(w, r)
      BY <1>4, <2>2 DEF AtBottom, ThreadPc
    <3>5. Chain(w, s)
      BY <1>4, <3>9, <3>4 DEF Chain, StopPc, ThreadPc, RefPc, WaitPc, ShrinkPc, TakenPc
    <3>6. Heights(w, s, 0)
      BY <1>4, <3>9 DEF Heights, AtHead, WaitPc, ShrinkPc
    <3>7. Based(s, 0)
      BY <1>4, <3>9 DEF Based, BodyPc
    <3>8. Owned(EmptyDeque, s)
      BY <1>1, <1>4, <3>9 DEF Owned, Fits, Rested, Moving, Asks, Sharing, WaitPc
    <3> QED  BY <1>1, <1>6, <3>3, <3>5, <3>6, <3>7, <3>8 DEF Good, Structure, Shape, s
  <2> QED  BY <2>1, <2>2
<1> QED  BY <1>6, <1>7, <1>8, <1>9 DEF SInv

LEMMA SInvNext ==
  ASSUME SInv, [Next]_vars
  PROVE  Advance
<1>1. ASSUME NEW w \in Worker, Step(w)
      PROVE  Advance
  BY <1>1, SpawnStep, SpawnFullStep, OverflowStep, PushShareStep, GrowSharedStep, PopSleeperStep,
     SelfStealStep, GiveBackStep, InjectStep, PopOverflownStep, PopStep, ShrinkSharedStep,
     RunOwnStep, BodyEndsStep, RunStolenTaskStep, MarkAsFinishedStep, LeapfrogStep, YieldStep,
     WaitForTaskToFinishStep, PopStolenStep, ReleaseSemaphoreStep, SleepStep, RunWorkerStep,
     RandomStealLoopStep, StopWorkerThreadsStep DEF Step
<1>2. ASSUME NEW w \in Worker, SpuriousWakeUp(w)
      PROVE  Advance
  BY <1>2, SleepStep
<1>3. CASE UNCHANGED vars
  BY <1>3, StutterStep
<1> QED  BY <1>1, <1>2, <1>3 DEF Next

LEMMA SInvAlways == Spec => []SInv
<1>1. Init => SInv
  BY SInvInit
<1>2. SInv /\ [Next]_vars => SInv'
  BY SInvNext DEF Advance
<1> QED  BY <1>1, <1>2, PTL DEF Spec

(* Every state is well typed: in particular splits and copies of it stay   *)
(* within the task array, and a semaphore counts -1, 0 or 1.               *)
THEOREM StealingTypeCorrect == Spec => []TypeOK
<1>1. SInv => TypeOK
  BY DEF SInv
<1> QED  BY <1>1, SInvAlways, PTL

(* growShared finds its asserts true, and publishWork takes tasks of a     *)
(* deque that shares some.                                                 *)
THEOREM SplitStaysBelowHead == Spec => []SplitBelowHead
<1>1. SInv => SplitBelowHead
  <2>1. ASSUME SInv, NEW w \in Worker, At(w, "growMove")
        PROVE  deque[w].splitCopy < Smaller(kTaskArraySize, deque[w].head)
    BY <2>1, AtTop DEF Fits, Asks
  <2>2. ASSUME SInv, NEW w \in Worker, At(w, "selfSteal")
        PROVE  ~deque[w].allStolenCopy
    BY <2>2, AtTop DEF Fits, Sharing
  <2> QED  BY <2>1, <2>2 DEF SplitBelowHead
<1> QED  BY <1>1, SInvAlways, PTL

-----------------------------------------------------------------------------
(* WHAT EACH THREAD WORKS ON                                               *)

(* A call of a body counts for the task it runs, the calls it has yet to   *)
(* spawn and the deque it found; runOwn for the slot it takes a task back  *)
(* from; markAsFinished for the slot it is to mark.  The parts are stated  *)
(* of any J (Job), H (Heads), S (slot), M (stealer), B (begun) and D       *)
(* (done).                                                                 *)
Spawned(t) == Tree!Spawned(t)
Todo(f) == Range(f.todo) \ {None}
NoJob == [kind |-> "none"]
JobOf(f) ==
  IF f.pc \in BodyPc
  THEN [kind |-> "body", task |-> f.task, todo |-> Todo(f), base |-> f.base]
  ELSE IF f.pc = "runOwn" THEN [kind |-> "own", at |-> f.ref[2]]
  ELSE IF f.pc = "markAsFinished" THEN [kind |-> "mark", of |-> f.ref[1], at |-> f.ref[2]]
  ELSE NoJob
Job == [w \in Worker |-> [l \in Nat |-> IF l \in Levels(w) THEN JobOf(stack[w][l]) ELSE NoJob]]
Heads == [w \in Worker |-> deque[w].head]

IsBody(J, w, l) == J[w][l].kind = "body"
IsOwn(J, w, l) == J[w][l].kind = "own"
IsMark(J, w, l) == J[w][l].kind = "mark"
Runs(J, w, l, t) == IsBody(J, w, l) /\ J[w][l].task = t
Resumes(J, S, w, l, t) == Runs(J, w, l, t) \/ (IsOwn(J, w, l) /\ S[w][J[w][l].at] = t)

(* Where a call t of the body at level l can be.                           *)
Accounted(J, H, S, D, w, l, t) ==
  \/ t \in J[w][l].todo \/ t \in D
  \/ \E i \in Slot : J[w][l].base <= i /\ i < H[w] /\ S[w][i] = t
  \/ Resumes(J, S, w, l + 1, t)

(* A body runs a task nobody else runs, and each call it has to make is    *)
(* yet to be spawned, done, in a slot it filled, or run or taken back      *)
(* right above it.                                                         *)
BodyOK(J, H, S, B, D, w, l) == LET b == J[w][l] IN
  /\ b.task \in Task /\ B[b.task] = 1 /\ b.task \notin D /\ b.base \in Nat
  /\ b.todo \subseteq Spawned(b.task) /\ \A t \in b.todo : B[t] = 0
  /\ \A v \in Worker, m \in Nat : Runs(J, v, m, b.task) => v = w /\ m = l
  /\ b.task = Root => w = Main
  /\ \A t \in Spawned(b.task) : Accounted(J, H, S, D, w, l, t)

(* The innermost body of w that began below i filled the slot i.           *)
Holds(J, S, w, l, i) ==
  /\ IsBody(J, w, l) /\ J[w][l].base <= i
  /\ S[w][i] \in Spawned(J[w][l].task) \ J[w][l].todo
  /\ \A m \in Nat : IsBody(J, w, m) /\ J[w][m].base <= i => m <= l

(* A slot below the head holds a call of one body, no other slot holds it, *)
(* and its metadata say whether it has begun and whether it is done.       *)
SlotOK(J, H, S, M, B, D, w, i) ==
  /\ \E l \in Nat : Holds(J, S, w, l, i)
  /\ \A v \in Worker, j \in Slot : j < H[v] /\ S[v][j] = S[w][i] => v = w /\ j = i
  /\ M[w][i] = "unset" => B[S[w][i]] = 0
  /\ M[w][i] \in Worker => B[S[w][i]] = 1
  /\ M[w][i] = "finished" => S[w][i] \in D

(* A task taken back from the own deque was never begun and is nowhere     *)
(* else.                                                                   *)
OwnOK(J, H, S, M, B, w, l) ==
  LET i == J[w][l + 1].at
  IN /\ i \in Slot /\ H[w] <= i /\ M[w][i] = "unset" /\ B[S[w][i]] = 0
     /\ IsBody(J, w, l) /\ S[w][i] \in Spawned(J[w][l].task) \ J[w][l].todo
     /\ \A j \in Slot : j < H[w] => S[w][j] # S[w][i]

(* Who has a slot to mark is the one that stole its task, which it runs or *)
(* has run, and the slot is still below the head of its owner.             *)
MarkOK(J, H, S, M, D, w, l) ==
  LET v == J[w][l].of
      i == J[w][l].at
  IN /\ v \in Worker /\ i \in Slot /\ i < H[v] /\ M[v][i] \in {w, v} /\ w # v
     /\ S[v][i] \in D \/ Runs(J, w, l + 1, S[v][i])
     /\ \A u \in Worker, m \in Nat :
          IsMark(J, u, m) /\ J[u][m].of = v /\ J[u][m].at = i => u = w /\ m = l

(* What was begun is run by somebody or done, its spawner was begun, and   *)
(* the calls of a body are done before it.                                 *)
TreeOK(J, B, D) ==
  /\ B[Root] = 1 /\ \A t \in Task : B[t] \in {0, 1}
  /\ \A t \in Task : B[t] = 1 /\ t \notin D => \E w \in Worker, l \in Nat : Runs(J, w, l, t)
  /\ \A t \in Task \ {Root} : B[t] = 1 => \E p \in Task : B[p] = 1 /\ t \in Spawned(p)
  /\ \A t \in D : t \in Task /\ B[t] = 1 /\ Spawned(t) \subseteq D

Work(J, H, S, M, B, D) ==
  /\ \A w \in Worker : H[w] \in Nat /\ J[w][0].kind = "none"
  /\ \A w \in Worker, l \in Nat : IsBody(J, w, l) => BodyOK(J, H, S, B, D, w, l)
  /\ \A w \in Worker, i \in Slot : i < H[w] => SlotOK(J, H, S, M, B, D, w, i)
  /\ \A w \in Worker, l \in Nat : IsOwn(J, w, l + 1) => OwnOK(J, H, S, M, B, w, l)
  /\ \A w \in Worker, l \in Nat : IsMark(J, w, l) => MarkOK(J, H, S, M, D, w, l)
  /\ TreeOK(J, B, D)

-----------------------------------------------------------------------------
(* WHO HOLDS A CLAIM, WHO OWES A SIGNAL                                    *)

(* The call under the running one, and the slots that thieves or injectors *)
(* took.                                                                   *)
Under1(w) == stack[w][Depth(w) - 1]
TakenNow == [w \in Worker |-> {i \in Slot : TakenSlot(deque[w], Now(w), i)}]

(* Held: the sleeper that a thread took off the list and has not woken     *)
(* yet. Freed: the one it is about to signal, and Why.  Naps: why a thread *)
(* sleeps: for a task, or for the end of the stolen call that it Awaits.   *)
(* Signalled: the signal is there or just taken.                           *)
HolderPc == {"selfSteal", "correctTail", "giveUp", "pushBack", "inject"}
Held == [w \in Worker |-> IF Depth(w) > 0 /\ Top(w).pc \in HolderPc THEN Top(w).other ELSE None]
Freed == [w \in Worker |-> IF At(w, "release") THEN Top(w).other ELSE None]
Why == [w \in Worker |-> IF At(w, "release") THEN (IF Under1(w).pc = "injectNext" THEN "task" ELSE "end") ELSE "none"]
Naps == [w \in Worker |->
  IF Depth(w) > 1 /\ Top(w).pc \in SleepPc
  THEN IF Under1(w).pc = "woken" THEN "task" ELSE "end" ELSE "no"]
Awaits == [w \in Worker |-> IF Naps[w] = "end" THEN Under1(w).ref ELSE None]
Signalled == [w \in Worker |-> semaphore[w] = 1 \/ At(w, "reset")]

(* Who sleeps for a task or was woken for one, and is neither on the list  *)
(* nor held: a task was injected for it.                                   *)
Listed(v) == \E n \in DOMAIN sleepers : sleepers[n] = v
Pending(v) == /\ ~stopped /\ (Naps[v] = "task" \/ At(v, "woken"))
              /\ ~Listed(v) /\ \A w \in Worker : Held[w] # v

(* The one slot whose stolen task a thread has yet to begin or to pass on. *)
Claim == [w \in Worker |->
  IF At(w, "runStolenTask") THEN Top(w).ref
  ELSE IF At(w, "inject") THEN <<w, Top(w).t>>
  ELSE IF Pending(w) THEN injected[w] ELSE None]

Injecting == {w \in Worker : At(w, "inject")}

(* No two hold a claim on one slot, which is below its owner's head and    *)
(* whose task was never begun; none but an injector claims one of its own  *)
(* slots.                                                                  *)
Claims(C, X, H, M, T) == \A w \in Worker : C[w] # None =>
   LET r == C[w] IN
   /\ r \in Ref /\ r[2] < H[r[1]] /\ r[2] \in T[r[1]] /\ M[r[1]][r[2]] = "unset"
   /\ \A v \in Worker : C[v] = r => v = w
   /\ r[1] # w \/ w \in X

(* Who is pending was given a task.                                        *)
PendOK == \A v \in Worker : Pending(v) => injected[v] # None

(* A slot that no thief took was never begun by one.                       *)
Untaken(H, M, T) == \A w \in Worker, i \in Slot : i < H[w] /\ i \notin T[w] => M[w][i] = "unset"

(* Nobody is on the list twice, on it and held, or held and signalled:     *)
(* whoever sleeps for a task is owed one signal at most.  Who sleeps for a *)
(* stolen call left its own name in the metadata, or the call is finished, *)
(* and only the thread that read the name there signals it.  L is the      *)
(* list, C is Held, F Freed, Y Why, N Naps, A Awaits, G Signalled, M       *)
(* stealer.                                                                *)
Tokens(L, C, F, Y, N, A, G, M) ==
  /\ \A m, n \in DOMAIN L : L[m] = L[n] => m = n
  /\ \A n \in DOMAIN L : LET v == L[n] IN N[v] = "task" /\ ~G[v] /\ \A w \in Worker : C[w] # v /\ F[w] # v
  /\ \A w \in Worker : C[w] # None => LET v == C[w] IN
       /\ v \in Worker /\ N[v] = "task" /\ ~G[v] /\ \A u \in Worker : F[u] # v /\ (C[u] = v => u = w)
  /\ \A w \in Worker : F[w] # None => LET v == F[w] IN
       /\ v \in Worker /\ N[v] = Y[w] /\ ~G[v] /\ (\A u \in Worker : F[u] = v => u = w) /\ \A i \in Slot : M[v][i] # v
  /\ \A v \in Worker : G[v] => N[v] # "no" /\ \A i \in Slot : M[v][i] # v
  /\ \A v \in Worker, i \in Slot : M[v][i] = v => N[v] = "end" /\ A[v] = <<v, i>>
  /\ \A v \in Worker : N[v] = "end" => A[v] \in Ref /\ A[v][1] = v /\ M[v][A[v][2]] \in {v, "finished"}

TokensNow == ~stopped => Tokens(sleepers, Held, Freed, Why, Naps, Awaits, Signalled, stealer)

(* A waiter's slot was stolen, and it pops it when it is finished.         *)
Waits(w, s, M) ==
  /\ \A l \in 1..Len(s) : s[l].pc \in WaitPc \ {"stolen"} => M[w][s[l].ref[2]] # "unset"
  /\ Len(s) > 0 /\ s[Len(s)].pc = "popStolen" => M[w][s[Len(s)].ref[2]] = "finished"
  /\ \A l \in 1..Len(s) : s[l].pc \in {"leap", "leapSteal", "leapt", "yieldSteal", "randomSteal"} => s[l].other # w

(* What the shutdown finds and leaves: it begins when nothing runs and     *)
(* nobody has a task, and tells each worker once.                          *)
Untold == IF Depth(Main) > 0 /\ stack[Main][1].pc = "stopping" THEN stack[Main][1].todo ELSE <<>>
Stops ==
  /\ ~stopped => Depth(Main) > 0 /\ stack[Main][1].pc = "stopWorkerThreads"
  /\ stopped =>
     /\ Depth(Main) > 0 => stack[Main][1].pc = "stopping"
     /\ \A w \in Worker, l \in Nat : ~IsBody(Job, w, l)
     /\ \A w \in Worker : Freed[w] # None => w = Main
     /\ Freed[Main] # None => /\ Freed[Main] \in Worker /\ ~Signalled[Freed[Main]]
                               /\ Freed[Main] \notin Range(Untold)
     /\ \A v \in Range(Untold) : ~Signalled[v]
     /\ \A m, n \in DOMAIN Untold : Untold[m] = Untold[n] => m = n
     /\ \A v \in Worker : v \notin Range(Untold) \/ At(v, "woken") => injected[v] = None

WorkNow == Work(Job, Heads, slot, stealer, begun, done)
ClaimsNow == Claims(Claim, Injecting, Heads, stealer, TakenNow) /\ PendOK
UntakenNow == Untaken(Heads, stealer, TakenNow)
WaitsNow == \A w \in Worker : Waits(w, stack[w], stealer)

(* What a call spawns is a task, not the root, and nobody else's.          *)
LEMMA TreeFacts ==
  /\ \A p \in Task : Spawned(p) \subseteq Task /\ Root \notin Spawned(p)
  /\ \A p, q \in Task : \A t \in Spawned(p) : t \in Spawned(q) => p = q
<1>1. ASSUME NEW p \in Task
      PROVE  Spawned(p) \subseteq Task /\ Root \notin Spawned(p)
  <2>1. Calls[p] \in Seq(Task \cup {None})
    BY StealingAssumption
  <2>3. Root \notin Range(Calls[p])
    BY TreeAssumption
  <2>2. Range(Calls[p]) \subseteq Task \cup {None}
    BY <2>1 DEF Range
  <2> QED  BY <2>2, <2>3 DEF Spawned, Tree!Spawned, Tree!Range, Range
<1>2. ASSUME NEW p \in Task, NEW q \in Task, NEW t \in Spawned(p), t \in Spawned(q)
      PROVE  p = q
  <2>1. t \in Range(Calls[p]) /\ t \in Range(Calls[q]) /\ t # None
    BY <1>2 DEF Spawned, Tree!Spawned, Tree!Range, Range
  <2>2. p # q => Range(Calls[p]) \cap Range(Calls[q]) \subseteq {None}
    BY TreeAssumption
  <2> QED  BY <2>1, <2>2
<1> QED  BY <1>1, <1>2

(* Two bodies that spawned the same task are one.                          *)
LEMMA OneParent ==
  ASSUME NEW J, NEW H, NEW S, NEW M, NEW B, NEW D, Work(J, H, S, M, B, D),
         NEW w \in Worker, NEW l \in Nat, NEW v \in Worker, NEW m \in Nat,
         IsBody(J, w, l), IsBody(J, v, m), NEW t,
         t \in Spawned(J[w][l].task), t \in Spawned(J[v][m].task)
  PROVE  v = w /\ m = l
<1>1. BodyOK(J, H, S, B, D, w, l) /\ BodyOK(J, H, S, B, D, v, m)
  BY DEF Work
<1>2. J[w][l].task \in Task /\ J[v][m].task \in Task
  BY <1>1 DEF BodyOK
<1>3. J[w][l].task = J[v][m].task
  BY <1>2, TreeFacts
<1>4. Runs(J, v, m, J[w][l].task)
  BY <1>3 DEF Runs
<1> QED  BY <1>1, <1>4 DEF BodyOK

-----------------------------------------------------------------------------
(* HOW THE STEPS OF A BODY CHANGE WORK                                     *)

(* F and G differ in nothing but G[w][n].                                  *)
SameBut(F, G, w, n) == \A v \in Worker, l \in Nat : v # w \/ l # n => G[v][l] = F[v][l]
SameSlots(F, G, w, i) == \A v \in Worker, j \in Slot : v # w \/ j # i => G[v][j] = F[v][j]

(* The running body of w is at n, and it does not run an own task.         *)
TopBody(J, w, n) ==
  /\ IsBody(J, w, n)
  /\ \A m \in Nat : (IsBody(J, w, m) => m <= n) /\ ~IsOwn(J, w, m)

(* Slots are numbers, and a reference is a thread and a slot.              *)
LEMMA SlotFacts ==
  Slot \subseteq Nat /\ \A r \in Ref : r[1] \in Worker /\ r[2] \in Slot
BY StealingAssumption DEF Slot, Ref

(* w's body at n puts t into the slot h at its head.                       *)
SpawnsTo(J, H, S, M, w, n, t, h, K, I, R, P) ==
  /\ TopBody(J, w, n) /\ t \in J[w][n].todo
  /\ SameBut(J, K, w, n) /\ IsBody(K, w, n) /\ K[w][n].task = J[w][n].task
  /\ K[w][n].base = J[w][n].base /\ K[w][n].todo = J[w][n].todo \ {t}
  /\ H[w] = h /\ J[w][n].base <= h
  /\ I[w] = h + 1 /\ \A v \in Worker \ {w} : I[v] = H[v]
  /\ SameSlots(S, R, w, h) /\ R[w][h] = t
  /\ SameSlots(M, P, w, h) /\ P[w][h] = "unset"

(* A spawn keeps Work.                                                     *)
LEMMA WorkSpawn ==
  ASSUME NEW J, NEW H, NEW S, NEW M, NEW B, NEW D, Work(J, H, S, M, B, D),
         NEW w \in Worker, NEW n \in Nat, NEW t, NEW h \in Slot,
         NEW K, NEW I, NEW R, NEW P, SpawnsTo(J, H, S, M, w, n, t, h, K, I, R, P)
  PROVE  Work(K, I, R, P, B, D)
<1> /\ TopBody(J, w, n) /\ t \in J[w][n].todo
    /\ SameBut(J, K, w, n) /\ IsBody(K, w, n) /\ K[w][n].task = J[w][n].task
    /\ K[w][n].base = J[w][n].base /\ K[w][n].todo = J[w][n].todo \ {t}
    /\ H[w] = h /\ J[w][n].base <= h
    /\ I[w] = h + 1 /\ \A v \in Worker \ {w} : I[v] = H[v]
    /\ SameSlots(S, R, w, h) /\ R[w][h] = t
    /\ SameSlots(M, P, w, h) /\ P[w][h] = "unset"
  BY DEF SpawnsTo
<1>1. /\ \A v \in Worker, l \in Nat :
           /\ IsBody(K, v, l) <=> IsBody(J, v, l)
           /\ IsOwn(K, v, l) <=> IsOwn(J, v, l)
           /\ IsMark(K, v, l) <=> IsMark(J, v, l)
           /\ IsBody(J, v, l) => K[v][l].task = J[v][l].task /\ K[v][l].base = J[v][l].base
                                 /\ K[v][l].todo \subseteq J[v][l].todo
           /\ ~IsBody(J, v, l) => K[v][l] = J[v][l]
           /\ \A u : Runs(K, v, l, u) <=> Runs(J, v, l, u)
      /\ IsBody(J, w, n)
  BY DEF SameBut, IsBody, IsOwn, IsMark, Runs, TopBody
<1>2. /\ \A v \in Worker : H[v] \in Nat /\ I[v] \in Nat /\ H[v] <= I[v]
      /\ \A v \in Worker : \A i \in Slot : i < I[v] => i < H[v] \/ (v = w /\ i = h)
      /\ \A v \in Worker : \A i \in Slot : i < H[v] => v # w \/ i # h
      /\ h < I[w] /\ h \in Nat
  BY SlotFacts DEF Work
<1>3. \A v \in Worker, i \in Slot : v # w \/ i # h => R[v][i] = S[v][i] /\ P[v][i] = M[v][i]
  BY SlotFacts DEF SameSlots
<1>4. BodyOK(J, H, S, B, D, w, n)
  BY <1>1 DEF Work
<1>5. t \in Spawned(J[w][n].task) /\ B[t] = 0
  BY <1>4 DEF BodyOK
<1>6. \A v \in Worker, i \in Slot : i < H[v] => S[v][i] # t
  <2> SUFFICES ASSUME NEW v \in Worker, NEW i \in Slot, i < H[v], S[v][i] = t
               PROVE  FALSE
    OBVIOUS
  <2>1. PICK l \in Nat : Holds(J, S, v, l, i)
    BY DEF Work, SlotOK
  <2>2. IsBody(J, v, l) /\ t \in Spawned(J[v][l].task) /\ t \notin J[v][l].todo
    BY <2>1 DEF Holds
  <2>3. v = w /\ l = n
    BY <1>5, <2>2, OneParent DEF TopBody
  <2> QED  BY <2>2, <2>3
<1>7. ASSUME NEW v \in Worker, NEW l \in Nat, IsBody(K, v, l)
      PROVE  BodyOK(K, I, R, B, D, v, l)
  <2>1. BodyOK(J, H, S, B, D, v, l) /\ IsBody(J, v, l)
    BY <1>1, <1>7 DEF Work
  <2>2. ASSUME NEW u \in Spawned(J[v][l].task)
        PROVE  Accounted(K, I, R, D, v, l, u)
    <3>1. Accounted(J, H, S, D, v, l, u)
      BY <2>1 DEF BodyOK
    <3>2. CASE u \in J[v][l].todo /\ ~(v = w /\ l = n /\ u = t)
      BY <3>2 DEF Accounted, SameBut, SameSlots
    <3>3. CASE v = w /\ l = n /\ u = t
      BY <1>2, <3>3 DEF Accounted
    <3>4. CASE u \in D
      BY <3>4 DEF Accounted
    <3>5. ASSUME NEW i \in Slot, J[v][l].base <= i, i < H[v], S[v][i] = u
          PROVE  Accounted(K, I, R, D, v, l, u)
      <4>1. i < I[v] /\ i \in Nat
        BY <1>2, <3>5, SlotFacts
      <4> QED  BY <1>1, <1>2, <1>3, <2>1, <3>5, <4>1 DEF Accounted
    <3>6. CASE Resumes(J, S, v, l + 1, u)
      <4>1. CASE Runs(J, v, l + 1, u)
        BY <1>1, <4>1 DEF Accounted, Resumes
      <4>2. CASE IsOwn(J, v, l + 1) /\ S[v][J[v][l + 1].at] = u
        <5>1. v # w /\ J[v][l + 1].at \in Slot
          BY <4>2 DEF TopBody, Work, OwnOK
        <5>2. K[v][l + 1] = J[v][l + 1]
          BY <5>1 DEF SameBut, SameSlots
        <5> QED  BY <1>1, <1>3, <4>2, <5>1, <5>2 DEF Accounted, Resumes
      <4> QED  BY <3>6, <4>1, <4>2 DEF Resumes
    <3> QED  BY <3>1, <3>2, <3>3, <3>4, <3>5, <3>6 DEF Accounted
  <2> QED  BY <1>1, <2>1, <2>2 DEF BodyOK
<1>8. ASSUME NEW v \in Worker, NEW i \in Slot, i < I[v]
      PROVE  SlotOK(K, I, R, P, B, D, v, i)
  <2>1. ASSUME NEW l \in Nat, Holds(J, S, v, l, i), R[v][i] = S[v][i]
        PROVE  Holds(K, R, v, l, i)
    BY <1>1, <2>1 DEF Holds
  <2>2. CASE v = w /\ i = h
    <3>1. Holds(K, R, w, n, h)
      BY <1>1, <1>5 DEF Holds, TopBody
    <3>2. P[w][h] \notin Worker /\ P[w][h] # "finished"
      BY StealingAssumption
    <3>3. ASSUME NEW u \in Worker, NEW j \in Slot, j < I[u], R[u][j] = R[w][h]
          PROVE  u = w /\ j = h
      BY <1>2, <1>3, <1>6, <3>3
    <3> QED  BY <1>5, <2>2, <3>1, <3>2, <3>3 DEF SlotOK
  <2>3. CASE v # w \/ i # h
    <3>1. SlotOK(J, H, S, M, B, D, v, i) /\ i < H[v]
      BY <1>2, <1>8, <2>3 DEF Work
    <3>2. R[v][i] = S[v][i] /\ P[v][i] = M[v][i] /\ R[v][i] # t
      BY <1>3, <1>6, <2>3, <3>1
    <3>3. \E l \in Nat : Holds(K, R, v, l, i)
      BY <2>1, <3>1, <3>2 DEF SlotOK
    <3>4. ASSUME NEW u \in Worker, NEW j \in Slot, j < I[u], R[u][j] = R[v][i]
          PROVE  u = v /\ j = i
      <4>1. u # w \/ j # h
        BY <3>2, <3>4
      <4>2. j < H[u] /\ R[u][j] = S[u][j]
        BY <1>2, <1>3, <3>4, <4>1
      <4> QED  BY <3>1, <3>2, <3>4, <4>2 DEF SlotOK
    <3> QED  BY <3>1, <3>2, <3>3, <3>4 DEF SlotOK
  <2> QED  BY <2>2, <2>3
<1>9. ASSUME NEW v \in Worker, NEW l \in Nat, IsOwn(K, v, l + 1)
      PROVE  OwnOK(K, I, R, P, B, v, l)
  <2>1. IsOwn(J, v, l + 1) /\ K[v][l + 1] = J[v][l + 1] /\ v # w
    BY <1>1, <1>9 DEF TopBody, IsOwn, IsBody
  <2>2. OwnOK(J, H, S, M, B, v, l) /\ K[v][l] = J[v][l] /\ I[v] = H[v]
    BY <2>1 DEF Work, SameBut, SameSlots
  <2> QED  BY <1>1, <1>3, <2>1, <2>2 DEF OwnOK
<1>10. ASSUME NEW v \in Worker, NEW l \in Nat, IsMark(K, v, l)
       PROVE  MarkOK(K, I, R, P, D, v, l)
  <2>1. IsMark(J, v, l) /\ K[v][l] = J[v][l] /\ MarkOK(J, H, S, M, D, v, l)
    BY <1>1, <1>10 DEF IsMark, IsBody, Work
  <2>2. PICK x \in Worker, i \in Slot : x = J[v][l].of /\ i = J[v][l].at
    BY <2>1 DEF MarkOK
  <2>3. i < H[x]
    BY <2>1, <2>2 DEF MarkOK
  <2>4. R[x][i] = S[x][i] /\ P[x][i] = M[x][i] /\ i < I[x]
    BY <1>2, <1>3, <2>3, SlotFacts
  <2>5. \A u \in Worker, m \in Nat : IsMark(K, u, m) => IsMark(J, u, m) /\ K[u][m] = J[u][m]
    BY <1>1 DEF IsMark, IsBody
  <2> QED  BY <1>1, <2>1, <2>2, <2>4, <2>5 DEF MarkOK
<1>11. TreeOK(K, B, D)
  BY <1>1 DEF Work, TreeOK
<1>12. \A v \in Worker : K[v][0].kind = "none"
  <2>1. \A v \in Worker : J[v][0].kind = "none"
    BY DEF Work
  <2>2. n # 0
    BY <2>1, <1>1 DEF IsBody
  <2> QED  BY <2>1, <2>2 DEF SameBut, SameSlots
<1> QED  BY <1>2, <1>7, <1>8, <1>9, <1>10, <1>11, <1>12 DEF Work

(* A task that is to be called is to be so from one place: from what a     *)
(* body has to do, from a slot, or by its owner.                           *)
LEMMA TodoOnly ==
  ASSUME NEW J, NEW H, NEW S, NEW M, NEW B, NEW D, Work(J, H, S, M, B, D),
         NEW w \in Worker, NEW l \in Nat, IsBody(J, w, l), NEW t \in J[w][l].todo
  PROVE  /\ \A v \in Worker, i \in Slot : i < H[v] => S[v][i] # t
         /\ \A v \in Worker, m \in Nat : IsOwn(J, v, m + 1) => S[v][J[v][m + 1].at] # t
         /\ \A v \in Worker, m \in Nat : IsBody(J, v, m) /\ t \in J[v][m].todo => v = w /\ m = l
         /\ t \in Spawned(J[w][l].task) /\ B[t] = 0 /\ B[J[w][l].task] = 1
         /\ J[w][l].task \in Task
<1>1. t \in Spawned(J[w][l].task) /\ B[t] = 0 /\ B[J[w][l].task] = 1 /\ J[w][l].task \in Task
  BY DEF Work, BodyOK
<1>2. ASSUME NEW v \in Worker, NEW i \in Slot, i < H[v], S[v][i] = t
      PROVE  FALSE
  <2>1. PICK m \in Nat : Holds(J, S, v, m, i)
    BY <1>2 DEF Work, SlotOK
  <2>2. IsBody(J, v, m) /\ t \in Spawned(J[v][m].task) /\ t \notin J[v][m].todo
    BY <1>2, <2>1 DEF Holds
  <2>3. v = w /\ m = l
    BY <1>1, <2>2, OneParent
  <2> QED  BY <2>2, <2>3
<1>3. ASSUME NEW v \in Worker, NEW m \in Nat, IsOwn(J, v, m + 1), S[v][J[v][m + 1].at] = t
      PROVE  FALSE
  <2>1. OwnOK(J, H, S, M, B, v, m)
    BY <1>3 DEF Work
  <2>2. IsBody(J, v, m) /\ t \in Spawned(J[v][m].task) /\ t \notin J[v][m].todo
    BY <1>3, <2>1 DEF OwnOK
  <2>3. v = w /\ m = l
    BY <1>1, <2>2, OneParent
  <2> QED  BY <2>2, <2>3
<1>4. ASSUME NEW v \in Worker, NEW m \in Nat, IsBody(J, v, m), t \in J[v][m].todo
      PROVE  v = w /\ m = l
  <2>1. t \in Spawned(J[v][m].task)
    BY <1>4 DEF Work, BodyOK
  <2> QED  BY <1>1, <1>4, <2>1, OneParent
<1> QED  BY <1>1, <1>2, <1>3, <1>4

(* What a slot below a head holds is in nobody's todo list and nobody's    *)
(* hand.                                                                   *)
LEMMA LiveOnly ==
  ASSUME NEW J, NEW H, NEW S, NEW M, NEW B, NEW D, Work(J, H, S, M, B, D),
         NEW w \in Worker, NEW i \in Slot, i < H[w]
  PROVE  /\ \A v \in Worker, m \in Nat : IsBody(J, v, m) => S[w][i] \notin J[v][m].todo
         /\ \A v \in Worker, m \in Nat : IsOwn(J, v, m + 1) => S[v][J[v][m + 1].at] # S[w][i]
         /\ \E p \in Task : B[p] = 1 /\ S[w][i] \in Spawned(p)
<1> DEFINE t == S[w][i]
<1>1. PICK l \in Nat : Holds(J, S, w, l, i)
  BY DEF Work, SlotOK
<1>2. IsBody(J, w, l) /\ t \in Spawned(J[w][l].task) /\ t \notin J[w][l].todo
  BY <1>1 DEF Holds
<1>3. J[w][l].task \in Task /\ B[J[w][l].task] = 1
  BY <1>2 DEF Work, BodyOK
<1>4. ASSUME NEW v \in Worker, NEW m \in Nat, IsBody(J, v, m)
      PROVE  t \notin J[v][m].todo
  BY <1>4, TodoOnly
<1>5. ASSUME NEW v \in Worker, NEW m \in Nat, IsOwn(J, v, m + 1), S[v][J[v][m + 1].at] = t
      PROVE  FALSE
  <2>1. OwnOK(J, H, S, M, B, v, m)
    BY <1>5 DEF Work
  <2>2. IsBody(J, v, m) /\ t \in Spawned(J[v][m].task)
    BY <1>5, <2>1 DEF OwnOK
  <2>3. v = w /\ m = l
    BY <1>2, <2>2, OneParent
  <2> QED  BY <1>5, <2>1, <2>3 DEF OwnOK
<1> QED  BY <1>2, <1>3, <1>4, <1>5

(* What a thread has taken back is in no todo list, no slot and no other   *)
(* hand.                                                                   *)
LEMMA OwnOnly ==
  ASSUME NEW J, NEW H, NEW S, NEW M, NEW B, NEW D, Work(J, H, S, M, B, D),
         NEW w \in Worker, NEW l \in Nat, IsOwn(J, w, l + 1), NEW t, t = S[w][J[w][l + 1].at]
  PROVE  /\ \A v \in Worker, m \in Nat : IsBody(J, v, m) => t \notin J[v][m].todo
         /\ \A v \in Worker, i \in Slot : i < H[v] => S[v][i] # t
         /\ \A v \in Worker, m \in Nat :
              IsOwn(J, v, m + 1) /\ S[v][J[v][m + 1].at] = t => v = w /\ m = l
         /\ IsBody(J, w, l) /\ t \in Spawned(J[w][l].task) /\ B[t] = 0
         /\ J[w][l].task \in Task /\ B[J[w][l].task] = 1
<1>1. IsBody(J, w, l) /\ t \in Spawned(J[w][l].task) /\ t \notin J[w][l].todo /\ B[t] = 0
  BY DEF Work, OwnOK
<1>2. J[w][l].task \in Task /\ B[J[w][l].task] = 1
  BY <1>1 DEF Work, BodyOK
<1>3. ASSUME NEW v \in Worker, NEW m \in Nat, IsBody(J, v, m)
      PROVE  t \notin J[v][m].todo
  BY <1>3, TodoOnly
<1>4. ASSUME NEW v \in Worker, NEW i \in Slot, i < H[v]
      PROVE  S[v][i] # t
  BY <1>4, LiveOnly
<1>5. ASSUME NEW v \in Worker, NEW m \in Nat, IsOwn(J, v, m + 1), S[v][J[v][m + 1].at] = t
      PROVE  v = w /\ m = l
  <2>1. OwnOK(J, H, S, M, B, v, m)
    BY <1>5 DEF Work
  <2>2. IsBody(J, v, m) /\ t \in Spawned(J[v][m].task)
    BY <1>5, <2>1 DEF OwnOK
  <2> QED  BY <1>1, <2>2, OneParent
<1> QED  BY <1>1, <1>2, <1>3, <1>4, <1>5

(* An unbegun task that a begun one spawned.                               *)
LEMMA Unbegun ==
  ASSUME NEW J, NEW H, NEW S, NEW M, NEW B, NEW D, Work(J, H, S, M, B, D),
         NEW t, B[t] = 0, NEW p \in Task, B[p] = 1, t \in Spawned(p)
  PROVE  /\ t \in Task /\ t # Root /\ t \notin D /\ \A u \in Spawned(t) : u \in Task /\ B[u] = 0
         /\ \A v \in Worker, m \in Nat : ~Runs(J, v, m, t)
<1>1. t \in Task /\ t # Root /\ Spawned(t) \subseteq Task \ {Root}
  BY TreeFacts
<1>2. t \notin D
  BY DEF Work, TreeOK
<1>3. ASSUME NEW u \in Spawned(t)  PROVE B[u] = 0
  <2>1. B[u] \in {0, 1}
    BY <1>1 DEF Work, TreeOK
  <2>2. ASSUME B[u] = 1  PROVE FALSE
    <3>1. PICK q \in Task : B[q] = 1 /\ u \in Spawned(q)
      BY <1>1, <2>2 DEF Work, TreeOK
    <3>2. q = t
      BY <1>1, <3>1, TreeFacts
    <3> QED  BY <3>1, <3>2
  <2> QED  BY <2>1, <2>2
<1>4. \A v \in Worker, m \in Nat : ~Runs(J, v, m, t)
  BY DEF Work, BodyOK, Runs
<1> QED  BY <1>1, <1>2, <1>3, <1>4

(* The head moves where there are no slots.                                *)
LEMMA WorkHeads ==
  ASSUME NEW J, NEW H, NEW S, NEW M, NEW B, NEW D, Work(J, H, S, M, B, D),
         NEW I, \A v \in Worker : I[v] \in Nat,
         \A v \in Worker, i \in Slot : i < I[v] <=> i < H[v]
  PROVE  Work(J, I, S, M, B, D)
<1>0. Slot \subseteq Nat /\ \A v \in Worker : H[v] \in Nat
  BY SlotFacts DEF Work
<1>1. ASSUME NEW v \in Worker, NEW l \in Nat, IsBody(J, v, l)
      PROVE  BodyOK(J, I, S, B, D, v, l)
  <2>1. BodyOK(J, H, S, B, D, v, l)
    BY <1>1 DEF Work
  <2>2. ASSUME NEW u, Accounted(J, H, S, D, v, l, u)
        PROVE  Accounted(J, I, S, D, v, l, u)
    BY <2>2 DEF Accounted
  <2> QED  BY <2>1, <2>2 DEF BodyOK
<1>2. ASSUME NEW v \in Worker, NEW i \in Slot, i < I[v]
      PROVE  SlotOK(J, I, S, M, B, D, v, i)
  <2>1. SlotOK(J, H, S, M, B, D, v, i)
    BY <1>2 DEF Work
  <2> QED  BY <2>1 DEF SlotOK
<1>3. ASSUME NEW v \in Worker, NEW l \in Nat, IsOwn(J, v, l + 1)
      PROVE  OwnOK(J, I, S, M, B, v, l)
  <2>1. OwnOK(J, H, S, M, B, v, l)
    BY <1>3 DEF Work
  <2>2. PICK i \in Slot : i = J[v][l + 1].at
    BY <2>1 DEF OwnOK
  <2>3. H[v] <= i
    BY <2>1, <2>2 DEF OwnOK
  <2>4. I[v] <= i
    BY <1>0, <2>3
  <2> QED  BY <2>1, <2>2, <2>4 DEF OwnOK
<1>4. ASSUME NEW v \in Worker, NEW l \in Nat, IsMark(J, v, l)
      PROVE  MarkOK(J, I, S, M, D, v, l)
  <2>1. MarkOK(J, H, S, M, D, v, l)
    BY <1>4 DEF Work
  <2> QED  BY <2>1 DEF MarkOK
<1> QED  BY <1>1, <1>2, <1>3, <1>4 DEF Work

(* What holds when w begins t at level q + 1: a body at q that had t to    *)
(* spawn, or that takes it back, or a thief that has w's mark put at q.    *)
BodyBegins(J, H, S, M, w, q, t, K, P) ==
  /\ P = M /\ IsBody(J, w, q) /\ IsBody(K, w, q) /\ K[w][q].task = J[w][q].task
  /\ K[w][q].base = J[w][q].base /\ K[w][q].todo = J[w][q].todo \ {t}
  /\ \A v \in Worker, i \in Slot : i < H[v] => S[v][i] # t
ThiefBegins(J, H, S, M, w, q, t, K, P) ==
  /\ q # 0 /\ J[w][q].kind = "none" /\ IsMark(K, w, q) /\ ~IsOwn(J, w, q + 1)
  /\ \E v \in Worker, i \in Slot :
       /\ K[w][q].of = v /\ K[w][q].at = i /\ v # w /\ i < H[v] /\ S[v][i] = t
       /\ M[v][i] = "unset" /\ P[v][i] = w /\ SameSlots(M, P, v, i)
Begins(J, H, S, M, B, w, q, t, p, K, P, E) ==
  /\ B[t] = 0 /\ B[p] = 1 /\ t \in Spawned(p)
  /\ \A v \in Worker, l \in Nat : ~(v = w /\ l \in {q, q + 1}) => K[v][l] = J[v][l]
  /\ IsBody(K, w, q + 1) /\ K[w][q + 1].task = t /\ K[w][q + 1].todo = Spawned(t)
  /\ K[w][q + 1].base = H[w]
  /\ ~IsBody(J, w, q + 1) /\ ~IsMark(J, w, q + 1) /\ ~IsOwn(J, w, q + 2)
  /\ E \in [Task -> Nat] /\ E[t] = 1 /\ \A u \in Task \ {t} : E[u] = B[u]
  /\ \/ BodyBegins(J, H, S, M, w, q, t, K, P)
     \/ ThiefBegins(J, H, S, M, w, q, t, K, P)
  /\ \A v \in Worker, l \in Nat : IsOwn(J, v, l + 1) =>
       (S[v][J[v][l + 1].at] = t <=> v = w /\ l = q)
  /\ \A v \in Worker, l \in Nat : IsBody(J, v, l) /\ t \in J[v][l].todo => v = w /\ l = q

(* A body starts at q + 1, for its owner at q or over the mark of a thief. *)
LEMMA WorkBegin ==
  ASSUME NEW J, NEW H, NEW S, NEW M, NEW B, NEW D, Work(J, H, S, M, B, D),
         NEW w \in Worker, NEW q \in Nat, NEW t, NEW p \in Task, NEW K, NEW P, NEW E,
         Begins(J, H, S, M, B, w, q, t, p, K, P, E)
  PROVE  Work(K, H, S, P, E, D)
<1> /\ B[t] = 0 /\ B[p] = 1 /\ t \in Spawned(p)
    /\ \A v \in Worker, l \in Nat : ~(v = w /\ l \in {q, q + 1}) => K[v][l] = J[v][l]
    /\ IsBody(K, w, q + 1) /\ K[w][q + 1].task = t /\ K[w][q + 1].todo = Spawned(t)
    /\ K[w][q + 1].base = H[w]
    /\ ~IsBody(J, w, q + 1) /\ ~IsMark(J, w, q + 1) /\ ~IsOwn(J, w, q + 2)
    /\ E \in [Task -> Nat] /\ E[t] = 1 /\ \A u \in Task \ {t} : E[u] = B[u]
    /\ \/ BodyBegins(J, H, S, M, w, q, t, K, P)
       \/ ThiefBegins(J, H, S, M, w, q, t, K, P)
    /\ \A v \in Worker, l \in Nat : IsOwn(J, v, l + 1) =>
         (S[v][J[v][l + 1].at] = t <=> v = w /\ l = q)
    /\ \A v \in Worker, l \in Nat : IsBody(J, v, l) /\ t \in J[v][l].todo => v = w /\ l = q
  BY DEF Begins
<1> \/ /\ P = M /\ IsBody(J, w, q) /\ IsBody(K, w, q) /\ K[w][q].task = J[w][q].task
       /\ K[w][q].base = J[w][q].base /\ K[w][q].todo = J[w][q].todo \ {t}
       /\ \A v \in Worker, i \in Slot : i < H[v] => S[v][i] # t
    \/ /\ q # 0 /\ J[w][q].kind = "none" /\ IsMark(K, w, q) /\ ~IsOwn(J, w, q + 1)
       /\ \E v \in Worker, i \in Slot :
            /\ K[w][q].of = v /\ K[w][q].at = i /\ v # w /\ i < H[v] /\ S[v][i] = t
            /\ M[v][i] = "unset" /\ P[v][i] = w /\ SameSlots(M, P, v, i)
  BY DEF BodyBegins, ThiefBegins
<1>0. /\ Slot \subseteq Nat /\ \A v \in Worker : H[v] \in Nat
      /\ {"unset", "finished"} \cap Worker = {} /\ q + 1 \in Nat /\ q + 1 # q
  BY SlotFacts, StealingAssumption DEF Work
<1>1. /\ t \in Task /\ t # Root /\ t \notin D /\ t \notin Spawned(t)
      /\ \A u \in Spawned(t) : u \in Task /\ E[u] = 0
      /\ \A v \in Worker, m \in Nat : ~Runs(J, v, m, t)
      /\ \A u \in Task : B[u] = 1 => E[u] = 1
      /\ \A u \in Task : u # t => E[u] = B[u]
  <2>1. /\ t \in Task /\ t # Root /\ t \notin D /\ \A u \in Spawned(t) : u \in Task /\ B[u] = 0
        /\ \A v \in Worker, m \in Nat : ~Runs(J, v, m, t)
    BY Unbegun
  <2>2. t \notin Spawned(t)
    <3>1. t \in Spawned(t) => t = p
      BY <2>1, TreeFacts
    <3> QED  BY <3>1
  <2> QED  BY <2>1, <2>2
<1>2. q # 0
  BY DEF IsBody, Work
<1>3. /\ \A v \in Worker, l \in Nat : IsBody(K, v, l) => IsBody(J, v, l) \/ (v = w /\ l = q + 1)
      /\ \A v \in Worker, l \in Nat : IsBody(J, v, l) =>
           /\ IsBody(K, v, l) /\ K[v][l].task = J[v][l].task /\ K[v][l].base = J[v][l].base
           /\ K[v][l].todo = J[v][l].todo \ {t} /\ ~(v = w /\ l = q + 1)
  <2>1. ASSUME NEW v \in Worker, NEW l \in Nat, IsBody(J, v, l)
        PROVE  /\ IsBody(K, v, l) /\ K[v][l].task = J[v][l].task /\ K[v][l].base = J[v][l].base
               /\ K[v][l].todo = J[v][l].todo \ {t} /\ ~(v = w /\ l = q + 1)
    <3>1. ~(v = w /\ l = q + 1)
      BY <2>1
    <3>2. CASE v = w /\ l = q
      BY <2>1, <3>1, <3>2 DEF IsBody
    <3>3. CASE ~(v = w /\ l = q)
      <4>1. K[v][l] = J[v][l]
        BY <3>1, <3>3
      <4>2. t \notin J[v][l].todo
        BY <2>1, <3>3
      <4> QED  BY <2>1, <3>1, <4>1, <4>2 DEF IsBody
    <3> QED  BY <3>2, <3>3
  <2>2. ASSUME NEW v \in Worker, NEW l \in Nat, IsBody(K, v, l), ~(v = w /\ l = q + 1)
        PROVE  IsBody(J, v, l)
    <3>1. CASE v = w /\ l = q
      BY <2>2, <3>1 DEF IsBody, IsMark
    <3>2. CASE ~(v = w /\ l = q)
      BY <2>2, <3>2 DEF IsBody
    <3> QED  BY <3>1, <3>2
  <2> QED  BY <2>1, <2>2
<1>4. /\ \A v \in Worker, l \in Nat : IsOwn(K, v, l + 1) => IsOwn(J, v, l + 1) /\ ~(v = w /\ l = q)
                                        /\ K[v][l + 1] = J[v][l + 1] /\ ~(v = w /\ l = q + 1)
      /\ \A v \in Worker, l \in Nat : IsOwn(J, v, l + 1) /\ ~(v = w /\ l = q) =>
                                        IsOwn(K, v, l + 1) /\ K[v][l + 1] = J[v][l + 1]
  <2>1. ASSUME NEW v \in Worker, NEW l \in Nat
        PROVE  /\ l + 1 = q + 1 <=> l = q
               /\ l + 1 = q => (v = w => ~IsOwn(J, v, l + 1) /\ ~IsOwn(K, v, l + 1))
               /\ v = w /\ l = q => ~IsOwn(K, v, l + 1)
               /\ v = w /\ l = q + 1 => ~IsOwn(J, v, l + 1)
    BY DEF IsOwn, IsBody, IsMark
  <2>2. ASSUME NEW v \in Worker, NEW l \in Nat, ~(v = w /\ l + 1 = q), ~(v = w /\ l = q)
        PROVE  K[v][l + 1] = J[v][l + 1]
    <3>1. l + 1 \in Nat /\ ~(v = w /\ l + 1 \in {q, q + 1})
      BY <2>2
    <3> QED  BY <3>1
  <2>3. ASSUME NEW v \in Worker, NEW l \in Nat, IsOwn(K, v, l + 1)
        PROVE  /\ IsOwn(J, v, l + 1) /\ ~(v = w /\ l = q)
               /\ K[v][l + 1] = J[v][l + 1] /\ ~(v = w /\ l = q + 1)
    <3>1. ~(v = w /\ l + 1 = q) /\ ~(v = w /\ l = q)
      BY <2>1, <2>3
    <3>2. K[v][l + 1] = J[v][l + 1]
      BY <2>2, <3>1
    <3> QED  BY <2>1, <2>3, <3>1, <3>2 DEF IsOwn
  <2>4. ASSUME NEW v \in Worker, NEW l \in Nat, IsOwn(J, v, l + 1), ~(v = w /\ l = q)
        PROVE  IsOwn(K, v, l + 1) /\ K[v][l + 1] = J[v][l + 1]
    <3>1. ~(v = w /\ l + 1 = q)
      BY <2>1, <2>4
    <3>2. K[v][l + 1] = J[v][l + 1]
      BY <2>2, <2>4, <3>1
    <3> QED  BY <2>4, <3>2 DEF IsOwn
  <2> QED  BY <2>3, <2>4
<1>5. \A v \in Worker, l \in Nat : IsMark(K, v, l) =>
        \/ IsMark(J, v, l) /\ K[v][l] = J[v][l]
        \/ v = w /\ l = q /\ J[w][q].kind = "none"
  BY DEF IsMark, IsBody
<1>6. \A v \in Worker, l \in Nat : \A u : Runs(J, v, l, u) => Runs(K, v, l, u)
  BY <1>3 DEF Runs
<1>7. Runs(K, w, q + 1, t)
  BY DEF Runs
<1>8. \A v \in Worker, l \in Nat : \A u : Runs(K, v, l, u) =>
         Runs(J, v, l, u) \/ (v = w /\ l = q + 1 /\ u = t)
  BY <1>3 DEF Runs
<1>9. /\ \A v \in Worker, i \in Slot : P[v][i] = M[v][i] \/
           (M[v][i] = "unset" /\ P[v][i] = w /\ i < H[v] /\ S[v][i] = t)
      /\ \A v \in Worker, i \in Slot : i < H[v] /\ S[v][i] = t => P[v][i] = w
  <2>1. CASE P = M /\ \A v \in Worker, i \in Slot : i < H[v] => S[v][i] # t
    BY <2>1
  <2>2. ASSUME NEW v \in Worker, NEW i \in Slot, i < H[v], S[v][i] = t,
               M[v][i] = "unset", P[v][i] = w, SameSlots(M, P, v, i)
        PROVE  /\ \A u \in Worker, j \in Slot : P[u][j] = M[u][j] \/
                      (M[u][j] = "unset" /\ P[u][j] = w /\ j < H[u] /\ S[u][j] = t)
               /\ \A u \in Worker, j \in Slot : j < H[u] /\ S[u][j] = t => P[u][j] = w
    <3>1. \A u \in Worker, j \in Slot : P[u][j] = M[u][j] \/ (u = v /\ j = i)
      BY <1>0, <2>2 DEF SameSlots
    <3>2. SlotOK(J, H, S, M, B, D, v, i)
      BY <2>2 DEF Work
    <3>3. \A u \in Worker, j \in Slot : j < H[u] /\ S[u][j] = t => u = v /\ j = i
      BY <2>2, <3>2 DEF SlotOK
    <3> QED  BY <2>2, <3>1, <3>3
  <2> QED  BY <2>1, <2>2
<1>10. ASSUME NEW v \in Worker, NEW l \in Nat, IsBody(K, v, l)
       PROVE  BodyOK(K, H, S, E, D, v, l)
  <2>1. CASE v = w /\ l = q + 1
    <3>1. \A u \in Worker, m \in Nat : Runs(K, u, m, t) => u = w /\ m = q + 1
      BY <1>1, <1>8
    <3>2. \A u \in Spawned(t) : Accounted(K, H, S, D, w, q + 1, u)
      BY DEF Accounted
    <3> QED  BY <1>0, <1>1, <2>1, <3>1, <3>2 DEF BodyOK
  <2>2. CASE ~(v = w /\ l = q + 1)
    <3>1. IsBody(J, v, l) /\ BodyOK(J, H, S, B, D, v, l)
      BY <1>3, <1>10, <2>2 DEF Work
    <3>2. /\ K[v][l].task = J[v][l].task /\ K[v][l].base = J[v][l].base
          /\ K[v][l].todo = J[v][l].todo \ {t} /\ J[v][l].task # t
      BY <1>1, <1>3, <3>1 DEF Runs
    <3>3. ASSUME NEW u \in Spawned(J[v][l].task)
          PROVE  Accounted(K, H, S, D, v, l, u)
      <4>1. Accounted(J, H, S, D, v, l, u)
        BY <3>1 DEF BodyOK
      <4>2. CASE u \in J[v][l].todo /\ u # t
        BY <3>2, <4>2 DEF Accounted
      <4>3. CASE u \in J[v][l].todo /\ u = t
        <5>1. v = w /\ l = q
          BY <3>1, <4>3
        <5> QED  BY <1>7, <4>3, <5>1 DEF Accounted, Resumes
      <4>4. CASE u \in D \/ \E i \in Slot : J[v][l].base <= i /\ i < H[v] /\ S[v][i] = u
        BY <3>2, <4>4 DEF Accounted
      <4>5. CASE Runs(J, v, l + 1, u)
        <5>1. Runs(K, v, l + 1, u)
          BY <1>6, <4>5
        <5> QED  BY <5>1 DEF Accounted, Resumes
      <4>6. CASE IsOwn(J, v, l + 1) /\ S[v][J[v][l + 1].at] = u
        <5>1. CASE v = w /\ l = q
          <6>1. u = t
            BY <4>6, <5>1
          <6> QED  BY <1>7, <5>1, <6>1 DEF Accounted, Resumes
        <5>2. CASE ~(v = w /\ l = q)
          <6>1. IsOwn(K, v, l + 1) /\ K[v][l + 1] = J[v][l + 1]
            BY <1>4, <4>6, <5>2
          <6> QED  BY <4>6, <6>1 DEF Accounted, Resumes
        <5> QED  BY <5>1, <5>2
      <4> QED  BY <4>1, <4>2, <4>3, <4>4, <4>5, <4>6 DEF Accounted, Resumes
    <3>4. J[v][l].task \in Task /\ E[J[v][l].task] = 1
      BY <1>1, <3>1 DEF BodyOK
    <3>5. ASSUME NEW u \in J[v][l].todo, u # t
          PROVE  E[u] = 0
      <4>1. u \in Task /\ B[u] = 0
        BY <3>1, TreeFacts DEF BodyOK
      <4> QED  BY <1>1, <3>5, <4>1
    <3>6. \A x \in Worker, m \in Nat : Runs(K, x, m, J[v][l].task) => x = v /\ m = l
      BY <1>8, <3>1, <3>2 DEF BodyOK
    <3> QED  BY <3>1, <3>2, <3>3, <3>4, <3>5, <3>6 DEF BodyOK
  <2> QED  BY <2>1, <2>2
<1>11. ASSUME NEW v \in Worker, NEW i \in Slot, i < H[v]
       PROVE  SlotOK(K, H, S, P, E, D, v, i)
  <2>1. SlotOK(J, H, S, M, B, D, v, i)
    BY <1>11 DEF Work
  <2>2. PICK l \in Nat : Holds(J, S, v, l, i)
    BY <2>1 DEF SlotOK
  <2>3. Holds(K, S, v, l, i)
    <3>1. /\ IsBody(J, v, l) /\ J[v][l].base <= i /\ S[v][i] \in Spawned(J[v][l].task) \ J[v][l].todo
          /\ \A m \in Nat : IsBody(J, v, m) /\ J[v][m].base <= i => m <= l
      BY <2>2 DEF Holds
    <3>2. \A m \in Nat : IsBody(K, v, m) /\ K[v][m].base <= i => m <= l
      <4>1. ~(H[v] <= i)
        BY <1>0, <1>11
      <4> QED  BY <1>3, <3>1, <4>1
    <3> QED  BY <1>3, <3>1, <3>2 DEF Holds
  <2>4. S[v][i] \in Task
    <3>1. IsBody(J, v, l) /\ S[v][i] \in Spawned(J[v][l].task)
      BY <2>2 DEF Holds
    <3>2. J[v][l].task \in Task
      BY <3>1 DEF Work, BodyOK
    <3> QED  BY <3>1, <3>2, TreeFacts
  <2>5. /\ P[v][i] = "unset" => E[S[v][i]] = 0
        /\ P[v][i] \in Worker => E[S[v][i]] = 1
        /\ P[v][i] = "finished" => S[v][i] \in D
    <3>1. P[v][i] = "unset" => M[v][i] = "unset" /\ S[v][i] # t
      BY <1>0, <1>9, <1>11
    <3>2. P[v][i] = "finished" => M[v][i] = "finished"
      BY <1>0, <1>9
    <3>3. P[v][i] \in Worker => M[v][i] \in Worker \/ S[v][i] = t
      BY <1>9
    <3> QED  BY <1>1, <2>1, <2>4, <3>1, <3>2, <3>3 DEF SlotOK
  <2> QED  BY <2>1, <2>3, <2>5 DEF SlotOK
<1>12. ASSUME NEW v \in Worker, NEW l \in Nat, IsOwn(K, v, l + 1)
       PROVE  OwnOK(K, H, S, P, E, v, l)
  <2>1. IsOwn(J, v, l + 1) /\ ~(v = w /\ l = q) /\ K[v][l + 1] = J[v][l + 1] /\ OwnOK(J, H, S, M, B, v, l)
    BY <1>4, <1>12 DEF Work
  <2>2. PICK i \in Slot : i = J[v][l + 1].at
    BY <2>1 DEF OwnOK
  <2>3. H[v] <= i /\ S[v][i] # t /\ IsBody(J, v, l)
    BY <2>1, <2>2 DEF OwnOK
  <2>4. P[v][i] = M[v][i]
    BY <1>9, <2>3
  <2>5. J[v][l].task \in Task /\ S[v][i] \in Spawned(J[v][l].task) /\ B[S[v][i]] = 0
    BY <2>1, <2>2, <2>3 DEF Work, BodyOK, OwnOK
  <2>6. E[S[v][i]] = 0
    BY <1>1, <2>3, <2>5, TreeFacts
  <2> QED  BY <1>3, <2>1, <2>2, <2>3, <2>4, <2>6 DEF OwnOK
<1>13. ASSUME NEW v \in Worker, NEW l \in Nat, IsMark(K, v, l)
       PROVE  MarkOK(K, H, S, P, D, v, l)
  <2>0. ASSUME NEW u \in Worker, NEW m \in Nat, IsMark(J, u, m)
        PROVE  /\ J[u][m].of \in Worker /\ J[u][m].at \in Slot
               /\ P[J[u][m].of][J[u][m].at] = M[J[u][m].of][J[u][m].at]
               /\ M[J[u][m].of][J[u][m].at] # "unset"
    <3>1. MarkOK(J, H, S, M, D, u, m)
      BY <2>0 DEF Work
    <3>2. PICK x \in Worker, i \in Slot : x = J[u][m].of /\ i = J[u][m].at
      BY <3>1 DEF MarkOK
    <3>3. M[x][i] \in {u, x}
      BY <3>1, <3>2 DEF MarkOK
    <3> QED  BY <1>0, <1>9, <3>2, <3>3
  <2>1. CASE IsMark(J, v, l) /\ K[v][l] = J[v][l]
    <3>1. MarkOK(J, H, S, M, D, v, l)
      BY <2>1 DEF Work
    <3>2. PICK x \in Worker, i \in Slot : x = J[v][l].of /\ i = J[v][l].at
      BY <3>1 DEF MarkOK
    <3>3. P[x][i] = M[x][i] /\ M[x][i] # "unset"
      BY <2>0, <2>1, <3>2
    <3>4. ASSUME NEW u \in Worker, NEW m \in Nat, IsMark(K, u, m), K[u][m].of = x, K[u][m].at = i
          PROVE  u = v /\ m = l
      <4>1. CASE IsMark(J, u, m) /\ K[u][m] = J[u][m]
        BY <3>1, <3>2, <3>4, <4>1 DEF MarkOK
      <4>2. CASE u = w /\ m = q /\ J[w][q].kind = "none"
        <5>1. M[x][i] = "unset"
          BY <3>4, <4>2 DEF IsBody
        <5> QED  BY <3>3, <5>1
      <4> QED  BY <1>5, <3>4, <4>1, <4>2
    <3>5. S[x][i] \in D \/ Runs(K, v, l + 1, S[x][i])
      BY <1>6, <3>1, <3>2 DEF MarkOK
    <3>6. i < H[x] /\ P[x][i] \in {v, x} /\ v # x
      BY <3>1, <3>2, <3>3 DEF MarkOK
    <3>7. K[v][l].of = x /\ K[v][l].at = i
      BY <2>1, <3>2
    <3> QED  BY <3>4, <3>5, <3>6, <3>7 DEF MarkOK
  <2>2. CASE v = w /\ l = q /\ J[w][q].kind = "none"
    <3>1. PICK x \in Worker, i \in Slot :
                 /\ K[w][q].of = x /\ K[w][q].at = i /\ x # w /\ i < H[x] /\ S[x][i] = t
                 /\ M[x][i] = "unset" /\ P[x][i] = w
      BY <2>2 DEF IsBody
    <3>2. ASSUME NEW u \in Worker, NEW m \in Nat, IsMark(K, u, m), K[u][m].of = x, K[u][m].at = i
          PROVE  u = w /\ m = q
      <4>1. ~(IsMark(J, u, m) /\ K[u][m] = J[u][m])
        BY <2>0, <3>1, <3>2
      <4> QED  BY <1>5, <3>2, <4>1
    <3> QED  BY <1>7, <2>2, <3>1, <3>2 DEF MarkOK
  <2> QED  BY <1>5, <1>13, <2>1, <2>2
<1>14. TreeOK(K, E, D)
  <2>1. TreeOK(J, B, D)
    BY DEF Work
  <2>2. E[Root] = 1 /\ \A u \in Task : E[u] \in {0, 1}
    <3>1. Root \in Task /\ B[Root] = 1 /\ \A u \in Task : B[u] \in {0, 1}
      BY <2>1, StealingAssumption DEF TreeOK
    <3> QED  BY <1>1, <3>1
  <2>3. ASSUME NEW u \in Task, E[u] = 1, u \notin D
        PROVE  \E v \in Worker, l \in Nat : Runs(K, v, l, u)
    <3>1. CASE u = t
      BY <1>0, <1>7, <3>1
    <3>2. CASE u # t
      BY <1>1, <1>6, <2>1, <2>3, <3>2 DEF TreeOK
    <3> QED  BY <3>1, <3>2
  <2>4. ASSUME NEW u \in Task \ {Root}, E[u] = 1
        PROVE  \E x \in Task : E[x] = 1 /\ u \in Spawned(x)
    <3>1. CASE u = t
      BY <1>1, <3>1
    <3>2. CASE u # t
      BY <1>1, <2>1, <2>4, <3>2 DEF TreeOK
    <3> QED  BY <3>1, <3>2
  <2>5. \A u \in D : u \in Task /\ E[u] = 1 /\ Spawned(u) \subseteq D
    BY <1>1, <2>1 DEF TreeOK
  <2> QED  BY <2>2, <2>3, <2>4, <2>5 DEF TreeOK
<1>15. \A v \in Worker : H[v] \in Nat /\ K[v][0].kind = "none"
  BY <1>2, <1>0 DEF Work
<1> QED  BY <1>10, <1>11, <1>12, <1>13, <1>14, <1>15 DEF Work

(* w's head comes down to h: the task there has finished, or w takes it.   *)
Drops(J, H, M, w, n, i, I, K) ==
  /\ H[w] = i + 1 /\ J[w][n].base <= i
  /\ I[w] = i /\ \A v \in Worker \ {w} : I[v] = H[v]
  /\ \/ K = J /\ M[w][i] = "finished"
     \/ /\ SameBut(J, K, w, n + 1) /\ J[w][n + 1].kind = "none" /\ IsOwn(K, w, n + 1)
        /\ K[w][n + 1].at = i /\ M[w][i] = "unset"

(* The head moves down past a slot: its task was finished by others, or    *)
(* its owner is to run it.                                                 *)
LEMMA WorkDrop ==
  ASSUME NEW J, NEW H, NEW S, NEW M, NEW B, NEW D, Work(J, H, S, M, B, D),
         NEW w \in Worker, NEW n \in Nat, TopBody(J, w, n), NEW i \in Slot,
         NEW I, NEW K, Drops(J, H, M, w, n, i, I, K)
  PROVE  Work(K, I, S, M, B, D)
<1> /\ H[w] = i + 1 /\ J[w][n].base <= i
    /\ I[w] = i /\ \A v \in Worker \ {w} : I[v] = H[v]
    /\ \/ K = J /\ M[w][i] = "finished"
       \/ /\ SameBut(J, K, w, n + 1) /\ J[w][n + 1].kind = "none" /\ IsOwn(K, w, n + 1)
          /\ K[w][n + 1].at = i /\ M[w][i] = "unset"
  BY DEF Drops
<1>0. /\ Slot \subseteq Nat /\ \A v \in Worker : H[v] \in Nat /\ I[v] \in Nat
      /\ {"unset", "finished"} \cap Worker = {} /\ n + 1 \in Nat /\ n + 1 # n /\ i < H[w]
  <2>1. i \in Nat /\ n + 1 \in Nat /\ n + 1 # n /\ i < H[w]
    BY SlotFacts
  <2>2. \A v \in Worker : H[v] \in Nat
    BY DEF Work
  <2>3. \A v \in Worker : I[v] \in Nat
    BY <2>1, <2>2
  <2> QED  BY <2>1, <2>2, <2>3, SlotFacts, StealingAssumption
<1>1. ASSUME NEW v \in Worker, NEW j \in Slot
      PROVE  j < I[v] <=> j < H[v] /\ (v # w \/ j # i)
  <2>1. j \in Nat /\ i \in Nat /\ H[v] \in Nat
    BY <1>0
  <2>2. CASE v = w
    BY <2>1, <2>2
  <2>3. CASE v # w
    BY <2>3
  <2> QED  BY <2>2, <2>3
<1>2. \A v \in Worker, j \in Slot : j < H[v] => j < I[v] \/ (v = w /\ j = i)
  BY <1>1
<1>3. SlotOK(J, H, S, M, B, D, w, i) /\ IsBody(J, w, n)
  BY <1>0 DEF Work, TopBody
<1>4. S[w][i] \in Spawned(J[w][n].task) /\ S[w][i] \notin J[w][n].todo
  <2>1. PICK l \in Nat : Holds(J, S, w, l, i)
    BY <1>3 DEF SlotOK
  <2>2. IsBody(J, w, l) /\ n <= l
    BY <1>3, <2>1 DEF Holds
  <2>3. l = n
    BY <2>2 DEF TopBody
  <2> QED  BY <2>1, <2>3 DEF Holds
<1>5. \A v \in Worker, l \in Nat :
        /\ K[v][l] = J[v][l] \/ (v = w /\ l = n + 1 /\ J[w][n + 1].kind = "none"
                                 /\ IsOwn(K, w, n + 1) /\ K[w][n + 1].at = i /\ M[w][i] = "unset")
  BY DEF SameBut
<1>6. \A v \in Worker, l \in Nat :
        /\ IsBody(K, v, l) <=> IsBody(J, v, l)
        /\ IsMark(K, v, l) <=> IsMark(J, v, l)
        /\ IsBody(J, v, l) \/ IsMark(J, v, l) \/ IsOwn(J, v, l) => K[v][l] = J[v][l]
        /\ IsOwn(K, v, l) /\ K[v][l] # J[v][l] => v = w /\ l = n + 1 /\ K[v][l].at = i
                                                  /\ M[w][i] = "unset"
  BY <1>5 DEF IsBody, IsMark, IsOwn
<1>7. \A v \in Worker, l \in Nat : \A u : Runs(K, v, l, u) <=> Runs(J, v, l, u)
  BY <1>6 DEF Runs
<1>8. ASSUME NEW v \in Worker, NEW l \in Nat, IsBody(K, v, l)
      PROVE  BodyOK(K, I, S, B, D, v, l)
  <2>1. BodyOK(J, H, S, B, D, v, l) /\ IsBody(J, v, l) /\ K[v][l] = J[v][l]
    BY <1>6, <1>8 DEF Work
  <2>2. ASSUME NEW u \in Spawned(J[v][l].task)
        PROVE  Accounted(K, I, S, D, v, l, u)
    <3>1. Accounted(J, H, S, D, v, l, u)
      BY <2>1 DEF BodyOK
    <3>2. CASE u \in J[v][l].todo \/ u \in D
      BY <2>1, <3>2 DEF Accounted
    <3>3. ASSUME NEW j \in Slot, J[v][l].base <= j, j < H[v], S[v][j] = u
          PROVE  Accounted(K, I, S, D, v, l, u)
      <4>1. CASE j < I[v]
        BY <2>1, <3>3, <4>1 DEF Accounted
      <4>2. CASE v = w /\ j = i
        <5>1. l = n
          BY <1>3, <1>4, <2>1, <3>3, <4>2, OneParent
        <5>2. CASE M[w][i] = "finished"
          BY <1>3, <3>3, <4>2, <5>2 DEF SlotOK, Accounted
        <5>3. CASE IsOwn(K, w, n + 1) /\ K[w][n + 1].at = i
          BY <3>3, <4>2, <5>1, <5>3 DEF Accounted, Resumes
        <5> QED  BY <5>2, <5>3
      <4> QED  BY <1>2, <3>3, <4>1, <4>2
    <3>4. CASE Runs(J, v, l + 1, u)
      BY <1>7, <3>4 DEF Accounted, Resumes
    <3>5. CASE IsOwn(J, v, l + 1) /\ S[v][J[v][l + 1].at] = u
      <4>1. K[v][l + 1] = J[v][l + 1] /\ IsOwn(K, v, l + 1)
        BY <1>6, <3>5 DEF IsOwn
      <4> QED  BY <3>5, <4>1 DEF Accounted, Resumes
    <3> QED  BY <3>1, <3>2, <3>3, <3>4, <3>5 DEF Accounted, Resumes
  <2> QED  BY <1>7, <2>1, <2>2 DEF BodyOK
<1>9. ASSUME NEW v \in Worker, NEW j \in Slot, j < I[v]
      PROVE  SlotOK(K, I, S, M, B, D, v, j)
  <2>1. SlotOK(J, H, S, M, B, D, v, j)
    BY <1>1, <1>9 DEF Work
  <2>2. PICK l \in Nat : Holds(J, S, v, l, j)
    BY <2>1 DEF SlotOK
  <2>3. Holds(K, S, v, l, j)
    BY <1>6, <2>2 DEF Holds
  <2> QED  BY <1>1, <2>1, <2>3 DEF SlotOK
<1>10. ASSUME NEW v \in Worker, NEW l \in Nat, IsOwn(K, v, l + 1)
       PROVE  OwnOK(K, I, S, M, B, v, l)
  <2>1. CASE K[v][l + 1] = J[v][l + 1]
    <3>1. IsOwn(J, v, l + 1) /\ OwnOK(J, H, S, M, B, v, l)
      BY <1>10, <2>1 DEF Work, IsOwn
    <3>2. v # w
      BY <3>1 DEF TopBody
    <3>3. PICK j \in Slot : j = J[v][l + 1].at
      BY <3>1 DEF OwnOK
    <3>4. I[v] = H[v] /\ K[v][l] = J[v][l] /\ IsBody(K, v, l)
      BY <1>6, <3>1, <3>2 DEF OwnOK
    <3> QED  BY <2>1, <3>1, <3>3, <3>4 DEF OwnOK
  <2>2. CASE K[v][l + 1] # J[v][l + 1]
    <3>1. v = w /\ l = n /\ K[w][n + 1].at = i /\ M[w][i] = "unset"
      BY <1>6, <1>10, <2>2
    <3>2. B[S[w][i]] = 0
      BY <1>3, <3>1 DEF SlotOK
    <3>3. \A j \in Slot : j < I[w] => S[w][j] # S[w][i]
      <4>1. \A j \in Slot : j < H[w] /\ S[w][j] = S[w][i] => j = i
        BY <1>3 DEF SlotOK
      <4> QED  BY <1>1, <4>1
    <3>4. K[w][n] = J[w][n] /\ IsBody(K, w, n) /\ I[w] <= i
      BY <1>0, <1>3, <1>6
    <3> QED  BY <1>4, <3>1, <3>2, <3>3, <3>4 DEF OwnOK
  <2> QED  BY <2>1, <2>2
<1>11. ASSUME NEW v \in Worker, NEW l \in Nat, IsMark(K, v, l)
       PROVE  MarkOK(K, I, S, M, D, v, l)
  <2>1. IsMark(J, v, l) /\ K[v][l] = J[v][l] /\ MarkOK(J, H, S, M, D, v, l)
    BY <1>6, <1>11 DEF Work
  <2>2. PICK x \in Worker, j \in Slot : x = J[v][l].of /\ j = J[v][l].at
    BY <2>1 DEF MarkOK
  <2>3. j < H[x] /\ M[x][j] \in {v, x}
    BY <2>1, <2>2 DEF MarkOK
  <2>4. x # w \/ j # i
    BY <1>0, <2>3
  <2>5. j < I[x]
    BY <1>2, <2>3, <2>4
  <2>6. \A u \in Worker, m \in Nat : IsMark(K, u, m) => IsMark(J, u, m) /\ K[u][m] = J[u][m]
    BY <1>6
  <2> QED  BY <1>7, <2>1, <2>2, <2>5, <2>6 DEF MarkOK
<1>12. TreeOK(K, B, D)
  BY <1>7 DEF Work, TreeOK
<1>13. \A v \in Worker : I[v] \in Nat /\ K[v][0].kind = "none"
  <2>1. \A v \in Worker : K[v][0] = J[v][0]
    BY <1>5
  <2> QED  BY <1>0, <2>1 DEF Work
<1> QED  BY <1>8, <1>9, <1>10, <1>11, <1>12, <1>13 DEF Work

(* The owner takes the place of the thief in the metadata.                 *)
LEMMA WorkMeta ==
  ASSUME NEW J, NEW H, NEW S, NEW M, NEW B, NEW D, Work(J, H, S, M, B, D),
         NEW v \in Worker, NEW i \in Slot, i < H[v], M[v][i] \in Worker,
         NEW P, P[v][i] = v, SameSlots(M, P, v, i)
  PROVE  Work(J, H, S, P, B, D)
<1>0. /\ Slot \subseteq Nat /\ \A x \in Worker : H[x] \in Nat
      /\ {"unset", "finished"} \cap Worker = {}
  BY SlotFacts, StealingAssumption DEF Work
<1>1. \A x \in Worker, j \in Slot :
        P[x][j] = M[x][j] \/ (x = v /\ j = i /\ P[x][j] = v)
  BY <1>0 DEF SameSlots
<1>2. ASSUME NEW x \in Worker, NEW j \in Slot, j < H[x]
      PROVE  SlotOK(J, H, S, P, B, D, x, j)
  <2>1. SlotOK(J, H, S, M, B, D, x, j)
    BY <1>2 DEF Work
  <2>2. P[x][j] = M[x][j] \/ (P[x][j] \in Worker /\ M[x][j] \in Worker)
    BY <1>1
  <2> QED  BY <1>0, <2>1, <2>2 DEF SlotOK
<1>3. ASSUME NEW x \in Worker, NEW l \in Nat, IsOwn(J, x, l + 1)
      PROVE  OwnOK(J, H, S, P, B, x, l)
  <2>1. OwnOK(J, H, S, M, B, x, l)
    BY <1>3 DEF Work
  <2>2. PICK j \in Slot : j = J[x][l + 1].at
    BY <2>1 DEF OwnOK
  <2>3. P[x][j] = M[x][j]
    <3>1. M[x][j] = "unset"
      BY <2>1, <2>2 DEF OwnOK
    <3> QED  BY <1>0, <1>1, <3>1
  <2> QED  BY <2>1, <2>2, <2>3 DEF OwnOK
<1>4. ASSUME NEW x \in Worker, NEW l \in Nat, IsMark(J, x, l)
      PROVE  MarkOK(J, H, S, P, D, x, l)
  <2>1. MarkOK(J, H, S, M, D, x, l)
    BY <1>4 DEF Work
  <2>2. PICK y \in Worker, j \in Slot : y = J[x][l].of /\ j = J[x][l].at
    BY <2>1 DEF MarkOK
  <2>3. P[y][j] \in {x, y}
    BY <1>1, <2>1, <2>2 DEF MarkOK
  <2> QED  BY <2>1, <2>2, <2>3 DEF MarkOK
<1> QED  BY <1>2, <1>3, <1>4 DEF Work

(* w ends its mark of the task in slot i of v.                             *)
Finishes(J, M, w, n, v, i, K, P) ==
  /\ IsMark(J, w, n) /\ ~IsBody(J, w, n + 1) /\ J[w][n].of = v /\ J[w][n].at = i
  /\ SameBut(J, K, w, n) /\ K[w][n].kind = "none"
  /\ P[v][i] = "finished" /\ SameSlots(M, P, v, i)

(* The thief says that it is finished.                                     *)
LEMMA WorkMark ==
  ASSUME NEW J, NEW H, NEW S, NEW M, NEW B, NEW D, Work(J, H, S, M, B, D),
         NEW w \in Worker, NEW n \in Nat, NEW v, NEW i, NEW K, NEW P,
         Finishes(J, M, w, n, v, i, K, P)
  PROVE  Work(K, H, S, P, B, D)
<1> /\ IsMark(J, w, n) /\ ~IsBody(J, w, n + 1) /\ v = J[w][n].of /\ i = J[w][n].at
    /\ SameBut(J, K, w, n) /\ K[w][n].kind = "none"
    /\ P[v][i] = "finished" /\ SameSlots(M, P, v, i)
  BY DEF Finishes
<1>0. /\ Slot \subseteq Nat /\ \A x \in Worker : H[x] \in Nat
      /\ {"unset", "finished"} \cap Worker = {}
  BY SlotFacts, StealingAssumption DEF Work
<1>1. /\ v \in Worker /\ i \in Slot /\ i < H[v] /\ M[v][i] \in Worker /\ S[v][i] \in D
      /\ \A u \in Worker, m \in Nat :
           IsMark(J, u, m) /\ J[u][m].of = v /\ J[u][m].at = i => u = w /\ m = n
  <2>1. MarkOK(J, H, S, M, D, w, n)
    BY DEF Work
  <2>2. ~Runs(J, w, n + 1, S[v][i])
    BY DEF Runs
  <2> QED  BY <2>1, <2>2 DEF MarkOK
<1>2. \A x \in Worker, j \in Slot :
        P[x][j] = M[x][j] \/ (x = v /\ j = i /\ P[x][j] = "finished")
  BY <1>0, <1>1 DEF SameBut, SameSlots
<1>3. \A x \in Worker, l \in Nat :
        /\ IsBody(K, x, l) <=> IsBody(J, x, l)
        /\ IsOwn(K, x, l) <=> IsOwn(J, x, l)
        /\ IsMark(K, x, l) => IsMark(J, x, l) /\ ~(x = w /\ l = n)
        /\ IsBody(J, x, l) \/ IsOwn(J, x, l) \/ IsMark(K, x, l) => K[x][l] = J[x][l]
  BY DEF SameBut, IsBody, IsOwn, IsMark
<1>4. \A x \in Worker, l \in Nat : \A u : Runs(K, x, l, u) <=> Runs(J, x, l, u)
  BY <1>3 DEF Runs
<1>5. ASSUME NEW x \in Worker, NEW l \in Nat, IsBody(K, x, l)
      PROVE  BodyOK(K, H, S, B, D, x, l)
  <2>1. BodyOK(J, H, S, B, D, x, l) /\ K[x][l] = J[x][l]
    BY <1>3, <1>5 DEF Work
  <2>2. ASSUME NEW u, Accounted(J, H, S, D, x, l, u)
        PROVE  Accounted(K, H, S, D, x, l, u)
    BY <1>3, <1>4, <2>1, <2>2 DEF Accounted, Resumes
  <2> QED  BY <1>4, <2>1, <2>2 DEF BodyOK
<1>6. ASSUME NEW x \in Worker, NEW j \in Slot, j < H[x]
      PROVE  SlotOK(K, H, S, P, B, D, x, j)
  <2>1. SlotOK(J, H, S, M, B, D, x, j)
    BY <1>6 DEF Work
  <2>2. PICK l \in Nat : Holds(J, S, x, l, j)
    BY <2>1 DEF SlotOK
  <2>3. Holds(K, S, x, l, j)
    BY <1>3, <2>2 DEF Holds
  <2>4. /\ P[x][j] = "unset" => B[S[x][j]] = 0
        /\ P[x][j] \in Worker => B[S[x][j]] = 1
        /\ P[x][j] = "finished" => S[x][j] \in D
    BY <1>0, <1>1, <1>2, <2>1 DEF SlotOK
  <2> QED  BY <2>1, <2>3, <2>4 DEF SlotOK
<1>7. ASSUME NEW x \in Worker, NEW l \in Nat, IsOwn(K, x, l + 1)
      PROVE  OwnOK(K, H, S, P, B, x, l)
  <2>1. OwnOK(J, H, S, M, B, x, l) /\ K[x][l + 1] = J[x][l + 1]
    BY <1>3, <1>7 DEF Work
  <2>2. PICK j \in Slot : j = J[x][l + 1].at
    BY <2>1 DEF OwnOK
  <2>3. P[x][j] = M[x][j]
    <3>1. M[x][j] = "unset"
      BY <2>1, <2>2 DEF OwnOK
    <3> QED  BY <1>0, <1>1, <1>2, <3>1
  <2>4. IsBody(K, x, l) /\ K[x][l] = J[x][l]
    BY <1>3, <2>1 DEF OwnOK
  <2> QED  BY <2>1, <2>2, <2>3, <2>4 DEF OwnOK
<1>8. ASSUME NEW x \in Worker, NEW l \in Nat, IsMark(K, x, l)
      PROVE  MarkOK(K, H, S, P, D, x, l)
  <2>1. IsMark(J, x, l) /\ ~(x = w /\ l = n) /\ K[x][l] = J[x][l] /\ MarkOK(J, H, S, M, D, x, l)
    BY <1>3, <1>8 DEF Work
  <2>2. PICK y \in Worker, j \in Slot : y = J[x][l].of /\ j = J[x][l].at
    BY <2>1 DEF MarkOK
  <2>3. P[y][j] = M[y][j]
    BY <1>1, <1>2, <2>1, <2>2
  <2>4. \A u \in Worker, m \in Nat : IsMark(K, u, m) => IsMark(J, u, m) /\ K[u][m] = J[u][m]
    BY <1>3
  <2> QED  BY <1>4, <2>1, <2>2, <2>3, <2>4 DEF MarkOK
<1>9. TreeOK(K, B, D)
  BY <1>4 DEF Work, TreeOK
<1>10. \A x \in Worker : H[x] \in Nat /\ K[x][0].kind = "none"
  BY DEF Work, SameBut
<1> QED  BY <1>5, <1>6, <1>7, <1>8, <1>9, <1>10 DEF Work

(* A body ends.                                                            *)
LEMMA WorkOver ==
  ASSUME NEW J, NEW H, NEW S, NEW M, NEW B, NEW D, Work(J, H, S, M, B, D),
         NEW w \in Worker, NEW n \in Nat, IsBody(J, w, n), J[w][n].todo = {}, J[w][n].base = H[w],
         J[w][n + 1].kind = "none"
  PROVE  /\ J[w][n].task \in Task /\ B[J[w][n].task] = 1 /\ J[w][n].task \notin D
         /\ Spawned(J[w][n].task) \subseteq D
         /\ \A v \in Worker, m \in Nat : Runs(J, v, m, J[w][n].task) => v = w /\ m = n
<1> DEFINE t == J[w][n].task
<1>0. /\ Slot \subseteq Nat /\ \A x \in Worker : H[x] \in Nat
  BY SlotFacts DEF Work
<1>1. /\ t \in Task /\ B[t] = 1 /\ t \notin D
      /\ \A v \in Worker, m \in Nat : Runs(J, v, m, t) => v = w /\ m = n
  BY DEF Work, BodyOK
<1>2. Spawned(t) \subseteq D
  <2> SUFFICES ASSUME NEW u \in Spawned(t)  PROVE u \in D
    OBVIOUS
  <2>1. Accounted(J, H, S, D, w, n, u)
    BY DEF Work, BodyOK
  <2>2. ~Resumes(J, S, w, n + 1, u)
    BY DEF Resumes, Runs, IsBody, IsOwn
  <2>3. \A i \in Slot : ~(J[w][n].base <= i /\ i < H[w])
    <3>1. H[w] \in Nat
      BY <1>0
    <3>2. \A h, i \in Nat : ~(h <= i /\ i < h)
      OBVIOUS
    <3> QED  BY <1>0, <3>1, <3>2
  <2> QED  BY <2>1, <2>2, <2>3 DEF Accounted
<1> QED  BY <1>1, <1>2

(* The end of a body keeps Work.                                           *)
LEMMA WorkEnd ==
  ASSUME NEW J, NEW H, NEW S, NEW M, NEW B, NEW D, Work(J, H, S, M, B, D),
         NEW w \in Worker, NEW n \in Nat, IsBody(J, w, n), J[w][n].todo = {}, J[w][n].base = H[w],
         J[w][n + 1].kind = "none",
         NEW K, SameBut(J, K, w, n), K[w][n].kind = "none",
         NEW E, E = D \cup {J[w][n].task}
  PROVE  Work(K, H, S, M, B, E)
<1> DEFINE t == J[w][n].task
<1>0. /\ Slot \subseteq Nat /\ \A x \in Worker : H[x] \in Nat
  BY SlotFacts DEF Work
<1>1. /\ t \in Task /\ B[t] = 1 /\ t \notin D /\ Spawned(t) \subseteq D
      /\ \A v \in Worker, m \in Nat : Runs(J, v, m, t) => v = w /\ m = n
  BY WorkOver
<1>2. Spawned(t) \subseteq D
  BY <1>1
<1>3. \A x \in Worker, l \in Nat :
        /\ IsBody(K, x, l) <=> IsBody(J, x, l) /\ ~(x = w /\ l = n)
        /\ IsOwn(K, x, l) <=> IsOwn(J, x, l)
        /\ IsMark(K, x, l) <=> IsMark(J, x, l)
        /\ IsBody(K, x, l) \/ IsOwn(J, x, l) \/ IsMark(J, x, l) => K[x][l] = J[x][l]
  BY DEF SameBut, IsBody, IsOwn, IsMark
<1>4. \A x \in Worker, l \in Nat : \A u :
        /\ Runs(K, x, l, u) => Runs(J, x, l, u)
        /\ Runs(J, x, l, u) => Runs(K, x, l, u) \/ u = t
  BY <1>3 DEF Runs
<1>5. ASSUME NEW x \in Worker, NEW l \in Nat, IsBody(K, x, l)
      PROVE  BodyOK(K, H, S, B, E, x, l)
  <2>1. BodyOK(J, H, S, B, D, x, l) /\ K[x][l] = J[x][l] /\ IsBody(J, x, l) /\ ~(x = w /\ l = n)
    BY <1>3, <1>5 DEF Work
  <2>2. ASSUME NEW u, Accounted(J, H, S, D, x, l, u)
        PROVE  Accounted(K, H, S, E, x, l, u)
    <3>1. CASE u = t \/ u \in D
      BY <3>1 DEF Accounted
    <3>2. CASE u # t /\ u \notin D
      BY <1>3, <1>4, <2>1, <2>2, <3>2 DEF Accounted, Resumes
    <3> QED  BY <3>1, <3>2
  <2>3. J[x][l].task # t
    BY <1>1, <2>1 DEF Runs
  <2> QED  BY <1>4, <2>1, <2>2, <2>3 DEF BodyOK
<1>6. ASSUME NEW x \in Worker, NEW j \in Slot, j < H[x]
      PROVE  SlotOK(K, H, S, M, B, E, x, j)
  <2>1. SlotOK(J, H, S, M, B, D, x, j)
    BY <1>6 DEF Work
  <2>2. PICK l \in Nat : Holds(J, S, x, l, j)
    BY <2>1 DEF SlotOK
  <2>3. ~(x = w /\ l = n)
    <3>1. J[x][l].base <= j
      BY <2>2 DEF Holds
    <3> QED  BY <1>0, <1>6, <3>1
  <2>4. Holds(K, S, x, l, j)
    BY <1>3, <2>2, <2>3 DEF Holds
  <2> QED  BY <2>1, <2>4 DEF SlotOK
<1>7. ASSUME NEW x \in Worker, NEW l \in Nat, IsOwn(K, x, l + 1)
      PROVE  OwnOK(K, H, S, M, B, x, l)
  <2>1. OwnOK(J, H, S, M, B, x, l) /\ K[x][l + 1] = J[x][l + 1] /\ IsOwn(J, x, l + 1)
    BY <1>3, <1>7 DEF Work
  <2>2. IsBody(J, x, l) /\ ~(x = w /\ l = n)
    BY <2>1 DEF OwnOK, IsOwn
  <2>3. IsBody(K, x, l) /\ K[x][l] = J[x][l]
    BY <1>3, <2>2
  <2> QED  BY <2>1, <2>3 DEF OwnOK
<1>8. ASSUME NEW x \in Worker, NEW l \in Nat, IsMark(K, x, l)
      PROVE  MarkOK(K, H, S, M, E, x, l)
  <2>1. K[x][l] = J[x][l] /\ MarkOK(J, H, S, M, D, x, l)
    BY <1>3, <1>8 DEF Work
  <2>2. PICK y \in Worker, j \in Slot : y = J[x][l].of /\ j = J[x][l].at
    BY <2>1 DEF MarkOK
  <2>3. S[y][j] \in E \/ Runs(K, x, l + 1, S[y][j])
    BY <1>4, <2>1, <2>2 DEF MarkOK
  <2>4. \A u \in Worker, m \in Nat : IsMark(K, u, m) => IsMark(J, u, m) /\ K[u][m] = J[u][m]
    BY <1>3
  <2> QED  BY <2>1, <2>2, <2>3, <2>4 DEF MarkOK
<1>9. TreeOK(K, B, E)
  <2>1. TreeOK(J, B, D)
    BY DEF Work
  <2>2. ASSUME NEW u \in Task, B[u] = 1, u \notin E
        PROVE  \E v \in Worker, l \in Nat : Runs(K, v, l, u)
    BY <1>4, <2>1, <2>2 DEF TreeOK
  <2>3. \A u \in E : u \in Task /\ B[u] = 1 /\ Spawned(u) \subseteq E
    BY <1>1, <1>2, <2>1 DEF TreeOK
  <2> QED  BY <2>1, <2>2, <2>3 DEF TreeOK
<1>10. \A x \in Worker : H[x] \in Nat /\ K[x][0].kind = "none"
  BY DEF Work, SameBut
<1> QED  BY <1>1, <1>2, <1>5, <1>6, <1>7, <1>8, <1>9, <1>10 DEF Work

Orderly == SInv /\ WorkNow /\ ClaimsNow /\ UntakenNow /\ WaitsNow /\ TokensNow /\ Stops

(* w steps: the others' stacks stay.                                       *)
Steps(w) == /\ Depth(w) > 0 /\ stack' \in [Worker -> Seq(Frames)]
            /\ \A v \in Worker \ {w} : stack'[v] = stack[v]

-----------------------------------------------------------------------------
(* HOW A STEP CHANGES THE STACKS AND THE VIEWS                             *)

(* Job, now and after a step.                                              *)
LEMMA JobAt ==
  \A v \in Worker, l \in Nat :
    /\ Job[v][l] = IF l \in Levels(v) THEN JobOf(stack[v][l]) ELSE NoJob
    /\ Job'[v][l] = IF l \in Levels(v)' THEN JobOf(stack'[v][l]) ELSE NoJob
BY DEF Job

(* The call w returns to.                                                  *)
LEMMA Caller ==
  ASSUME SInv, NEW w \in Worker, Depth(w) > 1
  PROVE  /\ Under1(w) \in Frames /\ FrameOK(Under1(w)) /\ MayCall(Under1(w), Top(w))
         /\ Depth(w) - 1 \in Levels(w) /\ Under1(w) = stack[w][Depth(w) - 1]
<1>1. PICK s \in Seq(Frames) : s = stack[w]
  BY GoodParts
<1>2. Len(s) - 1 \in 1..(Len(s) - 1) /\ Len(s) - 1 \in Levels(w) /\ Depth(w) = Len(s)
  BY <1>1 DEF Depth, Levels
<1>3. Chain(w, s)
  BY <1>1, GoodParts DEF Shape
<1>4. MayCall(s[Len(s) - 1], s[Len(s)])
  <2>1. MayCall(s[Len(s) - 1], s[(Len(s) - 1) + 1])
    BY <1>2, <1>3 DEF Chain
  <2>2. (Len(s) - 1) + 1 = Len(s)
    BY <1>1
  <2> QED  BY <2>1, <2>2
<1>5. stack[w][Depth(w) - 1] \in Frames /\ FrameOK(stack[w][Depth(w) - 1])
  BY <1>2, GoodParts
<1> QED  BY <1>1, <1>2, <1>4, <1>5 DEF Under1, Top

(* What Become does to the stacks and the jobs.                            *)
LEMMA JobBecome ==
  ASSUME SInv, NEW w \in Worker, Depth(w) > 0, NEW f \in Frames, Become(w, f)
  PROVE  /\ Steps(w) /\ Depth(w)' = Depth(w) /\ Top(w)' = f
         /\ \A l \in 1..(Depth(w) - 1) : stack'[w][l] = stack[w][l]
         /\ SameBut(Job, Job', w, Depth(w)) /\ Job'[w][Depth(w)] = JobOf(f)
         /\ Job[w][Depth(w)] = JobOf(Top(w)) /\ Depth(w) \in Nat
<1>1. /\ TypeOK /\ Depth(w) \in Nat /\ Depth(w) \in Levels(w)
  BY GoodParts DEF SInv
<1>2. /\ stack' \in [Worker -> Seq(Frames)] /\ Depth(w)' = Depth(w) /\ stack'[w][Depth(w)] = f
      /\ \A l \in 1..(Depth(w) - 1) : stack'[w][l] = stack[w][l]
      /\ \A v \in Worker \ {w} : stack'[v] = stack[v]
  BY <1>1, BecomeStack
<1>3. \A v \in Worker : Levels(v)' = Levels(v)
  <2>1. \A v \in Worker \ {w} : Depth(v)' = Depth(v)
    BY <1>2 DEF Depth
  <2> QED  BY <1>2, <2>1 DEF Levels
<1>4. ASSUME NEW v \in Worker, NEW l \in Nat, v # w \/ l # Depth(w)
      PROVE  Job'[v][l] = Job[v][l]
  <2>1. l \in Levels(v) => stack'[v][l] = stack[v][l]
    BY <1>1, <1>2, <1>4 DEF Levels
  <2> QED  BY <1>3, <2>1, JobAt
<1>5. Job'[w][Depth(w)] = JobOf(f) /\ Job[w][Depth(w)] = JobOf(Top(w))
  BY <1>1, <1>2, <1>3, JobAt DEF Top
<1> QED  BY <1>1, <1>2, <1>4, <1>5 DEF Steps, SameBut, Top

(* What Call does to the stacks and the jobs.                              *)
LEMMA JobCall ==
  ASSUME SInv, NEW w \in Worker, Depth(w) > 0, NEW f \in Frames, NEW b \in Frames, Call(w, f, b)
  PROVE  /\ Steps(w) /\ Depth(w)' = Depth(w) + 1 /\ Top(w)' = f /\ Under1(w)' = b
         /\ \A l \in 1..(Depth(w) - 1) : stack'[w][l] = stack[w][l]
         /\ stack'[w][Depth(w)] = b /\ stack'[w][Depth(w) + 1] = f
         /\ \A v \in Worker, l \in Nat : ~(v = w /\ l \in {Depth(w), Depth(w) + 1}) =>
                                             Job'[v][l] = Job[v][l]
         /\ Job'[w][Depth(w)] = JobOf(b) /\ Job'[w][Depth(w) + 1] = JobOf(f)
         /\ Job[w][Depth(w)] = JobOf(Top(w)) /\ Job[w][Depth(w) + 1] = NoJob
         /\ Job[w][Depth(w) + 2] = NoJob /\ Depth(w) \in Nat /\ Depth(w) # 0
<1>1. /\ TypeOK /\ Depth(w) \in Nat /\ Depth(w) \in Levels(w)
  BY GoodParts DEF SInv
<1>2. /\ stack' \in [Worker -> Seq(Frames)] /\ Depth(w)' = Depth(w) + 1
      /\ stack'[w][Depth(w)] = b /\ stack'[w][Depth(w) + 1] = f
      /\ \A l \in 1..(Depth(w) - 1) : stack'[w][l] = stack[w][l]
      /\ \A v \in Worker \ {w} : stack'[v] = stack[v]
  BY <1>1, CallStack
<1>3. /\ \A v \in Worker \ {w} : Levels(v)' = Levels(v)
      /\ \A l \in Nat : l \in Levels(w)' <=> l \in Levels(w) \/ l = Depth(w) + 1
      /\ Depth(w) + 1 \notin Levels(w) /\ Depth(w) + 2 \notin Levels(w)
      /\ Depth(w) + 1 \in Nat /\ Depth(w) + 2 \in Nat
  <2>1. \A v \in Worker \ {w} : Depth(v)' = Depth(v)
    BY <1>2 DEF Depth
  <2> QED  BY <1>1, <1>2, <2>1 DEF Levels
<1>4. ASSUME NEW v \in Worker, NEW l \in Nat, ~(v = w /\ l \in {Depth(w), Depth(w) + 1})
      PROVE  Job'[v][l] = Job[v][l]
  <2>1. l \in Levels(v) => stack'[v][l] = stack[v][l]
    BY <1>1, <1>2, <1>4 DEF Levels
  <2> QED  BY <1>3, <1>4, <2>1, JobAt
<1>5. /\ Job'[w][Depth(w)] = JobOf(b) /\ Job'[w][Depth(w) + 1] = JobOf(f)
      /\ Job[w][Depth(w)] = JobOf(Top(w)) /\ Job[w][Depth(w) + 1] = NoJob
      /\ Job[w][Depth(w) + 2] = NoJob
  <2>1. Depth(w) \in Levels(w)'
    BY <1>1, <1>3
  <2> QED  BY <1>1, <1>2, <1>3, <2>1, JobAt DEF Top
<1>6. Top(w)' = f /\ Under1(w)' = b
  <2>1. (Depth(w) + 1) - 1 = Depth(w)
    BY <1>1
  <2> QED  BY <1>2, <2>1 DEF Top, Under1
<1> QED  BY <1>1, <1>2, <1>4, <1>5, <1>6 DEF Steps

(* What Return does to the stacks and the jobs.                            *)
LEMMA JobReturn ==
  ASSUME SInv, NEW w \in Worker, Depth(w) > 0, Return(w)
  PROVE  /\ Steps(w) /\ Depth(w)' = Depth(w) - 1
         /\ Depth(w) > 1 => Top(w)' = Under1(w) /\ MayCall(Under1(w), Top(w))
         /\ \A l \in 1..(Depth(w) - 1) : stack'[w][l] = stack[w][l]
         /\ SameBut(Job, Job', w, Depth(w)) /\ Job'[w][Depth(w)] = NoJob
         /\ Job[w][Depth(w)] = JobOf(Top(w)) /\ Job[w][Depth(w) + 1] = NoJob
         /\ Depth(w) \in Nat
<1>1. /\ TypeOK /\ Depth(w) \in Nat /\ Depth(w) \in Levels(w)
  BY GoodParts DEF SInv
<1>2. /\ stack' \in [Worker -> Seq(Frames)] /\ Depth(w)' = Depth(w) - 1
      /\ \A l \in 1..(Depth(w) - 1) : stack'[w][l] = stack[w][l]
      /\ \A v \in Worker \ {w} : stack'[v] = stack[v]
  BY <1>1, ReturnStack
<1>3. /\ \A v \in Worker \ {w} : Levels(v)' = Levels(v)
      /\ \A l \in Nat : l \in Levels(w)' <=> l \in Levels(w) /\ l # Depth(w)
      /\ Depth(w) + 1 \notin Levels(w) /\ Depth(w) + 1 \in Nat
  <2>1. \A v \in Worker \ {w} : Depth(v)' = Depth(v)
    BY <1>2 DEF Depth
  <2> QED  BY <1>1, <1>2, <2>1 DEF Levels
<1>4. ASSUME NEW v \in Worker, NEW l \in Nat, v # w \/ l # Depth(w)
      PROVE  Job'[v][l] = Job[v][l]
  <2>1. l \in Levels(v) => stack'[v][l] = stack[v][l]
    BY <1>1, <1>2, <1>4 DEF Levels
  <2> QED  BY <1>3, <1>4, <2>1, JobAt
<1>5. /\ Job'[w][Depth(w)] = NoJob
      /\ Job[w][Depth(w)] = JobOf(Top(w)) /\ Job[w][Depth(w) + 1] = NoJob
  BY <1>1, <1>2, <1>3, JobAt DEF Top
<1>6. Depth(w) > 1 => Top(w)' = Under1(w) /\ MayCall(Under1(w), Top(w))
  <2> SUFFICES ASSUME Depth(w) > 1  PROVE Top(w)' = Under1(w) /\ MayCall(Under1(w), Top(w))
    OBVIOUS
  <2>1. stack'[w][Depth(w) - 1] = stack[w][Depth(w) - 1]
    BY <1>1, <1>2
  <2> QED  BY <1>2, <2>1, Caller DEF Top, Under1
<1> QED  BY <1>1, <1>2, <1>4, <1>5, <1>6 DEF Steps, SameBut

(* Job is determined by its values.                                        *)
LEMMA JobSame ==
  ASSUME \A v \in Worker, l \in Nat : Job'[v][l] = Job[v][l]
  PROVE  Job' = Job
<1>1. \A v \in Worker : Job'[v] = Job[v]
  BY DEF Job
<1> QED  BY <1>1 DEF Job

(* The same, when one job was replaced by itself.                          *)
LEMMA JobSameBut ==
  ASSUME NEW w \in Worker, NEW n \in Nat, SameBut(Job, Job', w, n), Job'[w][n] = Job[w][n]
  PROVE  Job' = Job
BY JobSame DEF SameBut

(* The jobs after a step in which none begins or ends.                     *)
LEMMA JobQuiet ==
  ASSUME SInv, NEW w \in Worker, Depth(w) > 0
  PROVE  /\ \A f \in Frames : Become(w, f) /\ JobOf(f) = JobOf(Top(w)) => Job' = Job
         /\ \A f, b \in Frames : Call(w, f, b) /\ JobOf(b) = JobOf(Top(w)) /\ JobOf(f) = NoJob
                                   => Job' = Job
         /\ Return(w) /\ JobOf(Top(w)) = NoJob => Job' = Job
<1>1. ASSUME NEW f \in Frames, Become(w, f), JobOf(f) = JobOf(Top(w))
      PROVE  Job' = Job
  BY <1>1, JobBecome, JobSameBut
<1>2. ASSUME NEW f \in Frames, NEW b \in Frames, Call(w, f, b), JobOf(b) = JobOf(Top(w)),
             JobOf(f) = NoJob
      PROVE  Job' = Job
  <2>1. \A v \in Worker, l \in Nat : Job'[v][l] = Job[v][l]
    BY <1>2, JobCall
  <2> QED  BY <2>1, JobSame
<1>3. ASSUME Return(w), JobOf(Top(w)) = NoJob
      PROVE  Job' = Job
  BY <1>3, JobReturn, JobSameBut
<1> QED  BY <1>1, <1>2, <1>3

(* The calls that hold a sleeper, a signal or a claim.                     *)
LoudPc == HolderPc \cup SleepPc \cup {"release", "runStolenTask", "woken"}
Loud(w) == Depth(w) > 0 /\ Top(w).pc \in LoudPc

Muted1(w) ==
    /\ Held[w] = IF Depth(w) > 0 /\ Top(w).pc \in HolderPc THEN Top(w).other ELSE None
    /\ Freed[w] = IF At(w, "release") THEN Top(w).other ELSE None
    /\ Signalled[w] <=> semaphore[w] = 1 \/ At(w, "reset")
    /\ Signalled[w] \in BOOLEAN
    /\ w \in Injecting <=> At(w, "inject")
    /\ Claim[w] = IF At(w, "runStolenTask") THEN Top(w).ref
                  ELSE IF At(w, "inject") THEN <<w, Top(w).t>>
                  ELSE IF Pending(w) THEN injected[w] ELSE None
    /\ ~Loud(w) => /\ Held[w] = None /\ Freed[w] = None /\ Why[w] = "none" /\ Naps[w] = "no"
                   /\ Awaits[w] = None /\ ~Pending(w) /\ Claim[w] = None /\ ~At(w, "inject")
                   /\ ~At(w, "woken") /\ ~At(w, "reset") /\ w \notin Injecting

MutedFacts == \A w \in Worker : Muted1(w)

(* Each view of a thread, from its running call; a quiet one has none.     *)
LEMMA Muted == MutedFacts
<1> SUFFICES ASSUME NEW w \in Worker  PROVE Muted1(w)
  BY DEF MutedFacts
<1>1. /\ Held[w] = IF Depth(w) > 0 /\ Top(w).pc \in HolderPc THEN Top(w).other ELSE None
      /\ Freed[w] = IF At(w, "release") THEN Top(w).other ELSE None
      /\ w \in Injecting <=> At(w, "inject")
      /\ Claim[w] = IF At(w, "runStolenTask") THEN Top(w).ref
                       ELSE IF At(w, "inject") THEN <<w, Top(w).t>>
                       ELSE IF Pending(w) THEN injected[w] ELSE None
  BY DEF Held, Freed, Injecting, Claim
<1>2. /\ Signalled[w] <=> semaphore[w] = 1 \/ At(w, "reset")
      /\ Signalled[w] \in BOOLEAN
  <2>1. Signalled[w] = (semaphore[w] = 1 \/ At(w, "reset"))
    BY Zenon DEF Signalled
  <2> QED  BY <2>1, Zenon
<1>3. ASSUME ~Loud(w)
      PROVE  /\ Held[w] = None /\ Freed[w] = None /\ Why[w] = "none" /\ Naps[w] = "no"
             /\ Awaits[w] = None /\ ~Pending(w) /\ Claim[w] = None /\ ~At(w, "inject")
             /\ ~At(w, "woken") /\ ~At(w, "reset") /\ w \notin Injecting
  <2>1. /\ \A pc \in LoudPc : ~At(w, pc)
        /\ ~(Depth(w) > 0 /\ Top(w).pc \in HolderPc) /\ ~(Depth(w) > 1 /\ Top(w).pc \in SleepPc)
    <3>1. Depth(w) > 1 => Depth(w) > 0
      BY DEF Depth
    <3> QED  BY <1>3, <3>1 DEF Loud, LoudPc, At
  <2>2. /\ ~At(w, "release") /\ ~At(w, "inject") /\ ~At(w, "woken") /\ ~At(w, "reset")
        /\ ~At(w, "runStolenTask")
    BY <2>1 DEF LoudPc, HolderPc, SleepPc
  <2>3. Naps[w] = "no" /\ Why[w] = "none"
    BY <2>1, <2>2 DEF Naps, Why
  <2>4. Awaits[w] = None
    BY <2>3 DEF Awaits
  <2>5. ~Pending(w)
    BY <2>2, <2>3 DEF Pending
  <2> QED  BY <1>1, <2>1, <2>2, <2>3, <2>4, <2>5
<1> QED  BY <1>1, <1>2, <1>3 DEF Muted1

(* The same after the step.                                                *)
LEMMA MutedNext == MutedFacts'
BY Muted, PTL

(* What is read off the others' stacks stays.                              *)
LEMMA OtherViews ==
  ASSUME NEW w \in Worker, Steps(w), NEW v \in Worker, v # w
  PROVE  /\ Held'[v] = Held[v] /\ Freed'[v] = Freed[v] /\ Why'[v] = Why[v] /\ Naps'[v] = Naps[v]
         /\ Awaits'[v] = Awaits[v] /\ \A pc : At(v, pc)' <=> At(v, pc)
         /\ Depth(v)' = Depth(v) /\ Top(v)' = Top(v)
         /\ v \in Injecting' <=> v \in Injecting
         /\ semaphore'[v] = semaphore[v] => (Signalled'[v] <=> Signalled[v])
<1>1. Depth(v)' = Depth(v) /\ Top(v)' = Top(v) /\ Under1(v)' = Under1(v)
  BY DEF Steps, Depth, Top, Under1
<1>2. \A pc : At(v, pc)' <=> At(v, pc)
  BY <1>1 DEF At
<1>3. Held'[v] = Held[v] /\ Freed'[v] = Freed[v]
  BY <1>1, <1>2 DEF Held, Freed
<1>4. Why'[v] = Why[v] /\ Naps'[v] = Naps[v]
  BY <1>1, <1>2 DEF Why, Naps
<1>5. Awaits'[v] = Awaits[v]
  BY <1>1, <1>4 DEF Awaits
<1>6. v \in Injecting' <=> v \in Injecting
  BY <1>2 DEF Injecting
<1>7. ASSUME semaphore'[v] = semaphore[v]  PROVE Signalled'[v] <=> Signalled[v]
  <2>1. Signalled[v] = (semaphore[v] = 1 \/ At(v, "reset"))
    BY Zenon DEF Signalled
  <2>2. Signalled'[v] = (semaphore'[v] = 1 \/ At(v, "reset")')
    BY Zenon DEF Signalled
  <2>3. At(v, "reset")' <=> At(v, "reset")
    BY <1>2
  <2> QED  BY <1>7, <2>1, <2>2, <2>3
<1> QED  BY <1>1, <1>2, <1>3, <1>4, <1>5, <1>6, <1>7

(* A step from one quiet call to another.                                  *)
Hushed(w) == /\ Steps(w) /\ ~Loud(w) /\ ~Loud(w)'
             /\ UNCHANGED <<semaphore, injected, sleepers, stopped>>

(* A step from a quiet call to a quiet call changes no view.               *)
LEMMA HushedViews ==
  ASSUME NEW w \in Worker, Hushed(w)
  PROVE  \A v \in Worker :
           /\ Held'[v] = Held[v] /\ Freed'[v] = Freed[v] /\ Why'[v] = Why[v] /\ Naps'[v] = Naps[v]
           /\ Awaits'[v] = Awaits[v] /\ Claim'[v] = Claim[v] /\ (v \in Injecting' <=> v \in Injecting)
           /\ (Signalled'[v] <=> Signalled[v]) /\ (Pending(v)' <=> Pending(v))
           /\ (At(v, "woken")' <=> At(v, "woken"))
<1>1. /\ Held'[w] = None /\ Freed'[w] = None /\ Why'[w] = "none" /\ Naps'[w] = "no"
      /\ Awaits'[w] = None /\ ~Pending(w)' /\ Claim'[w] = None /\ ~At(w, "inject")'
      /\ ~At(w, "woken")' /\ ~At(w, "reset")' /\ w \notin Injecting'
  <2>1. ~Loud(w)' => /\ Held'[w] = None /\ Freed'[w] = None /\ Why'[w] = "none" /\ Naps'[w] = "no"
                     /\ Awaits'[w] = None /\ ~Pending(w)' /\ Claim'[w] = None /\ ~At(w, "inject")'
                     /\ ~At(w, "woken")' /\ ~At(w, "reset")' /\ w \notin Injecting'
    BY MutedNext DEF MutedFacts, Muted1
  <2> QED  BY <2>1 DEF Hushed
<1>2. /\ Held[w] = None /\ Freed[w] = None /\ Why[w] = "none" /\ Naps[w] = "no"
      /\ Awaits[w] = None /\ ~Pending(w) /\ Claim[w] = None /\ ~At(w, "inject")
      /\ ~At(w, "woken") /\ ~At(w, "reset") /\ w \notin Injecting
  BY Muted DEF MutedFacts, Muted1, Hushed
<1>3. \A v \in Worker : Held'[v] = Held[v] /\ Naps'[v] = Naps[v] /\ (At(v, "woken")' <=> At(v, "woken"))
  BY <1>1, <1>2, OtherViews DEF Hushed
<1>4. ASSUME NEW v \in Worker  PROVE Pending(v)' <=> Pending(v)
  <2>1. Listed(v)' <=> Listed(v)
    BY DEF Listed, Hushed
  <2> QED  BY <1>3, <2>1 DEF Pending, Hushed
<1>5. ASSUME NEW v \in Worker  PROVE Claim'[v] = Claim[v]
  <2>1. CASE v = w
    BY <1>1, <1>2, <2>1
  <2>2. CASE v # w
    <3>1. (\A pc : At(v, pc)' <=> At(v, pc)) /\ Top(v)' = Top(v)
      BY <2>2, OtherViews DEF Hushed
    <3> QED  BY <1>4, <3>1 DEF Claim, Hushed
  <2> QED  BY <2>1, <2>2
<1>6. ASSUME NEW v \in Worker  PROVE Signalled'[v] <=> Signalled[v]
  <2>1. CASE v = w
    <3>1. Signalled[w] <=> semaphore[w] = 1
      BY <1>2, Muted DEF MutedFacts, Muted1
    <3>2. Signalled'[w] <=> semaphore'[w] = 1 \/ At(w, "reset")'
      <4>1. Signalled'[w] = (semaphore'[w] = 1 \/ At(w, "reset")')
        BY Zenon DEF Signalled
      <4> QED  BY <4>1
    <3> QED  BY <1>1, <2>1, <3>1, <3>2 DEF Hushed
  <2>2. CASE v # w
    BY <2>2, OtherViews DEF Hushed
  <2> QED  BY <2>1, <2>2
<1> QED  BY <1>1, <1>2, <1>4, <1>5, <1>6, OtherViews DEF Hushed

(* A taken slot stays taken while it is below the head.                    *)
LEMMA TakenStays ==
  ASSUME Advance
  PROVE  \A v \in Worker, i \in Slot :
           i < Heads[v] /\ i \in TakenNow[v] => i \in TakenNow'[v]
<1> SUFFICES ASSUME NEW v \in Worker, NEW i \in Slot, i < Heads[v], i \in TakenNow[v]
             PROVE  i \in TakenNow'[v]
  OBVIOUS
<1>1. i \in Nat /\ i < deque[v].head /\ TakenSlot(deque[v], Now(v), i)
  BY SlotFacts DEF Heads, TakenNow
<1>2. Keeps(deque[v], Now(v), deque'[v], Now(v)')
  BY DEF Advance, Kept
<1>3. TakenSlot(deque'[v], Now(v)', i)
  BY <1>1, <1>2 DEF Keeps
<1> QED  BY <1>3 DEF TakenNow

-----------------------------------------------------------------------------
(* HOW A STEP CHANGES CLAIMS AND TOKENS                                    *)

(* Claims may be dropped, and slots that nobody claims may change.         *)
LEMMA ClaimsKeep ==
  ASSUME NEW C, NEW X, NEW H, NEW M, NEW T, Claims(C, X, H, M, T),
         NEW E, NEW Y, NEW I, NEW P, NEW U,
         \A v \in Worker : E[v] # None => E[v] = C[v] /\ (v \in X => v \in Y),
         \A v \in Worker, i \in Slot : i < H[v] /\ i \in T[v] => i \in U[v],
         \A v \in Worker, i \in Slot :
            i < H[v] /\ M[v][i] = "unset" /\ i \in T[v] /\ (\E u \in Worker : E[u] = <<v, i>>)
              => i < I[v] /\ P[v][i] = "unset"
  PROVE  Claims(E, Y, I, P, U)
<1> SUFFICES ASSUME NEW w \in Worker, E[w] # None
             PROVE  LET r == E[w] IN
                    /\ r \in Ref /\ r[2] < I[r[1]] /\ r[2] \in U[r[1]] /\ P[r[1]][r[2]] = "unset"
                    /\ \A v \in Worker : E[v] = r => v = w
                    /\ r[1] # w \/ w \in Y
  BY DEF Claims
<1>1. PICK r : r = E[w]
  OBVIOUS
<1>2. /\ r \in Ref /\ r[2] < H[r[1]] /\ r[2] \in T[r[1]] /\ M[r[1]][r[2]] = "unset"
      /\ (\A v \in Worker : C[v] = r => v = w) /\ (r[1] # w \/ w \in X) /\ r # None
  BY <1>1 DEF Claims
<1>3. PICK v \in Worker, i \in Slot : r = <<v, i>> /\ r[1] = v /\ r[2] = i
  BY <1>2, RefTypes
<1>4. i < I[v] /\ P[v][i] = "unset" /\ i \in U[v]
  <2>1. E[w] = <<v, i>> /\ i < H[v] /\ i \in T[v] /\ M[v][i] = "unset"
    BY <1>1, <1>2, <1>3
  <2> QED  BY <2>1
<1>5. \A u \in Worker : E[u] = r => u = w
  BY <1>1, <1>2
<1> QED  BY <1>1, <1>2, <1>3, <1>4, <1>5

(* One worker has a claim that nobody had.                                 *)
LEMMA ClaimsMore ==
  ASSUME NEW C, NEW X, NEW H, NEW M, NEW T, Claims(C, X, H, M, T),
         NEW E, NEW Y, NEW U, NEW w \in Worker, NEW v \in Worker, NEW i \in Slot,
         E[w] = <<v, i>>, \A u \in Worker \ {w} : E[u] = C[u] /\ (u \in X => u \in Y),
         v # w \/ w \in Y, i < H[v], i \notin T[v], i \in U[v], M[v][i] = "unset",
         \A u \in Worker, j \in Slot : j < H[u] /\ j \in T[u] => j \in U[u]
  PROVE  Claims(E, Y, H, M, U)
<1>1. \A u \in Worker \ {w} : C[u] # <<v, i>>
  <2> SUFFICES ASSUME NEW u \in Worker, C[u] = <<v, i>>  PROVE FALSE
    OBVIOUS
  <2>1. <<v, i>> # None
    BY SlotFacts, StealingAssumption
  <2>2. <<v, i>>[2] \in T[<<v, i>>[1]]
    BY <2>1 DEF Claims
  <2> QED  BY <2>2
<1> SUFFICES ASSUME NEW u \in Worker, E[u] # None
             PROVE  LET r == E[u] IN
                    /\ r \in Ref /\ r[2] < H[r[1]] /\ r[2] \in U[r[1]] /\ M[r[1]][r[2]] = "unset"
                    /\ \A x \in Worker : E[x] = r => x = u
                    /\ r[1] # u \/ u \in Y
  BY DEF Claims
<1>2. CASE u = w
  <2>1. <<v, i>> \in Ref
    BY DEF Ref
  <2>2. \A x \in Worker : E[x] = <<v, i>> => x = w
    BY <1>1
  <2> QED  BY <1>2, <2>1, <2>2
<1>3. CASE u # w
  <2>1. PICK r : r = E[u]
    OBVIOUS
  <2>2. /\ r \in Ref /\ r[2] < H[r[1]] /\ r[2] \in T[r[1]] /\ M[r[1]][r[2]] = "unset"
        /\ (\A x \in Worker : C[x] = r => x = u) /\ (r[1] # u \/ u \in X) /\ r = C[u]
    BY <1>3, <2>1 DEF Claims
  <2>3. PICK y \in Worker, j \in Slot : r = <<y, j>> /\ r[1] = y /\ r[2] = j
    BY <2>2, RefTypes
  <2>4. r # <<v, i>>
    BY <1>1, <1>3, <2>2
  <2>5. \A x \in Worker : E[x] = r => x = u
    BY <2>2, <2>4
  <2>6. j \in U[y]
    BY <2>2, <2>3
  <2> QED  BY <1>3, <2>1, <2>2, <2>3, <2>5, <2>6
<1> QED  BY <1>2, <1>3

(* Untaken is kept when only taken slots are marked.                       *)
LEMMA UntakenNext ==
  ASSUME UntakenNow, Advance,
         \A v \in Worker, i \in Slot : i < Heads'[v] =>
           \/ stealer'[v][i] = "unset"
           \/ i < Heads[v] /\ (stealer'[v][i] = stealer[v][i] \/ stealer[v][i] # "unset"
                                 \/ i \in TakenNow[v])
  PROVE  UntakenNow'
<1>1. ASSUME NEW v \in Worker, NEW i \in Slot, i < Heads'[v], i \notin TakenNow'[v]
      PROVE  stealer'[v][i] = "unset"
  BY <1>1, TakenStays DEF UntakenNow, Untaken
<1> QED  BY <1>1 DEF UntakenNow, Untaken

(* The waits of a stack, when only its running call is another.            *)
LEMMA WaitsStay ==
  ASSUME NEW w \in Worker, NEW s \in Seq(Frames), NEW M, Waits(w, s, M),
         NEW z \in Seq(Frames), NEW P,
         \A l \in 1..Len(z) :
           \/ l \in 1..Len(s) /\ z[l] = s[l]
           \/ /\ z[l].pc \in WaitPc \ {"stolen"} => P[w][z[l].ref[2]] # "unset"
              /\ z[l].pc \in {"leap", "leapSteal", "leapt", "yieldSteal", "randomSteal"} => z[l].other # w,
         Len(z) > 0 /\ z[Len(z)].pc = "popStolen" => P[w][z[Len(z)].ref[2]] = "finished",
         \A l \in 1..Len(s) : s[l].pc \in WaitPc =>
           (M[w][s[l].ref[2]] # "unset" => P[w][s[l].ref[2]] # "unset")
  PROVE  Waits(w, z, P)
<1>1. ASSUME NEW l \in 1..Len(z), z[l].pc \in WaitPc \ {"stolen"}
      PROVE  P[w][z[l].ref[2]] # "unset"
  <2>1. CASE l \in 1..Len(s) /\ z[l] = s[l]
    BY <1>1, <2>1 DEF Waits
  <2> QED  BY <1>1, <2>1
<1>2. ASSUME NEW l \in 1..Len(z),
             z[l].pc \in {"leap", "leapSteal", "leapt", "yieldSteal", "randomSteal"}
      PROVE  z[l].other # w
  <2>1. CASE l \in 1..Len(s) /\ z[l] = s[l]
    BY <1>2, <2>1 DEF Waits
  <2> QED  BY <1>2, <2>1
<1> QED  BY <1>1, <1>2 DEF Waits

(* The same views, but for the sleeper w holds, the one it signals and why,*)
(* how it sleeps itself, for what, and its signal.                         *)
SameViews(w, C, F, Y, N, A, G, C2, F2, Y2, N2, A2, G2) ==
  \A v \in Worker \ {w} :
    /\ C2[v] = C[v] /\ F2[v] = F[v] /\ Y2[v] = Y[v] /\ N2[v] = N[v] /\ A2[v] = A[v]
    /\ (G2[v] <=> G[v])

(* Tokens is kept by what changes no view and ends no wait.                *)
LEMMA TokensKeep ==
  ASSUME NEW L, NEW C, NEW F, NEW Y, NEW N, NEW A, NEW G, NEW M, Tokens(L, C, F, Y, N, A, G, M),
         NEW C2, NEW F2, NEW Y2, NEW N2, NEW A2, NEW G2, NEW P,
         \A v \in Worker :
           /\ C2[v] = C[v] /\ F2[v] = F[v] /\ Y2[v] = Y[v] /\ N2[v] = N[v] /\ A2[v] = A[v]
           /\ (G2[v] <=> G[v]),
         L \in Seq(Worker),
         \A v \in Worker, i \in Slot : \/ P[v][i] = M[v][i]
                                       \/ P[v][i] = "unset" /\ N[v] # "end"
                                       \/ P[v][i] = "finished" /\ M[v][i] # v
                                       \/ P[v][i] # v /\ M[v][i] \notin {v, "finished"}
  PROVE  Tokens(L, C2, F2, Y2, N2, A2, G2, P)
<1>0. \A n \in DOMAIN L : L[n] \in Worker
  OBVIOUS
<1>1. \A v \in Worker, i \in Slot : P[v][i] = v => M[v][i] = v
  BY StealingAssumption
<1>2. ASSUME NEW v \in Worker, N[v] = "end"
      PROVE  A[v] \in Ref /\ A[v][1] = v /\ P[v][A[v][2]] \in {v, "finished"}
  <2>1. A[v] \in Ref /\ A[v][1] = v /\ M[v][A[v][2]] \in {v, "finished"}
    BY <1>2 DEF Tokens
  <2>2. A[v][2] \in Slot
    BY <2>1, RefTypes
  <2> QED  BY <1>2, <2>1, <2>2
<1>3. \A n \in DOMAIN L : LET v == L[n] IN N2[v] = "task" /\ ~G2[v] /\ \A w \in Worker : C2[w] # v /\ F2[w] # v
  BY <1>0 DEF Tokens
<1>4. \A w \in Worker : C2[w] # None => LET v == C2[w] IN
       /\ v \in Worker /\ N2[v] = "task" /\ ~G2[v] /\ \A u \in Worker : F2[u] # v /\ (C2[u] = v => u = w)
  BY DEF Tokens
<1>5. \A w \in Worker : F2[w] # None => LET v == F2[w] IN
       /\ v \in Worker /\ N2[v] = Y2[w] /\ ~G2[v] /\ (\A u \in Worker : F2[u] = v => u = w) /\ \A i \in Slot : P[v][i] # v
  BY <1>1 DEF Tokens
<1>6. \A v \in Worker : G2[v] => N2[v] # "no" /\ \A i \in Slot : P[v][i] # v
  BY <1>1 DEF Tokens
<1>7. \A v \in Worker, i \in Slot : P[v][i] = v => N2[v] = "end" /\ A2[v] = <<v, i>>
  BY <1>1 DEF Tokens
<1>8. \A m, n \in DOMAIN L : L[m] = L[n] => m = n
  BY DEF Tokens
<1> QED  BY <1>2, <1>3, <1>4, <1>5, <1>6, <1>7, <1>8 DEF Tokens

(* The first of the list is held by who took it off.                       *)
LEMMA TokensPop ==
  ASSUME NEW L \in Seq(Worker), L # <<>>, NEW C, NEW F, NEW Y, NEW N, NEW A, NEW G, NEW M,
         Tokens(L, C, F, Y, N, A, G, M),
         NEW C2, NEW F2, NEW Y2, NEW N2, NEW A2, NEW G2, NEW w \in Worker,
         SameViews(w, C, F, Y, N, A, G, C2, F2, Y2, N2, A2, G2),
         C2[w] = Head(L), F2[w] = F[w], Y2[w] = Y[w], N2[w] = N[w], A2[w] = A[w], G2[w] <=> G[w]
  PROVE  Tokens(Tail(L), C2, F2, Y2, N2, A2, G2, M)
<1> DEFINE K == Tail(L)
           x == Head(L)
<1>1. /\ x \in Worker /\ x = L[1] /\ 1 \in DOMAIN L
      /\ \A n \in DOMAIN K : n + 1 \in DOMAIN L /\ K[n] = L[n + 1] /\ n + 1 # 1 /\ n \in Nat
  OBVIOUS
<1>2. \A n \in DOMAIN K : K[n] # x /\ K[n] \in Worker
  BY <1>1 DEF Tokens
<1>3. \A m, n \in DOMAIN K : K[m] = K[n] => m = n
  BY <1>1 DEF Tokens
<1>4. N[x] = "task" /\ ~G[x] /\ \A u \in Worker : C[u] # x /\ F[u] # x
  BY <1>1 DEF Tokens
<1> HIDE DEF K, x
<1>5. \A v \in Worker : F2[v] = F[v] /\ Y2[v] = Y[v] /\ N2[v] = N[v] /\ A2[v] = A[v] /\ (G2[v] <=> G[v])
  BY DEF SameViews
<1>6. \A v \in Worker : C2[v] = C[v] \/ (v = w /\ C2[v] = x)
  BY DEF SameViews, x
<1>7. \A n \in DOMAIN K : N[K[n]] = "task" /\ ~G[K[n]] /\ \A u \in Worker : C[u] # K[n] /\ F[u] # K[n]
  BY <1>1 DEF Tokens
<1>8. \A n \in DOMAIN K : LET v == K[n] IN N2[v] = "task" /\ ~G2[v] /\ \A u \in Worker : C2[u] # v /\ F2[u] # v
  BY <1>2, <1>5, <1>6, <1>7
<1>9. \A u \in Worker : C2[u] # None => LET v == C2[u] IN
       /\ v \in Worker /\ N2[v] = "task" /\ ~G2[v] /\ \A y \in Worker : F2[y] # v /\ (C2[y] = v => y = u)
  BY <1>1, <1>4, <1>5, <1>6 DEF Tokens
<1>10. \A u \in Worker : F2[u] # None => LET v == F2[u] IN
       /\ v \in Worker /\ N2[v] = Y2[u] /\ ~G2[v] /\ (\A y \in Worker : F2[y] = v => y = u) /\ \A i \in Slot : M[v][i] # v
  BY <1>5 DEF Tokens
<1>11. /\ \A v \in Worker : G2[v] => N2[v] # "no" /\ \A i \in Slot : M[v][i] # v
       /\ \A v \in Worker, i \in Slot : M[v][i] = v => N2[v] = "end" /\ A2[v] = <<v, i>>
       /\ \A v \in Worker : N2[v] = "end" => A2[v] \in Ref /\ A2[v][1] = v /\ M[v][A2[v][2]] \in {v, "finished"}
  BY <1>5 DEF Tokens
<1> QED  BY <1>3, <1>8, <1>9, <1>10, <1>11 DEF Tokens, K

(* The held one is put back on the list.                                   *)
LEMMA TokensBack ==
  ASSUME NEW L \in Seq(Worker), NEW C, NEW F, NEW Y, NEW N, NEW A, NEW G, NEW M,
         Tokens(L, C, F, Y, N, A, G, M),
         NEW C2, NEW F2, NEW Y2, NEW N2, NEW A2, NEW G2, NEW w \in Worker,
         SameViews(w, C, F, Y, N, A, G, C2, F2, Y2, N2, A2, G2),
         C[w] # None, C2[w] = None, F2[w] = F[w], Y2[w] = Y[w], N2[w] = N[w], A2[w] = A[w],
         G2[w] <=> G[w]
  PROVE  Tokens(<<C[w]>> \o L, C2, F2, Y2, N2, A2, G2, M)
<1> DEFINE x == C[w]
           K == <<x>> \o L
<1>0. /\ x \in Worker /\ N[x] = "task" /\ ~G[x] /\ \A u \in Worker : F[u] # x /\ (C[u] = x => u = w)
  BY DEF Tokens
<1>1. /\ \A n \in DOMAIN K : (n = 1 /\ K[n] = x) \/ (n - 1 \in DOMAIN L /\ K[n] = L[n - 1])
      /\ \A n \in DOMAIN K : n \in Nat
      /\ \A n \in DOMAIN L : L[n] \in Worker
  BY <1>0
<1>2. \A n \in DOMAIN L : L[n] # x /\ N[L[n]] = "task" /\ ~G[L[n]] /\ \A u \in Worker : C[u] # L[n] /\ F[u] # L[n]
  BY DEF Tokens
<1> HIDE DEF K, x
<1>3. \A m, n \in DOMAIN K : K[m] = K[n] => m = n
  <2> SUFFICES ASSUME NEW m \in DOMAIN K, NEW n \in DOMAIN K, K[m] = K[n]  PROVE m = n
    OBVIOUS
  <2>1. CASE m = 1 /\ K[m] = x
    BY <1>1, <1>2, <2>1
  <2>2. CASE m - 1 \in DOMAIN L /\ K[m] = L[m - 1]
    <3>1. n - 1 \in DOMAIN L /\ K[n] = L[n - 1]
      BY <1>1, <1>2, <2>2
    <3>2. L[m - 1] = L[n - 1]
      BY <2>2, <3>1
    <3>4. m - 1 = n - 1
      BY <2>2, <3>1, <3>2 DEF Tokens
    <3> QED  BY <1>1, <3>4
  <2> QED  BY <1>1, <2>1, <2>2
<1>5. \A v \in Worker : F2[v] = F[v] /\ Y2[v] = Y[v] /\ N2[v] = N[v] /\ A2[v] = A[v] /\ (G2[v] <=> G[v])
  BY DEF SameViews
<1>6. \A v \in Worker : (C2[v] = C[v] /\ v # w) \/ (v = w /\ C2[v] = None)
  BY DEF SameViews
<1>7. \A n \in DOMAIN K : /\ K[n] \in Worker /\ N[K[n]] = "task" /\ ~G[K[n]]
                          /\ \A u \in Worker : (C[u] = K[n] => u = w) /\ F[u] # K[n]
  BY <1>0, <1>1, <1>2
<1>8. \A n \in DOMAIN K : LET v == K[n] IN N2[v] = "task" /\ ~G2[v] /\ \A u \in Worker : C2[u] # v /\ F2[u] # v
  <2>1. None \notin Worker
    BY StealingAssumption
  <2> SUFFICES ASSUME NEW n \in DOMAIN K, NEW v, v = K[n]
               PROVE  N2[v] = "task" /\ ~G2[v] /\ \A u \in Worker : C2[u] # v /\ F2[u] # v
    OBVIOUS
  <2>2. v \in Worker /\ N[v] = "task" /\ ~G[v] /\ \A u \in Worker : (C[u] = v => u = w) /\ F[u] # v
    BY <1>7
  <2> QED  BY <1>5, <1>6, <2>1, <2>2
<1>9. \A u \in Worker : C2[u] # None => LET v == C2[u] IN
       /\ v \in Worker /\ N2[v] = "task" /\ ~G2[v] /\ \A y \in Worker : F2[y] # v /\ (C2[y] = v => y = u)
  BY <1>5, <1>6 DEF Tokens
<1>10. \A u \in Worker : F2[u] # None => LET v == F2[u] IN
       /\ v \in Worker /\ N2[v] = Y2[u] /\ ~G2[v] /\ (\A y \in Worker : F2[y] = v => y = u) /\ \A i \in Slot : M[v][i] # v
  BY <1>5 DEF Tokens
<1>11. /\ \A v \in Worker : G2[v] => N2[v] # "no" /\ \A i \in Slot : M[v][i] # v
       /\ \A v \in Worker, i \in Slot : M[v][i] = v => N2[v] = "end" /\ A2[v] = <<v, i>>
       /\ \A v \in Worker : N2[v] = "end" => A2[v] \in Ref /\ A2[v][1] = v /\ M[v][A2[v][2]] \in {v, "finished"}
  BY <1>5 DEF Tokens
<1> QED  BY <1>3, <1>8, <1>9, <1>10, <1>11 DEF Tokens, K, x

(* The held one gets a task and is to be signalled.                        *)
LEMMA TokensInject ==
  ASSUME NEW L \in Seq(Worker), NEW C, NEW F, NEW Y, NEW N, NEW A, NEW G, NEW M,
         Tokens(L, C, F, Y, N, A, G, M),
         NEW C2, NEW F2, NEW Y2, NEW N2, NEW A2, NEW G2, NEW w \in Worker,
         SameViews(w, C, F, Y, N, A, G, C2, F2, Y2, N2, A2, G2),
         C[w] # None, C2[w] = None, F2[w] = C[w], Y2[w] = "task", N2[w] = N[w], A2[w] = A[w],
         G2[w] <=> G[w]
  PROVE  Tokens(L, C2, F2, Y2, N2, A2, G2, M)
<1> DEFINE x == C[w]
<1>0. /\ x \in Worker /\ N[x] = "task" /\ ~G[x] /\ \A u \in Worker : F[u] # x /\ (C[u] = x => u = w)
  BY DEF Tokens
<1>1. /\ \A n \in DOMAIN L : L[n] \in Worker /\ L[n] # x
  BY DEF Tokens
<1> HIDE DEF x
<1>5. \A v \in Worker : N2[v] = N[v] /\ A2[v] = A[v] /\ (G2[v] <=> G[v])
  BY DEF SameViews
<1>6. \A v \in Worker : /\ (C2[v] = C[v] /\ v # w) \/ (v = w /\ C2[v] = None)
                        /\ (F2[v] = F[v] /\ Y2[v] = Y[v] /\ v # w) \/ (v = w /\ F2[v] = x /\ Y2[v] = "task")
  BY DEF SameViews, x
<1>8. \A n \in DOMAIN L : LET v == L[n] IN N2[v] = "task" /\ ~G2[v] /\ \A u \in Worker : C2[u] # v /\ F2[u] # v
  <2>1. None \notin Worker
    BY StealingAssumption
  <2> SUFFICES ASSUME NEW n \in DOMAIN L, NEW v, v = L[n]
               PROVE  N2[v] = "task" /\ ~G2[v] /\ \A u \in Worker : C2[u] # v /\ F2[u] # v
    OBVIOUS
  <2>2. v \in Worker /\ v # x /\ N[v] = "task" /\ ~G[v] /\ \A u \in Worker : C[u] # v /\ F[u] # v
    BY <1>1 DEF Tokens
  <2> QED  BY <1>5, <1>6, <2>1, <2>2
<1>9. \A u \in Worker : C2[u] # None => LET v == C2[u] IN
       /\ v \in Worker /\ N2[v] = "task" /\ ~G2[v] /\ \A y \in Worker : F2[y] # v /\ (C2[y] = v => y = u)
  <2>1. \A u \in Worker : C[u] # None /\ u # w => C[u] # x
    BY <1>0
  <2> QED  BY <1>5, <1>6, <2>1 DEF Tokens
<1>10. \A u \in Worker : F2[u] # None => LET v == F2[u] IN
       /\ v \in Worker /\ N2[v] = Y2[u] /\ ~G2[v] /\ (\A y \in Worker : F2[y] = v => y = u) /\ \A i \in Slot : M[v][i] # v
  <2>1. \A i \in Slot : M[x][i] # x
    BY <1>0 DEF Tokens
  <2> QED  BY <1>0, <1>5, <1>6, <2>1 DEF Tokens
<1>11. /\ \A v \in Worker : G2[v] => N2[v] # "no" /\ \A i \in Slot : M[v][i] # v
       /\ \A v \in Worker, i \in Slot : M[v][i] = v => N2[v] = "end" /\ A2[v] = <<v, i>>
       /\ \A v \in Worker : N2[v] = "end" => A2[v] \in Ref /\ A2[v][1] = v /\ M[v][A2[v][2]] \in {v, "finished"}
  BY <1>5 DEF Tokens
<1>12. \A m, n \in DOMAIN L : L[m] = L[n] => m = n
  BY DEF Tokens
<1> QED  BY <1>8, <1>9, <1>10, <1>11, <1>12 DEF Tokens

(* The thief that ends a call is to signal the owner that waits for it.    *)
LEMMA TokensEnd ==
  ASSUME NEW L \in Seq(Worker), NEW C, NEW F, NEW Y, NEW N, NEW A, NEW G, NEW M,
         Tokens(L, C, F, Y, N, A, G, M),
         NEW C2, NEW F2, NEW Y2, NEW N2, NEW A2, NEW G2, NEW w \in Worker,
         SameViews(w, C, F, Y, N, A, G, C2, F2, Y2, N2, A2, G2),
         NEW x \in Worker, NEW i \in Slot, M[x][i] = x, NEW P, P[x][i] = "finished", SameSlots(M, P, x, i),
         C[w] = None, C2[w] = None, F2[w] = x, Y2[w] = "end", N2[w] = N[w], A2[w] = A[w],
         G2[w] <=> G[w]
  PROVE  Tokens(L, C2, F2, Y2, N2, A2, G2, P)
<1>0. /\ N[x] = "end" /\ A[x] = <<x, i>> /\ ~G[x] /\ \A j \in Slot : M[x][j] = x => j = i
  <2>1. N[x] = "end" /\ A[x] = <<x, i>> /\ ~G[x]
    BY DEF Tokens
  <2>2. ASSUME NEW j \in Slot, M[x][j] = x  PROVE j = i
    <3>1. A[x] = <<x, j>>
      BY <2>2 DEF Tokens
    <3> QED  BY <2>1, <3>1
  <2> QED  BY <2>1, <2>2
<1>1. /\ \A n \in DOMAIN L : L[n] \in Worker /\ L[n] # x
      /\ \A u \in Worker : C[u] # x /\ F[u] # x
  <2>1. None \notin Worker
    BY StealingAssumption
  <2>2. \A u \in Worker : F[u] # x
    BY <2>1 DEF Tokens
  <2>3. \A u \in Worker : C[u] # x
    BY <1>0, <2>1 DEF Tokens
  <2>4. \A n \in DOMAIN L : L[n] \in Worker /\ L[n] # x
    BY <1>0 DEF Tokens
  <2> QED  BY <2>2, <2>3, <2>4
<1>2. /\ \A v \in Worker, j \in Slot : P[v][j] = v => M[v][j] = v /\ ~(v = x /\ j = i)
      /\ \A v \in Worker, j \in Slot : P[v][j] = M[v][j] \/ P[v][j] = "finished"
  <2>1. "finished" \notin Worker
    BY StealingAssumption
  <2>2. \A v \in Worker, j \in Slot : P[v][j] = M[v][j] \/ (v = x /\ j = i)
    BY DEF SameSlots
  <2> QED  BY <2>1, <2>2
<1>5. \A v \in Worker : C2[v] = C[v] /\ N2[v] = N[v] /\ A2[v] = A[v] /\ (G2[v] <=> G[v])
  BY DEF SameViews
<1>6. \A v \in Worker : (F2[v] = F[v] /\ Y2[v] = Y[v] /\ v # w) \/ (v = w /\ F2[v] = x /\ Y2[v] = "end")
  BY DEF SameViews
<1>8. \A n \in DOMAIN L : LET v == L[n] IN N2[v] = "task" /\ ~G2[v] /\ \A u \in Worker : C2[u] # v /\ F2[u] # v
  <2> SUFFICES ASSUME NEW n \in DOMAIN L, NEW v, v = L[n]
               PROVE  N2[v] = "task" /\ ~G2[v] /\ \A u \in Worker : C2[u] # v /\ F2[u] # v
    OBVIOUS
  <2>2. v \in Worker /\ v # x /\ N[v] = "task" /\ ~G[v] /\ \A u \in Worker : C[u] # v /\ F[u] # v
    BY <1>1 DEF Tokens
  <2> QED  BY <1>5, <1>6, <2>2
<1>9. \A u \in Worker : C2[u] # None => LET v == C2[u] IN
       /\ v \in Worker /\ N2[v] = "task" /\ ~G2[v] /\ \A y \in Worker : F2[y] # v /\ (C2[y] = v => y = u)
  BY <1>1, <1>5, <1>6 DEF Tokens
<1>10. \A u \in Worker : F2[u] # None => LET v == F2[u] IN
       /\ v \in Worker /\ N2[v] = Y2[u] /\ ~G2[v] /\ (\A y \in Worker : F2[y] = v => y = u) /\ \A j \in Slot : P[v][j] # v
  <2>1. \A j \in Slot : P[x][j] # x
    BY <1>0, <1>2
  <2>2. \A u \in Worker : F[u] # None => \A j \in Slot : P[F[u]][j] # F[u]
    BY <1>2 DEF Tokens
  <2> QED  BY <1>0, <1>1, <1>5, <1>6, <2>1, <2>2 DEF Tokens
<1>11. /\ \A v \in Worker : G2[v] => N2[v] # "no" /\ \A j \in Slot : P[v][j] # v
       /\ \A v \in Worker, j \in Slot : P[v][j] = v => N2[v] = "end" /\ A2[v] = <<v, j>>
  BY <1>2, <1>5 DEF Tokens
<1>13. ASSUME NEW v \in Worker, N2[v] = "end"
       PROVE  A2[v] \in Ref /\ A2[v][1] = v /\ P[v][A2[v][2]] \in {v, "finished"}
  <2>1. A[v] \in Ref /\ A[v][1] = v /\ M[v][A[v][2]] \in {v, "finished"} /\ A2[v] = A[v]
    BY <1>5, <1>13 DEF Tokens
  <2>2. A[v][2] \in Slot
    BY <2>1, RefTypes
  <2> QED  BY <1>2, <2>1, <2>2
<1>12. \A m, n \in DOMAIN L : L[m] = L[n] => m = n
  BY DEF Tokens
<1> QED  BY <1>8, <1>9, <1>10, <1>11, <1>12, <1>13 DEF Tokens

(* An owner leaves its name and sleeps.                                    *)
LEMMA TokensAsk ==
  ASSUME NEW L \in Seq(Worker), NEW C, NEW F, NEW Y, NEW N, NEW A, NEW G, NEW M,
         Tokens(L, C, F, Y, N, A, G, M),
         NEW C2, NEW F2, NEW Y2, NEW N2, NEW A2, NEW G2, NEW w \in Worker,
         SameViews(w, C, F, Y, N, A, G, C2, F2, Y2, N2, A2, G2),
         NEW i \in Slot, NEW P, P[w][i] = w, SameSlots(M, P, w, i), N[w] = "no",
         C[w] = None, F[w] = None, \A u \in Worker : Y[u] # "no",
         C2[w] = None, F2[w] = None, N2[w] = "end", A2[w] = <<w, i>>, G2[w] <=> G[w]
  PROVE  Tokens(L, C2, F2, Y2, N2, A2, G2, P)
<1>0. /\ \A n \in DOMAIN L : L[n] \in Worker /\ L[n] # w
      /\ \A u \in Worker : C[u] # w
      /\ ~G[w] /\ \A j \in Slot : M[w][j] # w
  <2>1. None \notin Worker
    BY StealingAssumption
  <2>2. \A n \in DOMAIN L : L[n] \in Worker /\ L[n] # w
    BY DEF Tokens
  <2>3. \A u \in Worker : C[u] # w
    BY <2>1 DEF Tokens
  <2>4. ~G[w] /\ \A j \in Slot : M[w][j] # w
    BY DEF Tokens
  <2> QED  BY <2>2, <2>3, <2>4
<1>2. \A v \in Worker, j \in Slot : P[v][j] = M[v][j] \/ (v = w /\ j = i /\ P[v][j] = w)
  BY SlotFacts DEF SameSlots
<1>5. \A v \in Worker : C2[v] = C[v] /\ F2[v] = F[v] /\ (G2[v] <=> G[v])
  BY DEF SameViews
<1>6. \A v \in Worker : \/ v # w /\ N2[v] = N[v] /\ A2[v] = A[v] /\ Y2[v] = Y[v]
                        \/ v = w /\ N2[v] = "end" /\ A2[v] = <<w, i>>
  BY DEF SameViews
<1>8. \A n \in DOMAIN L : LET v == L[n] IN N2[v] = "task" /\ ~G2[v] /\ \A u \in Worker : C2[u] # v /\ F2[u] # v
  <2> SUFFICES ASSUME NEW n \in DOMAIN L, NEW v, v = L[n]
               PROVE  N2[v] = "task" /\ ~G2[v] /\ \A u \in Worker : C2[u] # v /\ F2[u] # v
    OBVIOUS
  <2>2. v \in Worker /\ v # w /\ N[v] = "task" /\ ~G[v] /\ \A u \in Worker : C[u] # v /\ F[u] # v
    BY <1>0 DEF Tokens
  <2> QED  BY <1>5, <1>6, <2>2
<1>9. \A u \in Worker : C2[u] # None => LET v == C2[u] IN
       /\ v \in Worker /\ N2[v] = "task" /\ ~G2[v] /\ \A y \in Worker : F2[y] # v /\ (C2[y] = v => y = u)
  BY <1>0, <1>5, <1>6 DEF Tokens
<1>10. ASSUME NEW u \in Worker, F2[u] # None, NEW v, v = F2[u]
       PROVE  /\ v \in Worker /\ N2[v] = Y2[u] /\ ~G2[v] /\ (\A y \in Worker : F2[y] = v => y = u)
              /\ \A j \in Slot : P[v][j] # v
  <2>1. /\ v \in Worker /\ N[v] = Y[u] /\ ~G[v] /\ (\A y \in Worker : F[y] = v => y = u)
        /\ \A j \in Slot : M[v][j] # v
    BY <1>5, <1>10 DEF Tokens
  <2>2. v # w /\ u # w
    BY <1>5, <1>10, <2>1
  <2> QED  BY <1>2, <1>5, <1>6, <2>1, <2>2
<1>11. /\ \A v \in Worker : G2[v] => N2[v] # "no" /\ \A j \in Slot : P[v][j] # v
       /\ \A v \in Worker, j \in Slot : P[v][j] = v => N2[v] = "end" /\ A2[v] = <<v, j>>
  <2>1. ASSUME NEW v \in Worker, G2[v]
        PROVE  N2[v] # "no" /\ \A j \in Slot : P[v][j] # v
    <3>1. v # w /\ N[v] # "no" /\ \A j \in Slot : M[v][j] # v
      BY <1>0, <1>5, <2>1 DEF Tokens
    <3> QED  BY <1>2, <1>6, <3>1
  <2>2. ASSUME NEW v \in Worker, NEW j \in Slot, P[v][j] = v
        PROVE  N2[v] = "end" /\ A2[v] = <<v, j>>
    <3>1. CASE v = w
      BY <1>0, <1>2, <1>6, <2>2, <3>1
    <3>2. CASE v # w
      BY <1>2, <1>6, <2>2, <3>2 DEF Tokens
    <3> QED  BY <3>1, <3>2
  <2> QED  BY <2>1, <2>2
<1>13. ASSUME NEW v \in Worker, N2[v] = "end"
       PROVE  A2[v] \in Ref /\ A2[v][1] = v /\ P[v][A2[v][2]] \in {v, "finished"}
  <2>1. CASE v = w
    <3>1. A2[v] = <<w, i>> /\ <<w, i>> \in Ref /\ <<w, i>>[1] = w /\ <<w, i>>[2] = i
      BY <1>6, <2>1 DEF Ref
    <3> QED  BY <2>1, <3>1
  <2>2. CASE v # w
    <3>1. A[v] \in Ref /\ A[v][1] = v /\ M[v][A[v][2]] \in {v, "finished"} /\ A2[v] = A[v]
      BY <1>6, <1>13, <2>2 DEF Tokens
    <3>2. A[v][2] \in Slot
      BY <3>1, RefTypes
    <3> QED  BY <1>2, <2>2, <3>1, <3>2
  <2> QED  BY <2>1, <2>2
<1>12. \A m, n \in DOMAIN L : L[m] = L[n] => m = n
  BY DEF Tokens
<1> QED  BY <1>8, <1>9, <1>10, <1>11, <1>12, <1>13 DEF Tokens

Frees(w, C, F, Y, N, A, G, C2, F2, Y2, N2, A2, G2) ==
  /\ F[w] # None /\ F2[w] = None /\ G2[F[w]]
  /\ \A v \in Worker : N2[v] = N[v] /\ A2[v] = A[v] /\ C2[v] = C[v]
  /\ \A v \in Worker \ {w} : F2[v] = F[v] /\ Y2[v] = Y[v]
  /\ \A v \in Worker \ {F[w]} : (G2[v] <=> G[v])

(* A release becomes a signal.                                             *)
LEMMA TokensFree ==
  ASSUME NEW L \in Seq(Worker), NEW C, NEW F, NEW Y, NEW N, NEW A, NEW G, NEW M,
         Tokens(L, C, F, Y, N, A, G, M),
         NEW C2, NEW F2, NEW Y2, NEW N2, NEW A2, NEW G2, NEW w \in Worker,
         Frees(w, C, F, Y, N, A, G, C2, F2, Y2, N2, A2, G2),
         \A u \in Worker : Y[u] # "no"
  PROVE  Tokens(L, C2, F2, Y2, N2, A2, G2, M)
<1> DEFINE x == F[w]
<1>0. /\ x \in Worker /\ N[x] = Y[w] /\ ~G[x] /\ (\A u \in Worker : F[u] = x => u = w)
      /\ (\A i \in Slot : M[x][i] # x) /\ N[x] # "no"
  BY DEF Tokens, Frees
<1>1. /\ \A n \in DOMAIN L : L[n] \in Worker /\ L[n] # x
      /\ \A u \in Worker : C[u] # None => C[u] # x
  BY DEF Tokens
<1>2. G2[x] /\ \A v \in Worker : v # x => (G2[v] <=> G[v])
  BY DEF Frees
<1>3. /\ \A v \in Worker : v # w => F2[v] = F[v] /\ Y2[v] = Y[v] /\ F[v] # x
      /\ F2[w] = None /\ \A v \in Worker : N2[v] = N[v] /\ A2[v] = A[v] /\ C2[v] = C[v]
  BY <1>0 DEF Frees
<1> HIDE DEF x
<1>8. ASSUME NEW n \in DOMAIN L, NEW v, v = L[n]
      PROVE  N2[v] = "task" /\ ~G2[v] /\ \A u \in Worker : C2[u] # v /\ F2[u] # v
  <2>1. v \in Worker /\ v # x /\ N[v] = "task" /\ ~G[v] /\ \A u \in Worker : C[u] # v /\ F[u] # v
    BY <1>1, <1>8 DEF Tokens
  <2>2. v # None
    BY <2>1, StealingAssumption
  <2> QED  BY <1>2, <1>3, <2>1, <2>2
<1>9. ASSUME NEW u \in Worker, C2[u] # None, NEW v, v = C2[u]
      PROVE  v \in Worker /\ N2[v] = "task" /\ ~G2[v] /\ \A y \in Worker : F2[y] # v /\ (C2[y] = v => y = u)
  <2>1. v \in Worker /\ v # x /\ N[v] = "task" /\ ~G[v] /\ \A y \in Worker : F[y] # v /\ (C[y] = v => y = u)
    BY <1>1, <1>3, <1>9 DEF Tokens
  <2> QED  BY <1>2, <1>3, <1>9, <2>1
<1>10. ASSUME NEW u \in Worker, F2[u] # None, NEW v, v = F2[u]
       PROVE  /\ v \in Worker /\ N2[v] = Y2[u] /\ ~G2[v] /\ (\A y \in Worker : F2[y] = v => y = u)
              /\ \A i \in Slot : M[v][i] # v
  <2>0. u # w
    BY <1>3, <1>10
  <2>1. /\ v \in Worker /\ N[v] = Y[u] /\ ~G[v] /\ (\A y \in Worker : F[y] = v => y = u)
        /\ \A i \in Slot : M[v][i] # v
    BY <1>3, <1>10, <2>0 DEF Tokens
  <2>2. v # x
    BY <1>0, <1>3, <1>10, <2>0
  <2> QED  BY <1>2, <1>3, <1>10, <2>0, <2>1, <2>2
<1>11. /\ \A v \in Worker : G2[v] => N2[v] # "no" /\ \A i \in Slot : M[v][i] # v
       /\ \A v \in Worker, i \in Slot : M[v][i] = v => N2[v] = "end" /\ A2[v] = <<v, i>>
       /\ \A v \in Worker : N2[v] = "end" => A2[v] \in Ref /\ A2[v][1] = v /\ M[v][A2[v][2]] \in {v, "finished"}
  BY <1>0, <1>2, <1>3 DEF Tokens
<1>12. \A m, n \in DOMAIN L : L[m] = L[n] => m = n
  BY DEF Tokens
<1> QED  BY <1>8, <1>9, <1>10, <1>11, <1>12 DEF Tokens

(* A signal is taken and its sleeper is awake.                             *)
LEMMA TokensTake ==
  ASSUME NEW L \in Seq(Worker), NEW C, NEW F, NEW Y, NEW N, NEW A, NEW G, NEW M,
         Tokens(L, C, F, Y, N, A, G, M),
         NEW C2, NEW F2, NEW Y2, NEW N2, NEW A2, NEW G2, NEW w \in Worker,
         SameViews(w, C, F, Y, N, A, G, C2, F2, Y2, N2, A2, G2),
         G[w], F[w] = None, C[w] = None, F2[w] = None, C2[w] = None, ~G2[w], N2[w] = "no"
  PROVE  Tokens(L, C2, F2, Y2, N2, A2, G2, M)
<1>0. /\ \A i \in Slot : M[w][i] # w
      /\ \A n \in DOMAIN L : L[n] \in Worker /\ L[n] # w
      /\ \A u \in Worker : C[u] # None => C[u] # w
      /\ \A u \in Worker : F[u] # None => F[u] # w
  BY DEF Tokens
<1>1. \A v \in Worker : F2[v] = F[v] /\ C2[v] = C[v]
  BY DEF SameViews
<1>2. \A v \in Worker : v # w => Y2[v] = Y[v] /\ N2[v] = N[v] /\ A2[v] = A[v] /\ (G2[v] <=> G[v])
  BY DEF SameViews
<1>3. \A u \in Worker : F[u] # None => u # w
  OBVIOUS
<1>8. ASSUME NEW n \in DOMAIN L, NEW v, v = L[n]
      PROVE  N2[v] = "task" /\ ~G2[v] /\ \A u \in Worker : C2[u] # v /\ F2[u] # v
  <2>1. v \in Worker /\ v # w /\ N[v] = "task" /\ ~G[v] /\ \A u \in Worker : C[u] # v /\ F[u] # v
    BY <1>0, <1>8 DEF Tokens
  <2> QED  BY <1>1, <1>2, <2>1
<1>9. ASSUME NEW u \in Worker, C2[u] # None, NEW v, v = C2[u]
      PROVE  v \in Worker /\ N2[v] = "task" /\ ~G2[v] /\ \A y \in Worker : F2[y] # v /\ (C2[y] = v => y = u)
  <2>1. v \in Worker /\ v # w /\ N[v] = "task" /\ ~G[v] /\ \A y \in Worker : F[y] # v /\ (C[y] = v => y = u)
    BY <1>0, <1>1, <1>9 DEF Tokens
  <2> QED  BY <1>1, <1>2, <2>1
<1>10. ASSUME NEW u \in Worker, F2[u] # None, NEW v, v = F2[u]
       PROVE  /\ v \in Worker /\ N2[v] = Y2[u] /\ ~G2[v] /\ (\A y \in Worker : F2[y] = v => y = u)
              /\ \A i \in Slot : M[v][i] # v
  <2>1. /\ v \in Worker /\ N[v] = Y[u] /\ ~G[v] /\ (\A y \in Worker : F[y] = v => y = u)
        /\ (\A i \in Slot : M[v][i] # v) /\ u # w /\ v # w
    BY <1>0, <1>1, <1>3, <1>10 DEF Tokens
  <2> QED  BY <1>1, <1>2, <2>1
<1>11. /\ \A v \in Worker : G2[v] => N2[v] # "no" /\ \A i \in Slot : M[v][i] # v
       /\ \A v \in Worker, i \in Slot : M[v][i] = v => N2[v] = "end" /\ A2[v] = <<v, i>>
       /\ \A v \in Worker : N2[v] = "end" => A2[v] \in Ref /\ A2[v][1] = v /\ M[v][A2[v][2]] \in {v, "finished"}
  BY <1>0, <1>2 DEF Tokens
<1>12. \A m, n \in DOMAIN L : L[m] = L[n] => m = n
  BY DEF Tokens
<1> QED  BY <1>8, <1>9, <1>10, <1>11, <1>12 DEF Tokens

(* A thread goes to the list and to sleep.                                 *)
LEMMA TokensNap ==
  ASSUME NEW L \in Seq(Worker), NEW C, NEW F, NEW Y, NEW N, NEW A, NEW G, NEW M,
         Tokens(L, C, F, Y, N, A, G, M),
         NEW C2, NEW F2, NEW Y2, NEW N2, NEW A2, NEW G2, NEW w \in Worker,
         SameViews(w, C, F, Y, N, A, G, C2, F2, Y2, N2, A2, G2),
         N[w] = "no", N2[w] = "task", F[w] = None, C[w] = None, F2[w] = None, C2[w] = None,
         G2[w] <=> G[w], \A u \in Worker : Y[u] # "no"
  PROVE  Tokens(<<w>> \o L, C2, F2, Y2, N2, A2, G2, M)
<1> DEFINE K == <<w>> \o L
<1>0. /\ \A i \in Slot : M[w][i] # w
      /\ \A n \in DOMAIN L : L[n] \in Worker /\ L[n] # w
      /\ \A u \in Worker : C[u] # w /\ F[u] # w
      /\ ~G[w]
  <2>1. None \notin Worker
    BY StealingAssumption
  <2>2. \A u \in Worker : F[u] # w
    BY <2>1 DEF Tokens
  <2>3. \A u \in Worker : C[u] # w
    BY <2>1 DEF Tokens
  <2>4. (\A i \in Slot : M[w][i] # w) /\ ~G[w] /\ \A n \in DOMAIN L : L[n] \in Worker /\ L[n] # w
    BY DEF Tokens
  <2> QED  BY <2>2, <2>3, <2>4
<1>4. /\ \A n \in DOMAIN K : (n = 1 /\ K[n] = w) \/ (n - 1 \in DOMAIN L /\ K[n] = L[n - 1])
      /\ \A n \in DOMAIN K : n \in Nat
  OBVIOUS
<1> HIDE DEF K
<1>1. \A v \in Worker : F2[v] = F[v] /\ C2[v] = C[v] /\ (G2[v] <=> G[v])
  BY DEF SameViews
<1>2. \A v \in Worker : v # w => Y2[v] = Y[v] /\ N2[v] = N[v] /\ A2[v] = A[v]
  BY DEF SameViews
<1>3. \A u \in Worker : F[u] # None => u # w
  OBVIOUS
<1>5. \A m, n \in DOMAIN K : K[m] = K[n] => m = n
  <2> SUFFICES ASSUME NEW m \in DOMAIN K, NEW n \in DOMAIN K, K[m] = K[n]  PROVE m = n
    OBVIOUS
  <2>1. CASE m = 1 /\ K[m] = w
    BY <1>0, <1>4, <2>1
  <2>2. CASE m - 1 \in DOMAIN L /\ K[m] = L[m - 1]
    <3>1. n - 1 \in DOMAIN L /\ K[n] = L[n - 1]
      BY <1>0, <1>4, <2>2
    <3>2. L[m - 1] = L[n - 1]
      BY <2>2, <3>1
    <3>3. m - 1 = n - 1
      BY <2>2, <3>1, <3>2 DEF Tokens
    <3> QED  BY <1>4, <3>3
  <2> QED  BY <1>4, <2>1, <2>2
<1>8. ASSUME NEW n \in DOMAIN K, NEW v, v = K[n]
      PROVE  N2[v] = "task" /\ ~G2[v] /\ \A u \in Worker : C2[u] # v /\ F2[u] # v
  <2>1. CASE v = w
    BY <1>0, <1>1, <2>1
  <2>2. CASE v # w
    <3>1. n - 1 \in DOMAIN L /\ v = L[n - 1]
      BY <1>4, <1>8, <2>2
    <3>2. v \in Worker /\ N[v] = "task" /\ ~G[v] /\ \A u \in Worker : C[u] # v /\ F[u] # v
      BY <1>0, <3>1 DEF Tokens
    <3> QED  BY <1>1, <1>2, <2>2, <3>2
  <2> QED  BY <2>1, <2>2
<1>9. ASSUME NEW u \in Worker, C2[u] # None, NEW v, v = C2[u]
      PROVE  v \in Worker /\ N2[v] = "task" /\ ~G2[v] /\ \A y \in Worker : F2[y] # v /\ (C2[y] = v => y = u)
  <2>1. v \in Worker /\ v # w /\ N[v] = "task" /\ ~G[v] /\ \A y \in Worker : F[y] # v /\ (C[y] = v => y = u)
    BY <1>0, <1>1, <1>9 DEF Tokens
  <2> QED  BY <1>1, <1>2, <2>1
<1>10. ASSUME NEW u \in Worker, F2[u] # None, NEW v, v = F2[u]
       PROVE  /\ v \in Worker /\ N2[v] = Y2[u] /\ ~G2[v] /\ (\A y \in Worker : F2[y] = v => y = u)
              /\ \A i \in Slot : M[v][i] # v
  <2>1. /\ v \in Worker /\ N[v] = Y[u] /\ ~G[v] /\ (\A y \in Worker : F[y] = v => y = u)
        /\ (\A i \in Slot : M[v][i] # v) /\ u # w /\ v # w
    BY <1>0, <1>1, <1>3, <1>10 DEF Tokens
  <2> QED  BY <1>1, <1>2, <2>1
<1>11. /\ \A v \in Worker : G2[v] => N2[v] # "no" /\ \A i \in Slot : M[v][i] # v
       /\ \A v \in Worker, i \in Slot : M[v][i] = v => N2[v] = "end" /\ A2[v] = <<v, i>>
       /\ \A v \in Worker : N2[v] = "end" => A2[v] \in Ref /\ A2[v][1] = v /\ M[v][A2[v][2]] \in {v, "finished"}
  BY <1>0, <1>1, <1>2 DEF Tokens
<1> QED  BY <1>5, <1>8, <1>9, <1>10, <1>11 DEF Tokens, K

=============================================================================
