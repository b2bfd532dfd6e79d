------------------------------- MODULE ForkJoin -------------------------------
(***************************************************************************)
(* What the task scheduler promises its users: every call that a running   *)
(* call spawned is made exactly once, by whomever, a call returns when all *)
(* that it spawned have returned, and the root call returns.               *)
(***************************************************************************)
EXTENDS Naturals, Functions

CONSTANTS Task, Root, Calls, None

VARIABLES
  begun,  (* how often each task was called                                *)
  done    (* the tasks that returned                                       *)

Spawned(t) == Range(Calls[t]) \ {None}

TreeInit ==
  /\ begun = [t \in Task |-> IF t = Root THEN 1 ELSE 0]
  /\ done = {}

(* A task is called while the call that spawned it waits for it.           *)
Begin(t) ==
  /\ begun[t] = 0
  /\ \E p \in Task \ done : begun[p] = 1 /\ t \in Spawned(p)
  /\ begun' = [begun EXCEPT ![t] = 1]
  /\ done' = done

End(t) ==
  /\ begun[t] = 1 /\ t \notin done
  /\ Spawned(t) \subseteq done
  /\ done' = done \cup {t}
  /\ begun' = begun

TreeNext == \E t \in Task : Begin(t) \/ End(t)

TreeSpec ==
  TreeInit /\ [][TreeNext]_<<begun, done>> /\ WF_<<begun, done>>(TreeNext)
=============================================================================
