--------------------------- MODULE MCWorkStealing ---------------------------
(***************************************************************************)
(* Two workers and deques of three slots.  The root syncs its first task,  *)
(* so that the other worker is awake and hunting when it spawns four more, *)
(* of which the last overflows; three of the tasks spawn in turn.          *)
(***************************************************************************)
EXTENDS WorkStealing

CONSTANTS w1, w2, root, a, a1, a2, b, c, c1, e, last

MCWorker == {w1, w2}
MCTask == {root, a, a1, a2, b, c, c1, e, last}
MCCalls == [t \in MCTask |->
  CASE t = root -> <<a, None, b, c, e, last>>
    [] t = a -> <<a1>>
    [] t = a1 -> <<a2>>
    [] t = c -> <<c1>>
    [] OTHER -> <<>>]
=============================================================================
