----------------------------- MODULE KeyedQueue -----------------------------
(***************************************************************************)
(* What pkg/workqueue promises its users, whatever it keeps inside: an     *)
(* item that was offered stays pending until some worker takes it, and an  *)
(* item is in the hands of one worker at a time.  Nothing is said of the   *)
(* order in which pending items are taken.                                 *)
(***************************************************************************)
CONSTANTS Items, Workers

VARIABLES pending,   \* the items offered and not taken yet
          held       \* the pairs <<worker, item>> being processed

kqVars == <<pending, held>>

Init == pending = {} /\ held = {}

Offer(i) == pending' = pending \cup {i} /\ UNCHANGED held

Take(w, i) ==
  /\ i \in pending
  /\ \A v \in Workers : <<v, i>> \notin held
  /\ \A j \in Items : <<w, j>> \notin held
  /\ pending' = pending \ {i}
  /\ held' = held \cup {<<w, i>>}

Finish(w, i) == <<w, i>> \in held /\ held' = held \ {<<w, i>>} /\ UNCHANGED pending

Next ==
  \/ \E i \in Items : Offer(i)
  \/ \E w \in Workers, i \in Items : Take(w, i) \/ Finish(w, i)

Spec == Init /\ [][Next]_kqVars
=============================================================================
