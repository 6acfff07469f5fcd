----------------------------- MODULE ClaimLedger -----------------------------
(***************************************************************************)
(* What the scheduler promises the IP controllers about the claims in the  *)
(* API server: a claim is made without a node, is given one node after     *)
(* another, never loses it again, and goes.  Scheduler implements this     *)
(* specification and ClaimController is driven by it.                      *)
(***************************************************************************)
CONSTANTS Claim, Nodes, None

VARIABLE placed  \* claim -> None, or a record with its node, which may be None

Placement == [node : Nodes \cup {None}]
Unplaced == [node |-> None]

Init == placed = [c \in Claim |-> None]

Create(c) == placed[c] = None /\ placed' = [placed EXCEPT ![c] = Unplaced]
Place(c, n) == placed[c] # None /\ placed' = [placed EXCEPT ![c] = [node |-> n]]
Remove(c) == placed[c] # None /\ placed' = [placed EXCEPT ![c] = None]

Change(c) == Create(c) \/ Remove(c) \/ \E n \in Nodes : Place(c, n)

Next == \E c \in Claim : Change(c)

Spec == Init /\ [][Next]_placed
=============================================================================
