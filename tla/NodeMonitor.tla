----------------------------- MODULE NodeMonitor -----------------------------
(***************************************************************************)
(* monitorIPNodes: on each tick the scheduler lists the IpNodes; one whose *)
(* Revision grew since the last tick is live, and the claims of any other  *)
(* are queued so that worker moves them.                                   *)
(*                                                                         *)
(* beaten holds the nodes with observedGeneration < Revision.              *)
(***************************************************************************)
EXTENDS SchedulerState, Sequences

(* mon.todo: the listed nodes left; mon.newer: those of them whose listed  *)
(* Revision is above observedGeneration.                                   *)
Waiting == [todo |-> {}, newer |-> {}]

Tick ==
  /\ mon = Waiting
  /\ mon' = [todo |-> Listed, newer |-> beaten]
  /\ beaten' = {}
  /\ UNCHANGED <<services, pools, claims, ipnode, svcFeed, svcCache, svc, claimCache,
                 claimQueue, wk, changeQueue, cw, live>>

ClaimsOn(n) == {c \in Claim : claims[c] # None /\ claims[c].node = n}

NextNode == Min(mon.todo)

Forget_Not(n) == live  \* a mutant: delete(s.liveIpNodes, name) is missing
Forget(n) == live \ {n}

MarkNode ==
  LET n == NextNode IN
  /\ mon.todo # {}
  /\ mon' = [todo |-> mon.todo \ {n}, newer |-> mon.newer \ {n}]
  /\ IF n \in mon.newer THEN live' = live \cup {n} /\ UNCHANGED claimQueue
     ELSE /\ live' = Forget(n)
          /\ claimQueue' \in AddKeys(claimQueue, ClaimsOn(n))
  /\ UNCHANGED <<services, pools, claims, ipnode, beaten, svcFeed, svcCache, svc, claimCache,
                 wk, changeQueue, cw>>

MonitorStep == MarkNode

(* The claims of a dead node cannot be listed: the loop over the nodes     *)
(* ends, and the nodes left keep their observedGeneration.                 *)
ClaimsUnlisted ==
  LET n == NextNode IN
  /\ mon.todo # {} /\ n \notin mon.newer
  /\ mon' = Waiting
  /\ live' = Forget(n)
  /\ beaten' = beaten \cup mon.newer
  /\ UNCHANGED <<services, pools, claims, ipnode, svcFeed, svcCache, svc, claimCache,
                 claimQueue, wk, changeQueue, cw>>
=============================================================================
