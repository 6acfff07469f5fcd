-------------------------- MODULE ClaimChangeWorker --------------------------
(***************************************************************************)
(* claimChangeWorker: one goroutine carries out the requests of            *)
(* changeQueue in order.  It is the only writer of claims, and it drops a  *)
(* request the server refuses.                                             *)
(***************************************************************************)
EXTENDS SchedulerState

(* cw: the Added request whose claim exists, waiting for Get; or None.     *)
ASSUME NoRequestAssumption == None \notin Request

(* The server stores a new object of the claim: the copies others hold are *)
(* outdated.  Storing what is there already changes nothing.               *)
Store(c, obj, queue) ==
  IF claims[c] = obj THEN changeQueue' = queue /\ UNCHANGED <<claims, claimCache>>
  ELSE /\ claims' = [claims EXCEPT ![c] = obj]
       /\ claimCache' = IF claimCache[c] = None THEN claimCache
                        ELSE [claimCache EXCEPT ![c].fresh = FALSE]
       /\ changeQueue' = Outdate(queue, c, FALSE)

CreateClaim ==
  LET r == Head(changeQueue) IN
  /\ cw = None /\ changeQueue # <<>> /\ r.type = "Added"
  /\ IF claims[r.claim] = None
       THEN Store(r.claim, NewClaim(r.owner), Tail(changeQueue)) /\ UNCHANGED cw
       ELSE /\ cw' = r /\ changeQueue' = Tail(changeQueue)
            /\ UNCHANGED <<claims, claimCache>>
  /\ UNCHANGED <<services, pools, ipnode, beaten, svcFeed, svcCache, svc, claimQueue, wk,
                 live, mon>>

WithOwner_Afresh(obj, s) == [owners |-> obj.owners \cup {s}, node |-> None]  \* a mutant: Spec is not kept
WithOwner(obj, s) == [obj EXCEPT !.owners = @ \cup {s}]

(* The claim exists: Get it, and ask for an Update if the owner is new.    *)
AddOwner ==
  LET existing == claims[cw.claim] IN
  /\ cw # None /\ existing # None
  /\ IF cw.owner \in existing.owners THEN UNCHANGED changeQueue
     ELSE Enqueue(UpdatedReq(cw.claim, WithOwner(existing, cw.owner)))
  /\ cw' = None
  /\ UNCHANGED <<services, pools, claims, ipnode, beaten, svcFeed, svcCache, svc,
                 claimCache, claimQueue, wk, live, mon>>

(* The object of an Updated request as it is at the time of the call, or   *)
(* None when its version is not the current one.                           *)
Current(r) ==
  IF claims[r.claim] = None THEN None
  ELSE IF r.obj = Outdated THEN None
  ELSE IF r.obj # TheCached THEN r.obj
  ELSE IF ~claimCache[r.claim].fresh THEN None
  ELSE [owners |-> claimCache[r.claim].owners, node |-> claimCache[r.claim].node]

UpdateClaim ==
  LET r == Head(changeQueue) IN
  /\ cw = None /\ changeQueue # <<>> /\ r.type = "Updated"
  /\ IF Current(r) = None
       THEN changeQueue' = Tail(changeQueue) /\ UNCHANGED <<claims, claimCache>>
       ELSE Store(r.claim, Current(r), Tail(changeQueue))
  /\ UNCHANGED <<services, pools, ipnode, beaten, svcFeed, svcCache, svc, claimQueue, wk,
                 cw, live, mon>>

DeleteClaim ==
  LET r == Head(changeQueue) IN
  /\ cw = None /\ changeQueue # <<>> /\ r.type = "Deleted"
  /\ Store(r.claim, None, Tail(changeQueue))
  /\ UNCHANGED <<services, pools, ipnode, beaten, svcFeed, svcCache, svc, claimQueue, wk,
                 cw, live, mon>>

ChangeStep == CreateClaim \/ AddOwner \/ UpdateClaim \/ DeleteClaim

(* The server fails the call: the error is logged, the request is gone.    *)
CallFails ==
  /\ cw = None /\ changeQueue # <<>>
  /\ changeQueue' = Tail(changeQueue)
  /\ UNCHANGED <<services, pools, claims, ipnode, beaten, svcFeed, svcCache, svc,
                 claimCache, claimQueue, wk, cw, live, mon>>

(* Get fails: the Added request is queued again, and what goes on is an    *)
(* Update of an object without a name, which the client refuses.           *)
GetFails ==
  /\ cw # None
  /\ Enqueue(cw) /\ cw' = None
  /\ UNCHANGED <<services, pools, claims, ipnode, beaten, svcFeed, svcCache, svc,
                 claimCache, claimQueue, wk, live, mon>>

ChangeFault == CallFails \/ GetFails
=============================================================================
