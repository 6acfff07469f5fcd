----------------------------- MODULE ClaimWorker -----------------------------
(***************************************************************************)
(* claimWatcher and worker: the claim informer queues the keys of claims,  *)
(* and one goroutine checks the owners of each and gives it a node.  The   *)
(* worker works on the object in the informer's cache itself.              *)
(***************************************************************************)
EXTENDS SchedulerState

(* wk.pc: "idle", "verify" (owners), "orphan" (no owner is left, list the  *)
(* pools), "free" (update the pool), "assign" (list the nodes).  apart:    *)
(* the cache holds another object than the one the worker looked up.       *)
IdleWorker == [pc |-> "idle", key |-> None, apart |-> FALSE, copy |-> NoPools]
WorkerTask ==
  [pc : {"idle", "verify", "orphan", "free", "assign"},
   key : Claim \cup {None}, apart : BOOLEAN, copy : PoolCopy]

(* The watch brings the cache to the current version of a claim; versions  *)
(* it lags behind are collapsed.  DeleteFunc only logs.                    *)
DeliverClaim(c) ==
  LET known == claimCache[c] IN
  /\ known = None => claims[c] # None
  /\ known # None => ~known.fresh
  /\ claimCache' = [claimCache EXCEPT ![c] =
       IF claims[c] = None THEN None
       ELSE [owners |-> claims[c].owners, node |-> claims[c].node, fresh |-> TRUE]]
  /\ claimQueue' = IF claims[c] = None THEN claimQueue ELSE QAdd(claimQueue, c)
  /\ changeQueue' = Outdate(changeQueue, c, TRUE)
  /\ wk' = IF wk.key = c /\ wk.pc = "assign" THEN [wk EXCEPT !.apart = TRUE] ELSE wk
  /\ UNCHANGED <<services, pools, claims, ipnode, beaten, svcFeed, svcCache, svc, cw, live, mon>>

Cached == {c \in Claim : claimCache[c] # None}

(* Every 10 seconds the informer calls UpdateFunc for all it knows.        *)
ResyncClaims ==
  /\ claimQueue' \in AddKeys(claimQueue, Cached)
  /\ UNCHANGED <<services, pools, claims, ipnode, beaten, svcFeed, svcCache, svc,
                 claimCache, wk, changeQueue, cw, live, mon>>

-----------------------------------------------------------------------------
(* The key leaves the queue when it is done; one that failed goes back in. *)
Finished(q) == claimQueue' = QDone(q, wk.key) /\ wk' = IdleWorker

TakeClaim ==
  /\ wk.pc = "idle" /\ HasWork(claimQueue)
  /\ claimQueue' = QGet(claimQueue)
  /\ wk' = [IdleWorker EXCEPT !.pc = "verify", !.key = NextItem(claimQueue)]
  /\ UNCHANGED <<services, pools, claims, ipnode, beaten, svcFeed, svcCache, svc,
                 claimCache, changeQueue, cw, live, mon>>

(* ownersAlive: an owner is alive when the cache or the server knows it.   *)
Alive_Cached(owners) == {s \in owners : svcCache[s] # None}  \* a mutant: the server is not asked
Alive(owners) == {s \in owners : svcCache[s] # None \/ services[s] # None}

IsLive_Never(n) == FALSE  \* a mutant: every claim is scheduled again
IsLive(n) == n # None /\ n \in live

(* GetByKey, then processIpClaim up to its first return: the owners, and   *)
(* whether the claim's node is alive.  asked: the server answers about the *)
(* owners the cache does not know; if it fails they count as alive.        *)
VerifyClaim(asked) ==
  LET c == wk.key
      obj == claimCache[c]
      owners == IF asked THEN Alive(obj.owners) ELSE obj.owners IN
  /\ wk.pc = "verify"
  /\ IF obj = None
       THEN Finished(claimQueue) /\ UNCHANGED <<claimCache, changeQueue>>
     ELSE IF owners = {}
       THEN /\ wk' = [wk EXCEPT !.pc = "orphan"]
            /\ UNCHANGED <<claimCache, claimQueue, changeQueue>>
     ELSE /\ IF owners # obj.owners
               THEN /\ claimCache' = [claimCache EXCEPT ![c].owners = owners]
                    /\ Enqueue(UpdatedReq(c, TheCached))
               ELSE UNCHANGED <<claimCache, changeQueue>>
          /\ IF IsLive(obj.node) THEN Finished(claimQueue)
             ELSE wk' = [wk EXCEPT !.pc = "assign"] /\ UNCHANGED claimQueue
  /\ UNCHANGED <<services, pools, claims, ipnode, beaten, svcFeed, svcCache, svc, cw, live, mon>>

(* The claim's owners are gone: its address is looked up in the pools, and *)
(* the claim to delete is named after the mask found there.                *)
DropOrphan(copy) ==
  LET ip == wk.key[1] IN
  /\ wk.pc = "orphan"
  /\ Enqueue(DeletedReq(<<ip, MaskOf(copy, ip)>>))
  /\ IF PoolsOf(copy, ip) = {} THEN Finished(claimQueue)
     ELSE wk' = [wk EXCEPT !.pc = "free", !.copy = copy] /\ UNCHANGED claimQueue
  /\ UNCHANGED <<services, pools, claims, ipnode, beaten, svcFeed, svcCache, svc,
                 claimCache, cw, live, mon>>

FreeOrphanAddress(reached) ==
  LET ip == wk.key[1]
      p == PoolOf(wk.copy, ip) IN
  /\ wk.pc = "free"
  /\ IF reached /\ Accepted(wk.copy, p)
       THEN /\ pools' = [pools EXCEPT ![p] = wk.copy.alloc[p] \ {ip}]
            /\ svc' = [svc EXCEPT !.copy = Spoil(@, p)]
       ELSE UNCHANGED <<pools, svc>>
  /\ Finished(claimQueue)
  /\ UNCHANGED <<services, claims, ipnode, beaten, svcFeed, svcCache, claimCache,
                 changeQueue, cw, live, mon>>

-----------------------------------------------------------------------------
(* getFairNode: the claims of the cache per node; the first of the nodes   *)
(* that have fewest.                                                       *)
Load_OnServer(n) ==  \* a mutant: nodes given but not stored yet are not counted
  Cardinality({c \in Claim : claims[c] # None /\ claims[c].node = n})
Load(n) == Cardinality({c \in Cached : claimCache[c].node = n})
FairNode(nodes) ==
  Min({n \in nodes : \A m \in nodes : Load(n) <= Load(m)})

GetNode(nodes) == IF NodeFilter = "fair" THEN FairNode(nodes) ELSE Min(nodes)

(* The rest of processIpClaim.  Without a live node the claim goes back in *)
(* the queue; otherwise the object is given the node, in the cache, before *)
(* the server is asked.  An object the cache has replaced is still changed *)
(* and sent.                                                               *)
AssignNode ==
  LET c == wk.key
      alive == Listed \cap live IN
  /\ wk.pc = "assign"
  /\ IF alive = {}
       THEN Finished(QAdd(claimQueue, c)) /\ UNCHANGED <<claimCache, changeQueue>>
       ELSE /\ claimCache' = IF wk.apart THEN claimCache
                             ELSE [claimCache EXCEPT ![c].node = GetNode(alive)]
            /\ Enqueue(UpdatedReq(c, IF wk.apart THEN Outdated ELSE TheCached))
            /\ Finished(claimQueue)
  /\ UNCHANGED <<services, pools, claims, ipnode, beaten, svcFeed, svcCache, svc, cw, live, mon>>

(* List of the nodes fails: the claim is tried again.                      *)
NodesUnread ==
  /\ wk.pc = "assign"
  /\ Finished(QAdd(claimQueue, wk.key))
  /\ UNCHANGED <<services, pools, claims, ipnode, beaten, svcFeed, svcCache, svc,
                 claimCache, changeQueue, cw, live, mon>>

ClaimStep ==
  \/ TakeClaim \/ VerifyClaim(TRUE) \/ DropOrphan(PoolsRead)
  \/ FreeOrphanAddress(TRUE) \/ AssignNode

(* A call fails: the owners are taken for alive, the list of pools is      *)
(* empty, the pool stays as it is, the claim is tried again.               *)
ClaimFault ==
  VerifyClaim(FALSE) \/ DropOrphan(NoPools) \/ FreeOrphanAddress(FALSE) \/ NodesUnread
=============================================================================
