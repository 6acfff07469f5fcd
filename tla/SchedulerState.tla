--------------------------- MODULE SchedulerState ---------------------------
(***************************************************************************)
(* What the goroutines of the scheduler share, and what they share with    *)
(* the rest of the cluster: the objects in the API server, the informers'  *)
(* caches, the two work queues and the set of live nodes.  One module per  *)
(* goroutine EXTENDS this one; Scheduler puts them together.               *)
(*                                                                         *)
(* Resource versions.  An Update succeeds only if the object it sends was  *)
(* read from the current version.  Instead of version numbers the model    *)
(* records, for each copy somebody holds, whether the object changed in    *)
(* the server since.                                                       *)
(***************************************************************************)
EXTENDS WorkQueueOps, PoolAddresses, SequencesExt

CONSTANTS
  Services,     \* namespace/name of the services
  IPs,          \* external addresses, as numbers
  Pools,        \* names of the address pools, 1..n: List returns them in order
  PoolNet,      \* pool -> its network and ranges
  PoolMask,     \* pool -> the mask of its CIDR
  DefaultMask,  \* the --mask flag
  Nodes,        \* uids of the IP controllers, 1..n: List returns them in order
  NodeFilter,   \* the --nodefilter flag: "fair" or "first-alive"
  TheCached,    \* the object claimStore holds now, as a request's payload
  Outdated      \* an object whose version is not the current one any more

ASSUME ListOrderAssumption == Nodes \subseteq Nat /\ Pools \subseteq Nat /\ IsFiniteSet(Pools)
ASSUME AddressAssumption == IPs \subseteq Nat /\ IsFiniteSet(IPs)
ASSUME FilterAssumption == NodeFilter \in {"fair", "first-alive"}

VARIABLES
  services,    \* API: service -> its externalIPs and kind, or None
  pools,       \* API: pool -> the allocated addresses
  claims,      \* API: claim -> its owners and node, or None
  ipnode,      \* API: node -> its IpNode: "absent", "new" (Revision 0), "beating"
  beaten,      \* the nodes whose Revision exceeds observedGeneration
  svcFeed,     \* service -> the events its watch has not delivered yet
  svcCache,    \* serviceStore
  svc,         \* what the service informer's goroutine is doing
  claimCache,  \* claimStore: service objects, changed in place by worker
  claimQueue,  \* queue
  wk,          \* what worker is doing
  changeQueue, \* changeQueue: the requests, in order
  cw,          \* what claimChangeWorker is doing
  live,        \* liveIpNodes
  mon          \* what monitorIPNodes is doing

(* A claim is named after its address and mask.                            *)
Masks == {DefaultMask} \cup {PoolMask[p] : p \in Pools}
Claim == IPs \X Masks

(* want: what asks for an automatic address; "none", the annotation        *)
(* ("auto"), or type LoadBalancer ("lb").                                  *)
Service == [ips : Seq(IPs), want : {"none", "auto", "lb"}]
ClaimObject == [owners : SUBSET Services, node : Nodes \cup {None}]

(* fresh: the copy is the current version.                                 *)
CachedClaim == [owners : SUBSET Services, node : Nodes \cup {None}, fresh : BOOLEAN]

(* The model values are none of the objects they stand beside.             *)
ASSUME ObjectsAssumption ==
  /\ None \notin Nodes \cup Service \cup ClaimObject \cup CachedClaim \cup [node : Nodes \cup {None}]
  /\ {TheCached, Outdated} \cap ClaimObject = {} /\ TheCached # Outdated

Listed == {n \in Nodes : ipnode[n] # "absent"}

NewClaim_NoOwner(s) == [owners |-> {}, node |-> None]  \* a mutant: makeIPClaim(ip, mask, nil)
NewClaim(s) == [owners |-> {s}, node |-> None]

-----------------------------------------------------------------------------
(* The list of pools a goroutine holds: listed is empty when List failed;  *)
(* alloc may have been edited in place; stale are the pools whose copy is  *)
(* not the current version.                                                *)
NoPools == [listed |-> {}, alloc |-> [p \in Pools |-> {}], stale |-> {}]
PoolsRead == [listed |-> Pools, alloc |-> pools, stale |-> {}]
PoolCopy == [listed : SUBSET Pools, alloc : [Pools -> SUBSET IPs], stale : SUBSET Pools]

(* poolByAllocatedIP: the first pool of the list that allocated the IP.    *)
PoolsOf(copy, ip) == {p \in Pools : ip \in copy.alloc[p]}
PoolOf(copy, ip) == Min(PoolsOf(copy, ip))
MaskOf(copy, ip) == IF PoolsOf(copy, ip) = {} THEN DefaultMask ELSE PoolMask[PoolOf(copy, ip)]

(* autoAllocateExternalIP: the first pool that has an address left, and    *)
(* the address AvailableIP returns for it.                                 *)
PoolOffer == [p \in Pools |-> Offered(PoolNet[p])]
OfferedBy(p) == UNION {PoolOffer[p][k] : k \in DOMAIN PoolOffer[p]}

(* IPs has every address a pool offers.                                    *)
ASSUME OfferAssumption ==
  \A p \in Pools : DOMAIN PoolOffer[p] \subseteq Nat /\ OfferedBy(p) \subseteq IPs

PoolsWithFree(copy) == {p \in copy.listed : HasAvailableIP(PoolOffer[p], copy.alloc[p])}
FreePool(copy) == Min(PoolsWithFree(copy))
FreeIP(copy) == AvailableIP(PoolOffer[FreePool(copy)], copy.alloc[FreePool(copy)])

Spoil(copy, p) == [copy EXCEPT !.stale = @ \cup (copy.listed \cap {p})]

(* IPClaimPools().Update of a pool from copy is refused when the copy is   *)
(* not current.  When it is accepted every copy of the pool is stale, the  *)
(* one it was sent from too.                                               *)
Accepted(copy, p) == p \notin copy.stale

-----------------------------------------------------------------------------
(* Requests of changeQueue.  An Updated request points to an object: the   *)
(* one in claimStore, which is sent as it is at the time of the call, or   *)
(* one that was read by Get.                                               *)
AddedReq(c, s) == [type |-> "Added", claim |-> c, owner |-> s]
UpdatedReq(c, obj) == [type |-> "Updated", claim |-> c, obj |-> obj]
DeletedReq(c) == [type |-> "Deleted", claim |-> c]

Request ==
  [type : {"Added"}, claim : Claim, owner : Services]
  \cup [type : {"Updated"}, claim : Claim, obj : {TheCached, Outdated} \cup ClaimObject]
  \cup [type : {"Deleted"}, claim : Claim]

(* addClaimChangeRequest: a request is a new pointer, so nothing collapses. *)
Enqueue(r) == changeQueue' = Append(changeQueue, r)

(* The queue once the object of claim c in the cache (cached), or those    *)
(* that were read (~cached), are outdated.                                 *)
Outdate(queue, c, cached) ==
  [k \in DOMAIN queue |->
     IF queue[k].type = "Updated" /\ queue[k].claim = c
        /\ (queue[k].obj = TheCached) = cached
       THEN [queue[k] EXCEPT !.obj = Outdated] ELSE queue[k]]

(* queue after the keys of the claims of a list were added, in any order.  *)
AddKeys(q, keys) == {QAddAll(q, list) : list \in SetToSeqs(keys)}

-----------------------------------------------------------------------------
Event == [obj : Service, gone : BOOLEAN]

TypeOKState ==
  /\ services \in [Services -> Service \cup {None}]
  /\ pools \in [Pools -> SUBSET IPs]
  /\ claims \in [Claim -> ClaimObject \cup {None}]
  /\ ipnode \in [Nodes -> {"absent", "new", "beating"}]
  /\ beaten \subseteq Nodes /\ live \subseteq Nodes
  /\ svcCache \in [Services -> Service \cup {None}]
  /\ svcFeed \in [Services -> Seq(Event)]
  /\ claimCache \in [Claim -> CachedClaim \cup {None}]
  /\ claimQueue \in QueueType(Claim)
  /\ changeQueue \in Seq(Request)
=============================================================================
