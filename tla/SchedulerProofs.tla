--------------------------- MODULE SchedulerProofs ---------------------------
(***************************************************************************)
(* What the scheduler guarantees for every number of services, addresses,  *)
(* pools, nodes and failures: the types of its state, the promise of       *)
(* ClaimLedger, and that a claim stays with a controller that never failed.*)
(*                                                                         *)
(* Three goroutines write the node of a claim: worker edits the object in  *)
(* the cache, claimChangeWorker sends it, or an object it read, to the     *)
(* server, and the watch replaces the one in the cache.  The invariants    *)
(* say what each may assume of what the others hold.                       *)
(***************************************************************************)
EXTENDS SchedulerStateProofs, SequenceTheorems

(* What waits in changeQueue fits the store: an object that was read from  *)
(* it and is not outdated has the node the store has.                      *)
ReadKeepsNode ==
  \A k \in DOMAIN changeQueue :
    changeQueue[k].type = "Updated" /\ changeQueue[k].obj \notin {TheCached, Outdated} =>
      LET stored == claims[changeQueue[k].claim] IN
      stored # None /\ changeQueue[k].obj.node = stored.node

(* A current copy in the cache has a node if the store has one.            *)
CacheKeepsNode ==
  \A c \in Claim : claimCache[c] # None /\ claimCache[c].fresh =>
    claims[c] # None /\ (claims[c].node # None => claimCache[c].node # None)

Consistent == RequestsOK /\ ReadKeepsNode /\ CacheKeepsNode

-----------------------------------------------------------------------------
(* The five things a step may do to the claims, the cache of them and the  *)
(* requests.                                                               *)

\* Requests are queued or dropped.
Ask ==
  /\ UNCHANGED <<claims, claimCache>>
  /\ \A k \in DOMAIN changeQueue' :
       LET r == changeQueue'[k] IN
       \/ \E j \in DOMAIN changeQueue : r = changeQueue[j]
       \/ r.type # "Updated"
       \/ r.type = "Updated" /\ r.obj = Outdated
       \/ /\ r.type = "Updated" /\ r.obj \in ClaimObject
          /\ claims[r.claim] # None /\ r.obj.node = claims[r.claim].node

Assigning(c) == wk.pc = "assign" /\ ~wk.apart /\ wk.key = c

\* The worker changes the object in the cache and asks for its update.
Edit(c) ==
  /\ UNCHANGED claims /\ claimCache[c] # None
  /\ \E new \in CachedClaim :
       /\ claimCache' = [claimCache EXCEPT ![c] = new]
       /\ new.fresh = claimCache[c].fresh
       /\ \/ new.node = claimCache[c].node
          \/ Assigning(c) /\ new.node \in Nodes /\ wk' = IdleWorker
  /\ changeQueue' = Append(changeQueue, UpdatedReq(c, TheCached))

\* The watch brings the cache up to date.
Refresh(c) ==
  /\ UNCHANGED claims
  /\ \/ claims[c] = None /\ claimCache' = [claimCache EXCEPT ![c] = None]
     \/ /\ claims[c] # None
        /\ claimCache' = [claimCache EXCEPT ![c] =
             [owners |-> claims[c].owners, node |-> claims[c].node, fresh |-> TRUE]]
  /\ changeQueue' = Outdate(changeQueue, c, TRUE)
  /\ wk'.pc = "assign" /\ wk'.key = c => wk'.apart

\* claimChangeWorker stores an object: a new one, one it read, or the cached one.
Keep(c) ==
  /\ \E obj \in ClaimObject \cup {None}, queue \in Seq(Request) :
       /\ \A k \in DOMAIN queue : \E j \in DOMAIN changeQueue : queue[k] = changeQueue[j]
       /\ Store(c, obj, queue)
       /\ \/ obj = None
          \/ claims[c] = None /\ obj.node = None
          \/ claims[c] # None /\ obj.node = claims[c].node
          \/ /\ claims[c] # None /\ claimCache[c] # None /\ claimCache[c].fresh
             /\ obj.node = claimCache[c].node

\* The process is gone.
Lose == UNCHANGED claims /\ claimCache' = NoClaims /\ changeQueue' = <<>> /\ wk' = IdleWorker

(* The worker comes to assign a node only when the one it saw is not live. *)
WorkerKeeps ==
  wk'.pc = "assign" /\ ~wk'.apart =>
    /\ wk'.key = wk.key
    /\ \/ wk.pc = "assign" /\ ~wk.apart
       \/ phase = "running" /\ ~IsLive(claimCache[wk.key].node)

ClaimEffect ==
  /\ WorkerKeeps
  /\ Ask \/ Lose \/ \E c \in Claim : Edit(c) \/ Refresh(c) \/ Keep(c)

-----------------------------------------------------------------------------
(* Which action does which.                                                *)
LEMMA QuietEffect ==
  ASSUME TypeInv, UNCHANGED <<claims, claimCache, changeQueue>>
  PROVE  Ask
BY DEF Ask

\* A longer queue has what was in it and what was added.
LEMMA AskEffect ==
  ASSUME TypeInv, NEW new \in Seq(Request), UNCHANGED <<claims, claimCache>>,
         changeQueue' = changeQueue \o new,
         \A k \in DOMAIN new : new[k].type # "Updated"
  PROVE  Ask
<1>1. changeQueue \in Seq(Request)
  BY DEF TypeInv, TypeOK, TypeOKState
<1>2. ASSUME NEW k \in DOMAIN changeQueue'
      PROVE  \/ \E j \in DOMAIN changeQueue : changeQueue'[k] = changeQueue[j]
             \/ \E j \in DOMAIN new : changeQueue'[k] = new[j]
  <2>1. CASE k <= Len(changeQueue)
    BY <1>1, <1>2, <2>1
  <2>2. CASE ~(k <= Len(changeQueue))
    <3>1. k - Len(changeQueue) \in DOMAIN new /\ changeQueue'[k] = new[k - Len(changeQueue)]
      BY <1>1, <1>2, <2>2
    <3> QED BY <3>1
  <2> QED BY <2>1, <2>2
<1> QED BY <1>2 DEF Ask

LEMMA AppendBehind ==
  ASSUME NEW s \in Seq(Request), NEW t \in Seq(Request), NEW e \in Request
  PROVE  Append(s \o t, e) = s \o Append(t, e)
<1>1. s \o t \in Seq(Request) /\ <<e>> \in Seq(Request)
  OBVIOUS
<1>2. Append(s \o t, e) = (s \o t) \o <<e>> /\ Append(t, e) = t \o <<e>>
  BY <1>1, AppendIsConcat, Zenon
<1> QED BY <1>1, <1>2, ConcatAssociative

LEMMA TailEffect ==
  ASSUME TypeInv, changeQueue # <<>>
  PROVE  \A k \in DOMAIN Tail(changeQueue) :
           \E j \in DOMAIN changeQueue : Tail(changeQueue)[k] = changeQueue[j]
<1>1. changeQueue \in Seq(Request)
  BY DEF TypeInv, TypeOK, TypeOKState
<1>2. ASSUME NEW k \in DOMAIN Tail(changeQueue)
      PROVE  k + 1 \in DOMAIN changeQueue /\ Tail(changeQueue)[k] = changeQueue[k + 1]
  BY <1>1, <1>2
<1> QED BY <1>2

LEMMA ServiceEffect ==
  ASSUME TypeInv, ServiceStep \/ ServiceFault
  PROVE  ClaimEffect
<1>1. wk \in WorkerTask /\ changeQueue \in Seq(Request) /\ svc \in ServiceTask
  BY DEF TypeInv, TypeOK, TypeOKState
<1>2. wk'.pc = wk.pc /\ wk'.apart = wk.apart /\ wk'.key = wk.key => WorkerKeeps
  BY DEF WorkerKeeps
<1>3. (\E p : wk' = [wk EXCEPT !.copy = Spoil(@, p)]) \/ UNCHANGED wk
        => wk'.pc = wk.pc /\ wk'.apart = wk.apart /\ wk'.key = wk.key
  BY <1>1 DEF WorkerTask
<1>4. CASE \/ \E s \in Services : Deliver(s)
           \/ UpdateService(TRUE) \/ UpdateService(FALSE) \/ UpdateStatus(TRUE) \/ UpdateStatus(FALSE)
           \/ ListForOld(PoolsRead) \/ ListForOld(NoPools)
  <2>1. UNCHANGED <<claims, claimCache, changeQueue, wk>>
    BY <1>4 DEF Deliver, UpdateService, UpdateStatus, ListForOld
  <2> QED BY <1>2, <1>3, <2>1, QuietEffect DEF ClaimEffect
<1>5. CASE \E reached \in BOOLEAN : AllocateInPool(reached)
  <2>1. UNCHANGED <<claims, claimCache, changeQueue>>
    BY <1>5 DEF AllocateInPool
  <2>2. (\E p : wk' = [wk EXCEPT !.copy = Spoil(@, p)]) \/ UNCHANGED wk
    BY <1>5 DEF AllocateInPool
  <2> QED BY <1>2, <1>3, <2>1, <2>2, QuietEffect DEF ClaimEffect
<1>6. CASE \E copy \in PoolCopy : ListForNew(copy)
  <2>1. PICK copy \in PoolCopy : ListForNew(copy)
    BY <1>6
  <2> DEFINE given == Among(svcCache[svc.name].ips, {ip \in IPs : PoolsOf(copy, ip) = {}})
             requests == [k \in DOMAIN given |-> AddedReq(<<given[k], DefaultMask>>, svc.name)]
             auto == AddedReq(<<FreeIP(copy), PoolMask[FreePool(copy)]>>, svc.name)
  <2>2. /\ svc.pc = "list" /\ UNCHANGED <<claims, claimCache, wk>>
        /\ \/ changeQueue' = changeQueue \o requests
           \/ /\ PoolsWithFree(copy) # {}
              /\ changeQueue' = Append(changeQueue \o requests, auto)
    <3> HIDE DEF requests
    <3> QED BY <2>1 DEF ListForNew, requests
  <2>3. svc.name \in Services /\ svcCache[svc.name] \in Service
    BY <2>2 DEF TypeInv, TypeOK, TypeOKState, ServiceTaskOK
  <2>4. given \in Seq(IPs)
    BY <2>3, AmongType DEF Service
  <2>5. /\ requests \in Seq(Request)
        /\ \A k \in DOMAIN requests : requests[k].type # "Updated"
    <3> HIDE DEF given
    <3>1. \A k \in DOMAIN given : /\ AddedReq(<<given[k], DefaultMask>>, svc.name) \in Request
                                  /\ AddedReq(<<given[k], DefaultMask>>, svc.name).type = "Added"
      BY <2>3, <2>4 DEF AddedReq, Request, Claim, Masks
    <3>2. DOMAIN given = 1..Len(given) /\ Len(given) \in Nat
      BY <2>4
    <3> QED BY <3>1, <3>2
  <2>6. PoolsWithFree(copy) # {} => auto \in Request /\ auto.type = "Added"
    <3>1. PoolsWithFree(copy) # {} => FreePool(copy) \in Pools /\ FreeIP(copy) \in IPs
      BY OfferIsFree
    <3> QED BY <2>3, <3>1 DEF AddedReq, Request, Claim, Masks
  <2> HIDE DEF given, requests, auto
  <2>7. ASSUME changeQueue' = changeQueue \o requests PROVE Ask
    BY <2>2, <2>5, <2>7, AskEffect
  <2>8. ASSUME PoolsWithFree(copy) # {}, changeQueue' = Append(changeQueue \o requests, auto)
        PROVE  Ask
    <3>1. Append(requests, auto) \in Seq(Request)
      BY <2>5, <2>6, <2>8
    <3>2. changeQueue' = changeQueue \o Append(requests, auto)
      BY <1>1, <2>5, <2>6, <2>8, AppendBehind
    <3>3. \A k \in DOMAIN Append(requests, auto) : Append(requests, auto)[k].type # "Updated"
      BY <2>5, <2>6, <2>8
    <3> QED BY <2>2, <3>1, <3>2, <3>3, AskEffect
  <2> QED BY <1>2, <1>3, <2>2, <2>7, <2>8 DEF ClaimEffect
<1>7. CASE \E reached \in BOOLEAN : FreeAddress(reached)
  <2>1. PICK reached \in BOOLEAN : FreeAddress(reached)
    BY <1>7
  <2> DEFINE r == DeletedReq(<<Head(svc.todo), MaskOf(svc.copy, Head(svc.todo))>>)
  <2>2. /\ svc.pc = "free" /\ UNCHANGED <<claims, claimCache>>
        /\ changeQueue' = Append(changeQueue, r)
    BY <2>1 DEF FreeAddress, Enqueue
  <2>3. (\E p : wk' = [wk EXCEPT !.copy = Spoil(@, p)]) \/ UNCHANGED wk
    BY <2>1 DEF FreeAddress
  <2>4. r \in Request /\ r.type = "Deleted"
    <3>1. svc.todo \in Seq(IPs) /\ svc.todo # <<>> /\ svc.copy \in PoolCopy
      BY <1>1, <2>2 DEF TypeInv, ServiceTaskOK, ServiceTask
    <3>2. Head(svc.todo) \in IPs
      BY <3>1
    <3>3. <<Head(svc.todo), MaskOf(svc.copy, Head(svc.todo))>> \in Claim
      BY <3>1, <3>2, MaskType
    <3> QED BY <3>3 DEF DeletedReq, Request
  <2> HIDE DEF r
  <2>5. /\ <<r>> \in Seq(Request) /\ \A k \in DOMAIN <<r>> : <<r>>[k].type # "Updated"
        /\ changeQueue' = changeQueue \o <<r>>
    BY <1>1, <2>2, <2>4
  <2>6. Ask
    BY <2>2, <2>5, AskEffect
  <2> QED BY <1>2, <1>3, <2>3, <2>6 DEF ClaimEffect
<1>8. PoolsRead \in PoolCopy /\ NoPools \in PoolCopy
  BY PoolCopies DEF TypeInv, TypeOK, TypeOKState
<1> QED BY <1>4, <1>5, <1>6, <1>7, <1>8 DEF ServiceStep, ServiceFault

LEMMA WatchEffect ==
  ASSUME TypeInv, NEW c \in Claim, DeliverClaim(c)
  PROVE  ClaimEffect
<1> USE DEF DeliverClaim
<1>1. wk \in WorkerTask
  BY DEF TypeInv, TypeOK
<1>2. /\ wk'.pc = "assign" /\ wk'.key = c => wk'.apart
      /\ wk'.pc = wk.pc /\ wk'.key = wk.key /\ (~wk'.apart => ~wk.apart)
  BY <1>1 DEF WorkerTask
<1>3. Refresh(c)
  <2>1. CASE claims[c] = None
    BY <1>2, <2>1 DEF Refresh
  <2>2. CASE claims[c] # None
    BY <1>2, <2>2 DEF Refresh
  <2> QED BY <2>1, <2>2
<1>4. WorkerKeeps
  BY <1>2 DEF WorkerKeeps
<1> QED BY <1>3, <1>4 DEF ClaimEffect

\* One request more, to be carried out on the server's own object.
LEMMA AskOne ==
  ASSUME TypeInv, NEW r \in Request, UNCHANGED <<claims, claimCache>>,
         changeQueue' = Append(changeQueue, r),
         \/ r.type # "Updated"
         \/ r.type = "Updated" /\ r.obj = Outdated
         \/ /\ r.type = "Updated" /\ r.obj \in ClaimObject
            /\ claims[r.claim] # None /\ r.obj.node = claims[r.claim].node
  PROVE  Ask
<1>1. changeQueue \in Seq(Request)
  BY DEF TypeInv, TypeOK, TypeOKState
<1>2. ASSUME NEW k \in DOMAIN changeQueue'
      PROVE  (\E j \in DOMAIN changeQueue : changeQueue'[k] = changeQueue[j]) \/ changeQueue'[k] = r
  <2>1. CASE k <= Len(changeQueue)
    BY <1>1, <1>2, <2>1
  <2>2. CASE ~(k <= Len(changeQueue))
    BY <1>1, <1>2, <2>2
  <2> QED BY <2>1, <2>2
<1> QED BY <1>2 DEF Ask

LEMMA VerifyEffect ==
  ASSUME TypeInv, phase = "running", NEW asked, VerifyClaim(asked)
  PROVE  ClaimEffect
<1> DEFINE c == wk.key
           obj == claimCache[c]
           owners == IF asked THEN Alive(obj.owners) ELSE obj.owners
<1>1. /\ wk.pc = "verify" /\ UNCHANGED claims
      /\ \/ UNCHANGED <<claimCache, changeQueue>>
         \/ /\ obj # None
            /\ claimCache' = [claimCache EXCEPT ![c].owners = owners]
            /\ changeQueue' = Append(changeQueue, UpdatedReq(c, TheCached))
      /\ \/ wk' = IdleWorker
         \/ wk' = [wk EXCEPT !.pc = "orphan"]
         \/ wk' = [wk EXCEPT !.pc = "assign"] /\ ~IsLive(obj.node)
  BY DEF VerifyClaim, Finished, Enqueue
<1>2. /\ c \in Claim /\ wk \in WorkerTask /\ obj \in CachedClaim \cup {None}
      /\ claimCache \in [Claim -> CachedClaim \cup {None}]
  BY <1>1 DEF TypeInv, TypeOK, TypeOKState, WorkerTaskOK
<1>3. obj # None => owners \in SUBSET Services
  BY <1>2 DEF CachedClaim, Alive
<1> HIDE DEF owners
<1>4. WorkerKeeps
  <2>1. CASE wk' = IdleWorker
    BY <2>1 DEF WorkerKeeps, IdleWorker
  <2>2. CASE wk' = [wk EXCEPT !.pc = "orphan"]
    BY <1>2, <2>2 DEF WorkerKeeps, WorkerTask
  <2>3. CASE wk' = [wk EXCEPT !.pc = "assign"] /\ ~IsLive(obj.node)
    <3>1. wk'.key = wk.key
      BY <1>2, <2>3 DEF WorkerTask
    <3> QED BY <2>3, <3>1 DEF WorkerKeeps
  <2> QED BY <1>1, <2>1, <2>2, <2>3
<1>5. CASE UNCHANGED <<claimCache, changeQueue>>
  BY <1>1, <1>4, <1>5, QuietEffect DEF ClaimEffect
<1>6. CASE /\ obj # None
           /\ claimCache' = [claimCache EXCEPT ![c].owners = owners]
           /\ changeQueue' = Append(changeQueue, UpdatedReq(c, TheCached))
  <2> DEFINE new == [claimCache[c] EXCEPT !.owners = owners]
  <2>1. new \in CachedClaim /\ new.fresh = claimCache[c].fresh /\ new.node = claimCache[c].node
    BY <1>2, <1>3, <1>6 DEF CachedClaim
  <2>2. claimCache' = [claimCache EXCEPT ![c] = new]
    BY <1>6
  <2> HIDE DEF new
  <2>3. Edit(c)
    BY <1>1, <1>6, <2>1, <2>2 DEF Edit
  <2> QED BY <1>2, <1>4, <2>3 DEF ClaimEffect
<1> QED BY <1>1, <1>5, <1>6

LEMMA AssignEffect ==
  ASSUME TypeInv, AssignNode
  PROVE  ClaimEffect
<1> DEFINE c == wk.key
           alive == Listed \cap live
           new == [claimCache[c] EXCEPT !.node = GetNode(alive)]
<1>1. /\ wk.pc = "assign" /\ UNCHANGED claims /\ wk' = IdleWorker
      /\ \/ UNCHANGED <<claimCache, changeQueue>>
         \/ /\ UNCHANGED claimCache
            /\ changeQueue' = Append(changeQueue, UpdatedReq(c, Outdated))
         \/ /\ alive # {} /\ ~wk.apart /\ claimCache' = [claimCache EXCEPT ![c] = new]
            /\ changeQueue' = Append(changeQueue, UpdatedReq(c, TheCached))
  BY DEF AssignNode, Finished, Enqueue
<1>2. c \in Claim /\ claimCache \in [Claim -> CachedClaim \cup {None}]
  BY <1>1 DEF TypeInv, TypeOK, TypeOKState, WorkerTaskOK
<1>3. WorkerKeeps
  BY <1>1 DEF WorkerKeeps, IdleWorker
<1>4. alive # {} => GetNode(alive) \in Nodes
  BY NodeIsListed DEF Listed
<1> HIDE DEF alive
<1>5. CASE UNCHANGED <<claimCache, changeQueue>>
  BY <1>1, <1>3, <1>5, QuietEffect DEF ClaimEffect
<1>6. CASE UNCHANGED claimCache /\ changeQueue' = Append(changeQueue, UpdatedReq(c, Outdated))
  <2>1. /\ UpdatedReq(c, Outdated) \in Request /\ UpdatedReq(c, Outdated).type = "Updated"
        /\ UpdatedReq(c, Outdated).obj = Outdated
    BY <1>2 DEF UpdatedReq, Request
  <2>2. Ask
    BY <1>1, <1>6, <2>1, AskOne
  <2> QED BY <1>3, <2>2 DEF ClaimEffect
<1>7. CASE /\ alive # {} /\ ~wk.apart /\ claimCache' = [claimCache EXCEPT ![c] = new]
           /\ changeQueue' = Append(changeQueue, UpdatedReq(c, TheCached))
  <2>1. claimCache[c] # None /\ claimCache[c] \in CachedClaim
    BY <1>1, <1>2, <1>7 DEF TypeInv, WorkerTaskOK
  <2>2. new \in CachedClaim /\ new.fresh = claimCache[c].fresh /\ new.node \in Nodes
    BY <1>4, <1>7, <2>1 DEF CachedClaim
  <2> HIDE DEF new
  <2>3. Edit(c)
    BY <1>1, <1>7, <2>1, <2>2 DEF Edit, Assigning
  <2> QED BY <1>2, <1>3, <2>3 DEF ClaimEffect
<1> QED BY <1>1, <1>5, <1>6, <1>7

LEMMA WorkerEffect ==
  ASSUME TypeInv, phase = "running", ClaimStep \/ ClaimFault
  PROVE  ClaimEffect
<1>1. CASE TakeClaim
  <2>1. UNCHANGED <<claims, claimCache, changeQueue>> /\ wk'.pc = "verify"
    BY <1>1 DEF TakeClaim, IdleWorker
  <2> QED BY <2>1, QuietEffect DEF ClaimEffect, WorkerKeeps
<1>2. CASE VerifyClaim(TRUE) \/ VerifyClaim(FALSE)
  BY <1>2, VerifyEffect
<1>3. ASSUME NEW copy \in PoolCopy, DropOrphan(copy) PROVE ClaimEffect
  <2> DEFINE r == DeletedReq(<<wk.key[1], MaskOf(copy, wk.key[1])>>)
  <2>1. /\ wk.pc = "orphan" /\ UNCHANGED <<claims, claimCache>>
        /\ changeQueue' = Append(changeQueue, r)
        /\ wk' = IdleWorker \/ wk' = [wk EXCEPT !.pc = "free", !.copy = copy]
    BY <1>3 DEF DropOrphan, Finished, Enqueue
  <2>2. wk.key \in Claim /\ wk \in WorkerTask
    BY <2>1 DEF TypeInv, TypeOK, WorkerTaskOK
  <2>3. r \in Request /\ r.type = "Deleted"
    <3>1. wk.key[1] \in IPs
      BY <2>2 DEF Claim
    <3>2. <<wk.key[1], MaskOf(copy, wk.key[1])>> \in Claim
      BY <3>1, MaskType
    <3> QED BY <3>2 DEF DeletedReq, Request
  <2> HIDE DEF r
  <2>4. Ask
    BY <2>1, <2>3, AskOne
  <2>5. wk'.pc # "assign"
    <3>1. CASE wk' = IdleWorker
      BY <3>1 DEF IdleWorker
    <3>2. CASE wk' = [wk EXCEPT !.pc = "free", !.copy = copy]
      BY <2>2, <3>2 DEF WorkerTask
    <3> QED BY <2>1, <3>1, <3>2
  <2> QED BY <2>4, <2>5 DEF ClaimEffect, WorkerKeeps
<1>4. CASE FreeOrphanAddress(TRUE) \/ FreeOrphanAddress(FALSE) \/ NodesUnread
  <2>1. UNCHANGED <<claims, claimCache, changeQueue>> /\ wk' = IdleWorker
    BY <1>4 DEF FreeOrphanAddress, NodesUnread, Finished
  <2> QED BY <2>1, QuietEffect DEF ClaimEffect, WorkerKeeps, IdleWorker
<1>5. CASE AssignNode
  BY <1>5, AssignEffect
<1>6. PoolsRead \in PoolCopy /\ NoPools \in PoolCopy
  BY PoolCopies DEF TypeInv, TypeOK, TypeOKState
<1> QED BY <1>1, <1>2, <1>3, <1>4, <1>5, <1>6 DEF ClaimStep, ClaimFault

-----------------------------------------------------------------------------
LEMMA ChangeEffect ==
  ASSUME TypeInv, Consistent, ChangeStep \/ ChangeFault
  PROVE  ClaimEffect
<1> DEFINE r == Head(changeQueue)
<1>1. /\ changeQueue \in Seq(Request) /\ cw \in Request \cup {None}
      /\ claims \in [Claim -> ClaimObject \cup {None}]
      /\ claimCache \in [Claim -> CachedClaim \cup {None}]
  BY DEF TypeInv, TypeOK, TypeOKState
<1>2. UNCHANGED wk
  BY DEF ChangeStep, ChangeFault, CreateClaim, AddOwner, UpdateClaim, DeleteClaim, CallFails,
         GetFails
<1>3. WorkerKeeps
  BY <1>2 DEF WorkerKeeps
<1>4. changeQueue # <<>> =>
        /\ r \in Request /\ r.claim \in Claim /\ Tail(changeQueue) \in Seq(Request)
        /\ r = changeQueue[1] /\ 1 \in DOMAIN changeQueue
        /\ \A k \in DOMAIN Tail(changeQueue) :
             \E j \in DOMAIN changeQueue : Tail(changeQueue)[k] = changeQueue[j]
  <2>1. changeQueue # <<>> => r = changeQueue[1] /\ 1 \in DOMAIN changeQueue
    BY <1>1
  <2> QED BY <1>1, <2>1, HeadTypes, TailEffect
<1>5. ASSUME changeQueue # <<>>, UNCHANGED <<claims, claimCache>>, changeQueue' = Tail(changeQueue)
      PROVE  Ask
  BY <1>4, <1>5 DEF Ask
<1>6. ASSUME changeQueue # <<>>, NEW obj \in ClaimObject \cup {None},
             Store(r.claim, obj, Tail(changeQueue)),
             \/ obj = None
             \/ claims[r.claim] = None /\ obj.node = None
             \/ claims[r.claim] # None /\ obj.node = claims[r.claim].node
             \/ /\ claims[r.claim] # None /\ claimCache[r.claim] # None
                /\ claimCache[r.claim].fresh /\ obj.node = claimCache[r.claim].node
      PROVE  Keep(r.claim) /\ r.claim \in Claim
  <2> HIDE DEF r
  <2> QED BY <1>4, <1>6 DEF Keep
<1>7. CASE CreateClaim
  <2> USE <1>7 DEF CreateClaim
  <2>1. CASE claims[r.claim] = None
    <3>1. NewClaim(r.owner) \in ClaimObject /\ NewClaim(r.owner).node = None
      BY <1>1, HeadTypes DEF NewClaim, ClaimObject
    <3>2. Store(r.claim, NewClaim(r.owner), Tail(changeQueue))
      BY <2>1
    <3> QED BY <1>3, <1>6, <2>1, <3>1, <3>2 DEF ClaimEffect
  <2>2. CASE claims[r.claim] # None
    BY <1>3, <1>5, <2>2 DEF ClaimEffect
  <2> QED BY <2>1, <2>2
<1>8. CASE AddOwner
  <2> USE <1>8 DEF AddOwner
  <2> DEFINE c == cw.claim
             new == WithOwner(claims[c], cw.owner)
  <2>1. cw \in Request /\ cw.type = "Added"
    BY <1>1 DEF TypeInv
  <2>2. c \in Claim /\ cw.owner \in Services
    BY <2>1 DEF Request
  <2>3. claims[c] \in ClaimObject /\ claims[c] # None
    BY <1>1, <2>2
  <2>4. new \in ClaimObject /\ new.node = claims[c].node
    BY <2>2, <2>3 DEF WithOwner, ClaimObject
  <2>5. CASE UNCHANGED changeQueue
    BY <1>3, <2>5, QuietEffect DEF ClaimEffect
  <2>6. CASE changeQueue' = Append(changeQueue, UpdatedReq(c, new))
    <3> HIDE DEF new
    <3>1. /\ UpdatedReq(c, new) \in Request /\ UpdatedReq(c, new).type = "Updated"
          /\ UpdatedReq(c, new).obj = new /\ UpdatedReq(c, new).claim = c
      BY <2>2, <2>4 DEF UpdatedReq, Request
    <3>2. Ask
      BY <2>3, <2>4, <2>6, <3>1, AskOne
    <3> QED BY <1>3, <3>2 DEF ClaimEffect
  <2> QED BY <2>5, <2>6 DEF Enqueue
<1>9. CASE UpdateClaim
  <2> USE <1>9 DEF UpdateClaim
  <2>1. CASE Current(r) = None
    BY <1>3, <1>5, <2>1 DEF ClaimEffect
  <2>2. CASE Current(r) # None
    <3>1. Current(r) \in ClaimObject \cup {None}
      BY CurrentTypes DEF Consistent
    <3>2. Store(r.claim, Current(r), Tail(changeQueue))
      BY <2>2
    <3>3. \/ claims[r.claim] # None /\ Current(r).node = claims[r.claim].node
          \/ /\ claims[r.claim] # None /\ claimCache[r.claim] # None
             /\ claimCache[r.claim].fresh /\ Current(r).node = claimCache[r.claim].node
      <4>1. CASE r.obj = TheCached
        <5>1. claimCache[r.claim] # None
          BY <1>4, <4>1 DEF Consistent, RequestsOK
        <5> QED BY <2>2, <4>1, <5>1 DEF Current
      <4>2. CASE r.obj # TheCached
        <5>1. claims[r.claim] # None /\ r.obj # Outdated /\ Current(r) = r.obj
          BY <2>2, <4>2 DEF Current
        <5>2. r.obj.node = claims[r.claim].node
          BY <1>4, <4>2, <5>1 DEF Consistent, ReadKeepsNode
        <5> QED BY <5>1, <5>2
      <4> QED BY <4>1, <4>2
    <3> HIDE DEF r
    <3>4. Keep(r.claim) /\ r.claim \in Claim
      BY <1>6, <1>9, <3>1, <3>2, <3>3
    <3> QED BY <1>3, <3>4 DEF ClaimEffect
  <2> QED BY <2>1, <2>2
<1>10. CASE DeleteClaim
  <2>1. Store(r.claim, None, Tail(changeQueue)) /\ changeQueue # <<>>
    BY <1>10 DEF DeleteClaim
  <2> QED BY <1>3, <1>6, <2>1 DEF ClaimEffect
<1>11. CASE CallFails
  BY <1>3, <1>5, <1>11 DEF CallFails, ClaimEffect
<1>12. CASE GetFails
  <2>1. /\ cw \in Request /\ cw.type # "Updated" /\ UNCHANGED <<claims, claimCache>>
        /\ changeQueue' = Append(changeQueue, cw)
    BY <1>1, <1>12 DEF GetFails, Enqueue, TypeInv
  <2>2. Ask
    BY <2>1, AskOne
  <2> QED BY <1>3, <2>2 DEF ClaimEffect
<1> QED BY <1>7, <1>8, <1>9, <1>10, <1>11, <1>12 DEF ChangeStep, ChangeFault

(* Whatever a step is, it does one of the five things.                     *)
LEMMA StepEffect == TypeInv /\ Consistent /\ [Next]_vars => ClaimEffect
<1> SUFFICES ASSUME TypeInv, Consistent, [Next]_vars PROVE ClaimEffect
  OBVIOUS
<1>1. UNCHANGED <<claims, claimCache, changeQueue, wk>> => ClaimEffect
  BY QuietEffect DEF ClaimEffect, WorkerKeeps
<1>2. Restarted => ClaimEffect
  BY DEF Restarted, ClaimEffect, Lose, WorkerKeeps, IdleWorker
<1>3. CASE UNCHANGED vars
  BY <1>1, <1>3 DEF vars, schedVars
<1>4. CASE \E s \in Services : UserChange(s)
  BY <1>1, <1>4 DEF UserChange
<1>5. CASE \E n \in Nodes : Heartbeat(n) \/ NodeFails(n) \/ NodeStarts(n)
  BY <1>1, <1>5 DEF Heartbeat, NodeFails, NodeStarts, schedVars
<1>6. CASE StartWorkers
  BY <1>1, <1>6 DEF StartWorkers
<1>7. CASE SchedulerFails \/ WatchBreaks
  BY <1>1, <1>2, <1>7 DEF SchedulerFails, WatchBreaks
<1>8. CASE Goroutines
  BY <1>8, ServiceEffect, WorkerEffect, ChangeEffect DEF Goroutines
<1>9. CASE CallFault
  <2>1. CASE ClaimsUnlisted
    BY <1>1, <2>1 DEF ClaimsUnlisted
  <2>2. CASE phase = "running" /\ (ServiceFault \/ ClaimFault \/ ChangeFault)
    BY <2>2, ServiceEffect, WorkerEffect, ChangeEffect
  <2> QED BY <1>9, <2>1, <2>2 DEF CallFault
<1>10. CASE \E c \in Claim : ClaimEvent(c)
  BY <1>10, WatchEffect DEF ClaimEvent
<1>11. CASE MonitorTick \/ Monitor \/ Resync
  BY <1>1, <1>11 DEF MonitorTick, Monitor, Resync, Tick, MarkNode, ResyncClaims
<1> QED BY <1>3, <1>4, <1>5, <1>6, <1>7, <1>8, <1>9, <1>10, <1>11 DEF Next

-----------------------------------------------------------------------------
(* What is stored of a claim when the change worker keeps it.              *)
LEMMA KeepStores ==
  ASSUME TypeInv, NEW c \in Claim, Keep(c)
  PROVE  /\ \A d \in Claim \ {c} : claims'[d] = claims[d]
         /\ \/ claims'[c] = claims[c] \/ claims'[c] = None
            \/ claims[c] = None /\ claims'[c] \in ClaimObject /\ claims'[c].node = None
            \/ /\ claims[c] # None /\ claims'[c] \in ClaimObject
               /\ \/ claims'[c].node = claims[c].node
                  \/ /\ claimCache[c] # None /\ claimCache[c].fresh
                     /\ claims'[c].node = claimCache[c].node
         /\ \A d \in Claim :
              /\ claimCache[d] = None <=> claimCache'[d] = None
              /\ claimCache[d] # None => /\ claimCache'[d].node = claimCache[d].node
                                         /\ claimCache'[d].fresh => claimCache[d].fresh
              /\ claims'[d] # claims[d] /\ claimCache'[d] # None => ~claimCache'[d].fresh
         /\ \A k \in DOMAIN changeQueue' : \E j \in DOMAIN changeQueue :
              \/ /\ changeQueue'[k] = changeQueue[j]
                 /\ \/ claims'[changeQueue[j].claim] = claims[changeQueue[j].claim]
                    \/ changeQueue[j].type # "Updated"
                    \/ changeQueue[j].obj = TheCached
              \/ changeQueue'[k].type = "Updated" /\ changeQueue'[k].obj = Outdated
<1>1. PICK obj \in ClaimObject \cup {None}, queue \in Seq(Request) :
        /\ \A k \in DOMAIN queue : \E j \in DOMAIN changeQueue : queue[k] = changeQueue[j]
        /\ Store(c, obj, queue)
        /\ \/ obj = None
           \/ claims[c] = None /\ obj.node = None
           \/ claims[c] # None /\ obj.node = claims[c].node
           \/ /\ claims[c] # None /\ claimCache[c] # None /\ claimCache[c].fresh
              /\ obj.node = claimCache[c].node
  BY DEF Keep
<1>2. /\ claims \in [Claim -> ClaimObject \cup {None}]
      /\ claimCache \in [Claim -> CachedClaim \cup {None}]
  BY DEF TypeInv, TypeOK, TypeOKState
<1>3. CASE claims[c] = obj
  <2>1. UNCHANGED <<claims, claimCache>> /\ changeQueue' = queue
    BY <1>1, <1>3 DEF Store
  <2>2. \A k \in DOMAIN changeQueue' : \E j \in DOMAIN changeQueue : changeQueue'[k] = changeQueue[j]
    BY <1>1, <2>1
  <2> QED BY <2>1, <2>2
<1>4. CASE claims[c] # obj
  <2>1. /\ claims' = [claims EXCEPT ![c] = obj]
        /\ claimCache' = IF claimCache[c] = None THEN claimCache
                         ELSE [claimCache EXCEPT ![c].fresh = FALSE]
        /\ changeQueue' = Outdate(queue, c, FALSE)
    BY <1>1, <1>4 DEF Store
  <2>2. claims'[c] = obj /\ \A d \in Claim \ {c} : claims'[d] = claims[d]
    BY <1>2, <2>1
  <2>3. ASSUME NEW d \in Claim
        PROVE  /\ claimCache[d] = None <=> claimCache'[d] = None
               /\ claimCache[d] # None => /\ claimCache'[d].node = claimCache[d].node
                                          /\ claimCache'[d].fresh => claimCache[d].fresh
               /\ d = c /\ claimCache'[d] # None => ~claimCache'[d].fresh
    <3>1. CASE claimCache[c] = None \/ d # c
      BY <1>2, <2>1, <3>1
    <3>2. CASE claimCache[c] # None /\ d = c
      <4> DEFINE new == [claimCache[c] EXCEPT !.fresh = FALSE]
      <4>1. new \in CachedClaim /\ new.node = claimCache[c].node /\ new.fresh = FALSE /\ new # None
        BY <1>2, <3>2, ObjectsAssumption DEF CachedClaim
      <4>2. claimCache'[c] = new
        BY <1>2, <2>1, <3>2
      <4> HIDE DEF new
      <4> QED BY <3>2, <4>1, <4>2
    <3> QED BY <3>1, <3>2
  <2>4. ASSUME NEW k \in DOMAIN changeQueue'
        PROVE  \E j \in DOMAIN changeQueue :
                 \/ /\ changeQueue'[k] = changeQueue[j]
                    /\ \/ claims'[changeQueue[j].claim] = claims[changeQueue[j].claim]
                       \/ changeQueue[j].type # "Updated"
                       \/ changeQueue[j].obj = TheCached
                 \/ changeQueue'[k].type = "Updated" /\ changeQueue'[k].obj = Outdated
    <3>1. k \in DOMAIN queue /\ queue[k] \in Request
      BY <2>1, <2>4 DEF Outdate
    <3>2. PICK j \in DOMAIN changeQueue : queue[k] = changeQueue[j]
      BY <1>1, <3>1
    <3>3. CASE queue[k].type = "Updated" /\ queue[k].claim = c /\ queue[k].obj # TheCached
      <4>1. changeQueue'[k] = [queue[k] EXCEPT !.obj = Outdated]
        BY <2>1, <3>1, <3>3 DEF Outdate
      <4> QED BY <3>1, <3>3, <4>1 DEF Request
    <3>4. CASE ~(queue[k].type = "Updated" /\ queue[k].claim = c /\ queue[k].obj # TheCached)
      <4>1. changeQueue'[k] = queue[k]
        BY <2>1, <3>1, <3>4 DEF Outdate
      <4>2. queue[k].claim \in Claim
        BY <3>1 DEF Request
      <4> QED BY <2>2, <3>2, <3>4, <4>1, <4>2
    <3> QED BY <3>3, <3>4
  <2> HIDE DEF Store, Keep
  <2> QED BY <1>1, <1>4, <2>2, <2>3, <2>4
<1> QED BY <1>3, <1>4

LEMMA ConsistentStep ==
  ASSUME TypeInv, TypeInv', Consistent, ClaimEffect
  PROVE  Consistent'
<1>1. /\ changeQueue \in Seq(Request) /\ changeQueue' \in Seq(Request)
      /\ claims \in [Claim -> ClaimObject \cup {None}]
      /\ claims' \in [Claim -> ClaimObject \cup {None}]
      /\ claimCache \in [Claim -> CachedClaim \cup {None}]
      /\ claimCache' \in [Claim -> CachedClaim \cup {None}]
  BY DEF TypeInv, TypeOK, TypeOKState
<1>2. \A k \in DOMAIN changeQueue : changeQueue[k] \in Request /\ changeQueue[k].claim \in Claim
  <2>1. \A k \in DOMAIN changeQueue : changeQueue[k] \in Request
    BY <1>1
  <2> QED BY <2>1 DEF Request
<1>3. \A k \in DOMAIN changeQueue' : changeQueue'[k] \in Request /\ changeQueue'[k].claim \in Claim
  <2>1. \A k \in DOMAIN changeQueue' : changeQueue'[k] \in Request
    BY <1>1
  <2> QED BY <2>1 DEF Request
<1>4. CASE Ask
  <2> USE <1>4 DEF Ask
  <2>1. RequestsOK'
    BY ObjectsAssumption DEF Consistent, RequestsOK
  <2>2. ReadKeepsNode'
    BY ObjectsAssumption DEF Consistent, ReadKeepsNode
  <2> QED BY <2>1, <2>2 DEF Consistent, CacheKeepsNode
<1>5. ASSUME NEW c \in Claim, Edit(c) PROVE Consistent'
  <2>1. PICK new \in CachedClaim :
          /\ claimCache' = [claimCache EXCEPT ![c] = new]
          /\ new.fresh = claimCache[c].fresh
          /\ new.node = claimCache[c].node \/ new.node \in Nodes
    BY <1>5 DEF Edit
  <2>2. /\ UNCHANGED claims /\ claimCache[c] # None /\ new # None
        /\ changeQueue' = Append(changeQueue, UpdatedReq(c, TheCached))
    BY <1>5, ObjectsAssumption DEF Edit
  <2>3. /\ claimCache'[c] = new
        /\ \A d \in Claim \ {c} : claimCache'[d] = claimCache[d]
    BY <1>1, <2>1
  <2>4. ASSUME NEW k \in DOMAIN changeQueue'
        PROVE  \/ \E j \in DOMAIN changeQueue : changeQueue'[k] = changeQueue[j]
               \/ changeQueue'[k].obj = TheCached /\ changeQueue'[k].claim = c
    <3>1. UpdatedReq(c, TheCached).obj = TheCached /\ UpdatedReq(c, TheCached).claim = c
      BY DEF UpdatedReq
    <3>2. CASE k <= Len(changeQueue)
      BY <1>1, <2>2, <2>4, <3>2
    <3>3. CASE ~(k <= Len(changeQueue))
      BY <1>1, <2>2, <2>4, <3>1, <3>3
    <3> QED BY <3>2, <3>3
  <2>5. RequestsOK'
    BY <1>2, <2>2, <2>3, <2>4 DEF Consistent, RequestsOK
  <2>6. ReadKeepsNode'
    BY <2>2, <2>4 DEF Consistent, ReadKeepsNode
  <2>7. CacheKeepsNode'
    BY <2>1, <2>2, <2>3, ObjectsAssumption DEF Consistent, CacheKeepsNode
  <2> QED BY <2>5, <2>6, <2>7 DEF Consistent
<1>6. ASSUME NEW c \in Claim, Refresh(c) PROVE Consistent'
  <2>1. /\ UNCHANGED claims /\ changeQueue' = Outdate(changeQueue, c, TRUE)
        /\ \A d \in Claim \ {c} : claimCache'[d] = claimCache[d]
        /\ claimCache'[c] # None => claims[c] # None /\ claimCache'[c].node = claims[c].node
    <3>1. CASE claims[c] = None /\ claimCache' = [claimCache EXCEPT ![c] = None]
      BY <1>1, <1>6, <3>1 DEF Refresh
    <3>2. CASE /\ claims[c] # None
               /\ claimCache' = [claimCache EXCEPT ![c] =
                    [owners |-> claims[c].owners, node |-> claims[c].node, fresh |-> TRUE]]
      BY <1>1, <1>6, <3>2 DEF Refresh
    <3> QED BY <1>6, <3>1, <3>2 DEF Refresh
  <2>2. ASSUME NEW k \in DOMAIN changeQueue'
        PROVE  /\ k \in DOMAIN changeQueue
               /\ \/ /\ changeQueue'[k] = changeQueue[k]
                     /\ \/ changeQueue[k].type # "Updated"
                        \/ changeQueue[k].claim # c \/ changeQueue[k].obj # TheCached
                  \/ changeQueue'[k].obj = Outdated
    <3>1. k \in DOMAIN changeQueue
      BY <2>1, <2>2 DEF Outdate
    <3>2. CASE /\ changeQueue[k].type = "Updated" /\ changeQueue[k].claim = c
               /\ changeQueue[k].obj = TheCached
      <4>1. changeQueue'[k] = [changeQueue[k] EXCEPT !.obj = Outdated]
        BY <2>1, <3>1, <3>2 DEF Outdate
      <4> QED BY <1>2, <3>1, <3>2, <4>1 DEF Request
    <3>3. CASE ~(/\ changeQueue[k].type = "Updated" /\ changeQueue[k].claim = c
                 /\ changeQueue[k].obj = TheCached)
      BY <2>1, <3>1, <3>3 DEF Outdate
    <3> QED BY <3>1, <3>2, <3>3
  <2>3. RequestsOK'
    BY <1>2, <2>1, <2>2, ObjectsAssumption DEF Consistent, RequestsOK
  <2>4. ReadKeepsNode'
    BY <2>1, <2>2 DEF Consistent, ReadKeepsNode
  <2>5. CacheKeepsNode'
    BY <2>1 DEF Consistent, CacheKeepsNode
  <2> QED BY <2>3, <2>4, <2>5 DEF Consistent
<1>7. ASSUME NEW c \in Claim, Keep(c) PROVE Consistent'
  <2> HIDE DEF Keep
  <2>1. RequestsOK'
    BY <1>2, <1>7, KeepStores, ObjectsAssumption DEF Consistent, RequestsOK
  <2>2. ReadKeepsNode'
    BY <1>2, <1>7, KeepStores, ObjectsAssumption DEF Consistent, ReadKeepsNode
  <2>3. CacheKeepsNode'
    BY <1>7, KeepStores DEF Consistent, CacheKeepsNode
  <2> QED BY <2>1, <2>2, <2>3 DEF Consistent
<1>8. CASE Lose
  BY <1>8 DEF Lose, Consistent, RequestsOK, ReadKeepsNode, CacheKeepsNode, NoClaims
<1> QED BY <1>4, <1>5, <1>6, <1>7, <1>8 DEF ClaimEffect

LEMMA InvIsInvariant == Spec => [](TypeInv /\ Consistent)
<1>1. Init => TypeInv /\ Consistent
  <2>1. Init => Consistent
    BY DEF Init, Consistent, RequestsOK, ReadKeepsNode, CacheKeepsNode, NoClaims
  <2> QED BY <2>1, InitTypes
<1>2. TypeInv /\ Consistent /\ [Next]_vars => (TypeInv /\ Consistent)'
  <2> SUFFICES ASSUME TypeInv, Consistent, [Next]_vars PROVE TypeInv' /\ Consistent'
    OBVIOUS
  <2>1. TypeInv'
    BY StepTypes DEF Consistent
  <2>2. ClaimEffect
    BY StepEffect
  <2> QED BY <2>1, <2>2, ConsistentStep
<1> QED BY <1>1, <1>2, PTL DEF Spec

(* Every variable keeps its type: whatever fails, no goroutine is left     *)
(* with a task whose service, pool or claim is not there.                  *)
THEOREM TypeCorrect == Spec => []TypeOK
<1>1. TypeInv => TypeOK
  BY DEF TypeInv
<1> QED BY <1>1, InvIsInvariant, PTL

-----------------------------------------------------------------------------
(* What the scheduler promises the IP controllers: a claim is made without *)
(* a node, is given one node after another and never loses it again until  *)
(* it goes, although its object in the cache is changed in place, sent     *)
(* later and outdated meanwhile, and owners are added to what was read.    *)
THEOREM ImplementsLedger == Spec => KeepsLedger
<1> DEFINE placed == [c \in Claim |-> IF claims[c] = None THEN None ELSE [node |-> claims[c].node]]
<1>1. Init => Ledger!Init
  BY DEF Init, Ledger!Init, NoClaims
<1>2. TypeInv /\ Consistent /\ [Next]_vars => [Ledger!Next]_placed
  <2> SUFFICES ASSUME TypeInv, Consistent, ClaimEffect, placed' # placed
               PROVE  Ledger!Next
    BY StepEffect
  <2>1. UNCHANGED claims => placed' = placed
    OBVIOUS
  <2>2. PICK c \in Claim : Keep(c)
    <3> HIDE DEF placed
    <3> QED BY <2>1 DEF ClaimEffect, Ask, Lose, Edit, Refresh
  <2>3. claims \in [Claim -> ClaimObject \cup {None}]
    BY DEF TypeInv, TypeOK, TypeOKState
  <2>4. \A d \in Claim \ {c} : claims'[d] = claims[d]
    BY <2>2, KeepStores
  <2>5. placed' = [placed EXCEPT ![c] = placed'[c]]
    BY <2>4
  <2>6. claims'[c] # claims[c] /\ placed'[c] # placed[c]
    <3>1. placed' # [placed EXCEPT ![c] = placed[c]]
      OBVIOUS
    <3>2. placed'[c] # placed[c]
      <4> HIDE DEF placed
      <4> QED BY <2>5, <3>1
    <3> QED BY <3>2
  <2>7. claims[c] # None => placed[c] # None
    BY <2>3, ObjectsAssumption DEF ClaimObject
  <2>8. CASE claims'[c] = None
    <3>1. placed'[c] = None /\ claims[c] # None
      BY <2>6, <2>8
    <3> QED BY <2>5, <2>7, <3>1 DEF Ledger!Next, Ledger!Change, Ledger!Remove
  <2>9. CASE claims[c] = None /\ claims'[c] # None
    <3>1. placed[c] = None /\ placed'[c] = [node |-> None]
      BY <2>2, <2>6, <2>9, KeepStores
    <3> QED BY <2>5, <3>1 DEF Ledger!Next, Ledger!Change, Ledger!Create, Ledger!Unplaced
  <2>10. CASE claims[c] # None /\ claims'[c] # None
    <3>1. /\ placed'[c] = [node |-> claims'[c].node] /\ placed[c] = [node |-> claims[c].node]
          /\ claims'[c] \in ClaimObject
      BY <2>2, <2>6, <2>10, KeepStores
    <3>2. claims'[c].node # claims[c].node
      BY <2>6, <3>1
    <3>3. claimCache[c] # None /\ claimCache[c].fresh /\ claims'[c].node = claimCache[c].node
      BY <2>2, <2>6, <2>10, <3>2, KeepStores
    <3>4. claims'[c].node # None
      BY <2>10, <3>2, <3>3 DEF Consistent, CacheKeepsNode
    <3>5. claims'[c].node \in Nodes
      BY <3>1, <3>4 DEF ClaimObject
    <3> QED BY <2>5, <2>7, <2>10, <3>1, <3>5 DEF Ledger!Next, Ledger!Change, Ledger!Place
  <2> QED BY <2>8, <2>9, <2>10
<1> QED BY <1>1, <1>2, InvIsInvariant, PTL DEF Spec, KeepsLedger, Ledger!Spec

-----------------------------------------------------------------------------
(* A node is up while its controller never failed.  In time heartbeats     *)
(* keep the monitor from forgetting it.                                    *)
Up(n) == n \in Nodes /\ ctl[n] = "up"

UpIsLive ==
  /\ phase = "running" => \A n \in Nodes : Up(n) => n \in live
  /\ \A n \in mon.todo : Up(n) => n \in mon.newer

(* So the worker has no reason to give a claim on it another node ...      *)
WorkerLeavesUp ==
  wk.pc = "assign" /\ ~wk.apart => ~Up(claimCache[wk.key].node)

(* ... and what it may send for such a claim names the node it is on.      *)
CacheKeepsUp ==
  \A c \in Claim :
    claimCache[c] # None /\ claimCache[c].fresh /\ Up(claims[c].node) =>
      claimCache[c].node = claims[c].node

UpInv == UpIsLive /\ WorkerLeavesUp /\ CacheKeepsUp

LEMMA UpIsLiveStep ==
  ASSUME Timely, SettledStart, TypeInv, UpIsLive, [Next]_vars
  PROVE  UpIsLive' /\ \A n : Up(n)' => Up(n)
<1> USE DEF UpIsLive, Up
<1>1. mon.todo \subseteq Nodes /\ ctl \in [Nodes -> {"up", "down", "starting", "again"}]
  BY DEF TypeInv, TypeOK
<1>2. UNCHANGED <<phase, live, mon, ctl>> => UpIsLive' /\ \A n : Up(n)' => Up(n)
  OBVIOUS
<1>3. Restarted => UpIsLive' /\ \A n : Up(n)' => Up(n)
  BY DEF Restarted, Waiting
<1>4. CASE UNCHANGED vars
  BY <1>2, <1>4 DEF vars, schedVars, envVars
<1>5. CASE \E s \in Services : UserChange(s)
  BY <1>2, <1>5 DEF UserChange
<1>6. ASSUME NEW n \in Nodes, Heartbeat(n) \/ NodeFails(n) \/ NodeStarts(n)
      PROVE  UpIsLive' /\ \A m : Up(m)' => Up(m)
  <2>1. UNCHANGED <<phase, live, mon>> /\ \A m \in Nodes : ctl'[m] = "up" => ctl[m] = "up"
    BY <1>1, <1>6 DEF Heartbeat, NodeFails, NodeStarts, schedVars
  <2> QED BY <1>1, <2>1
<1>7. CASE StartWorkers
  BY <1>7 DEF StartWorkers, Running
<1>8. CASE SchedulerFails \/ WatchBreaks
  BY <1>2, <1>3, <1>8 DEF SchedulerFails, WatchBreaks
<1>9. CASE Goroutines
  <2>1. UNCHANGED <<live, mon>>
    BY <1>9 DEF Goroutines, ServiceStep, Deliver, ListForNew, AllocateInPool, UpdateService,
                UpdateStatus, ListForOld, FreeAddress, ClaimStep, TakeClaim, VerifyClaim,
                DropOrphan, FreeOrphanAddress, AssignNode, ChangeStep, CreateClaim, AddOwner,
                UpdateClaim, DeleteClaim
  <2> QED BY <1>2, <1>9, <2>1 DEF Goroutines, envVars
<1>10. CASE CallFault
  <2>1. UNCHANGED <<phase, ctl>>
    BY <1>10 DEF CallFault
  <2>2. CASE ClaimsUnlisted
    <3>1. mon.todo # {} /\ NextNode \notin mon.newer /\ mon' = Waiting /\ live' = live \ {NextNode}
      BY <2>2 DEF ClaimsUnlisted, Forget
    <3>2. NextNode \in mon.todo
      BY <1>1, <3>1, ListOrderAssumption, MinIsLeast DEF NextNode
    <3> QED BY <1>1, <2>1, <3>1, <3>2 DEF Waiting
  <2>3. CASE ServiceFault \/ ClaimFault \/ ChangeFault
    <3>1. UNCHANGED <<live, mon>>
      BY <2>3 DEF ServiceFault, ListForNew, AllocateInPool, UpdateService, UpdateStatus,
                  ListForOld, FreeAddress, ClaimFault, VerifyClaim, DropOrphan, FreeOrphanAddress, NodesUnread, ChangeFault,
                  CallFails, GetFails
    <3> QED BY <1>2, <2>1, <3>1
  <2> QED BY <1>10, <2>2, <2>3 DEF CallFault
<1>11. CASE (\E c \in Claim : ClaimEvent(c)) \/ Resync
  BY <1>2, <1>11 DEF ClaimEvent, DeliverClaim, Resync, ResyncClaims, envVars
<1>12. CASE MonitorTick
  <2>1. /\ \A n \in Nodes : Running(n) => n \in beaten
        /\ mon' = [todo |-> Listed, newer |-> beaten] /\ UNCHANGED <<live, phase, ctl>>
    BY <1>12 DEF MonitorTick, Tick, envVars
  <2> QED BY <2>1 DEF Running, Listed
<1>13. CASE Monitor
  <2>1. /\ mon.todo # {} /\ UNCHANGED <<phase, ctl>>
        /\ mon' = [todo |-> mon.todo \ {NextNode}, newer |-> mon.newer \ {NextNode}]
        /\ \/ live' = live \cup {NextNode}
           \/ NextNode \notin mon.newer /\ live' = live \ {NextNode}
    BY <1>13 DEF Monitor, MarkNode, Forget, envVars
  <2>2. NextNode \in mon.todo
    BY <1>1, <2>1, ListOrderAssumption, MinIsLeast DEF NextNode
  <2> QED BY <1>1, <2>1, <2>2
<1> QED BY <1>4, <1>5, <1>6, <1>7, <1>8, <1>9, <1>10, <1>11, <1>12, <1>13 DEF Next

LEMMA UpInvStep ==
  ASSUME Timely, SettledStart, TypeInv, TypeInv', Consistent, UpInv, [Next]_vars
  PROVE  UpInv'
<1>1. UpIsLive' /\ \A n : Up(n)' => Up(n)
  BY UpIsLiveStep DEF UpInv
<1>2. ClaimEffect
  BY StepEffect
<1>3. /\ claims \in [Claim -> ClaimObject \cup {None}]
      /\ claims' \in [Claim -> ClaimObject \cup {None}]
      /\ claimCache \in [Claim -> CachedClaim \cup {None}]
      /\ claimCache' \in [Claim -> CachedClaim \cup {None}]
  BY DEF TypeInv, TypeOK, TypeOKState
\* What the worker is about to move is on no node that is up.
<1>4. ASSUME wk'.pc = "assign", ~wk'.apart
      PROVE  wk'.key = wk.key /\ wk.key \in Claim /\ ~Up(claimCache[wk.key].node)
  <2>1. wk'.key = wk.key /\ wk'.key \in Claim
    BY <1>2, <1>4 DEF ClaimEffect, WorkerKeeps, TypeInv, WorkerTaskOK
  <2>2. CASE wk.pc = "assign" /\ ~wk.apart
    BY <2>1, <2>2 DEF UpInv, WorkerLeavesUp
  <2>3. CASE phase = "running" /\ ~IsLive(claimCache[wk.key].node)
    BY <2>1, <2>3, ObjectsAssumption DEF UpInv, UpIsLive, IsLive, Up
  <2> QED BY <1>2, <1>4, <2>1, <2>2, <2>3 DEF ClaimEffect, WorkerKeeps
<1>5. WorkerLeavesUp'
  <2> SUFFICES ASSUME wk'.pc = "assign", ~wk'.apart
               PROVE  claimCache'[wk.key].node = claimCache[wk.key].node
    BY <1>1, <1>4 DEF WorkerLeavesUp
  <2>1. claimCache'[wk'.key] # None /\ wk'.pc # "idle"
    BY DEF TypeInv, WorkerTaskOK
  <2>2. CASE Ask
    BY <2>2 DEF Ask
  <2>3. ASSUME NEW c \in Claim, Edit(c)
        PROVE  claimCache'[wk.key].node = claimCache[wk.key].node
    <3>1. PICK new \in CachedClaim :
            /\ claimCache' = [claimCache EXCEPT ![c] = new]
            /\ new.node = claimCache[c].node \/ wk' = IdleWorker
      BY <2>3 DEF Edit
    <3>2. wk' # IdleWorker
      BY <2>1 DEF IdleWorker
    <3> QED BY <1>3, <1>4, <3>1, <3>2
  <2>4. ASSUME NEW c \in Claim, Refresh(c)
        PROVE  claimCache'[wk.key].node = claimCache[wk.key].node
    BY <1>3, <1>4, <2>4 DEF Refresh
  <2>5. ASSUME NEW c \in Claim, Keep(c)
        PROVE  claimCache'[wk.key].node = claimCache[wk.key].node
    BY <1>4, <2>1, <2>5, KeepStores
  <2>6. ~Lose
    BY <2>1 DEF Lose, IdleWorker
  <2> QED BY <1>2, <2>2, <2>3, <2>4, <2>5, <2>6 DEF ClaimEffect
<1>6. CacheKeepsUp'
  <2> SUFFICES ASSUME NEW c \in Claim, claimCache'[c] # None, claimCache'[c].fresh,
                      Up(claims'[c].node)
               PROVE  claimCache'[c].node = claims'[c].node
    BY <1>1 DEF CacheKeepsUp
  <2>1. claimCache[c] # None /\ claimCache[c].fresh /\ claims'[c] = claims[c]
          => claimCache[c].node = claims[c].node
    BY DEF UpInv, CacheKeepsUp
  <2>2. CASE Ask
    BY <2>1, <2>2 DEF Ask
  <2>3. ASSUME NEW d \in Claim, Edit(d)
        PROVE  claimCache'[c].node = claims'[c].node
    <3>1. PICK new \in CachedClaim :
            /\ claimCache' = [claimCache EXCEPT ![d] = new]
            /\ new.fresh = claimCache[d].fresh
            /\ new.node = claimCache[d].node \/ Assigning(d)
      BY <2>3 DEF Edit
    <3>2. UNCHANGED claims /\ claimCache[d] # None
      BY <2>3 DEF Edit
    <3>3. CASE c # d
      BY <1>3, <2>1, <3>1, <3>2, <3>3
    <3>4. CASE c = d
      <4>1. claimCache'[c] = new /\ claimCache[c].node = claims[c].node
        BY <1>3, <2>1, <3>1, <3>2, <3>4
      <4>2. ~Assigning(d)
        BY <3>2, <3>4, <4>1 DEF Assigning, UpInv, WorkerLeavesUp
      <4> QED BY <3>1, <3>2, <3>4, <4>1, <4>2
    <3> QED BY <3>3, <3>4
  <2>4. ASSUME NEW d \in Claim, Refresh(d)
        PROVE  claimCache'[c].node = claims'[c].node
    BY <1>3, <2>1, <2>4 DEF Refresh
  <2>5. ASSUME NEW d \in Claim, Keep(d)
        PROVE  claimCache'[c].node = claims'[c].node
    BY <2>1, <2>5, KeepStores
  <2>6. ~Lose
    BY DEF Lose, NoClaims
  <2> QED BY <1>2, <2>2, <2>3, <2>4, <2>5, <2>6 DEF ClaimEffect
<1> QED BY <1>1, <1>5, <1>6 DEF UpInv

(* If heartbeats come in time and the monitor saw the running controllers  *)
(* before the other goroutines start, the scheduler never moves a claim    *)
(* from a controller that never failed: not when a call fails, the watch   *)
(* breaks, the process is replaced or other controllers come and go.       *)
THEOREM NodesAreKept == ASSUME Timely, SettledStart PROVE Spec => NoNeedlessMove
<1>1. Init => UpInv
  BY DEF Init, UpInv, UpIsLive, WorkerLeavesUp, CacheKeepsUp, Waiting, IdleWorker, NoClaims
<1>2. TypeInv /\ TypeInv' /\ Consistent /\ UpInv /\ [Next]_vars => UpInv'
  BY UpInvStep
<1>3. TypeInv /\ Consistent /\ UpInv /\ [Next]_vars =>
        [\A c \in Claim :
           /\ claims[c] # None /\ claims[c].node # None
           /\ claims'[c] # None /\ claims'[c].node # claims[c].node
           => ctl[claims[c].node] # "up"]_vars
  <2> SUFFICES ASSUME TypeInv, Consistent, UpInv, ClaimEffect, NEW c \in Claim,
                      claims[c] # None, claims[c].node # None,
                      claims'[c] # None, claims'[c].node # claims[c].node
               PROVE  ctl[claims[c].node] # "up"
    BY StepEffect
  <2>1. PICK d \in Claim : Keep(d)
    BY DEF ClaimEffect, Ask, Lose, Edit, Refresh
  <2>2. claimCache[c] # None /\ claimCache[c].fresh /\ claims'[c].node = claimCache[c].node
    BY <2>1, KeepStores
  <2>3. claims[c].node \in Nodes
    BY DEF TypeInv, TypeOK, TypeOKState, ClaimObject
  <2> QED BY <2>2, <2>3 DEF UpInv, CacheKeepsUp, Up
<1> QED BY <1>1, <1>2, <1>3, InvIsInvariant, PTL DEF Spec, NoNeedlessMove

-----------------------------------------------------------------------------
(* Only addresses of B are allocated, pool by pool.  An update writes the  *)
(* whole list of allocations back from the copy that a goroutine holds, so *)
(* the copies must be right too.                                           *)
CopiesWithin(B) ==
  \A p \in Pools : pools[p] \cup svc.copy.alloc[p] \cup wk.copy.alloc[p] \subseteq B[p]

(* The address the service watcher is about to allocate is one of B.       *)
AllocatesWithin(B) == svc.pc = "pool" => svc.ip \in B[svc.pool]

\* The lists of a step come from the pools and the copies there were.
LEMMA SameCopies ==
  ASSUME TypeInv, NEW B, CopiesWithin(B),
         \A p \in Pools :
           /\ pools'[p] \subseteq pools[p] \cup svc.copy.alloc[p] \cup wk.copy.alloc[p]
           /\ svc'.copy.alloc[p] \subseteq pools[p] \cup svc.copy.alloc[p]
           /\ wk'.copy.alloc[p] \subseteq pools[p] \cup wk.copy.alloc[p]
  PROVE  CopiesWithin(B)'
BY DEF CopiesWithin

LEMMA SpoilKeepsAlloc ==
  ASSUME NEW copy \in PoolCopy, NEW p
  PROVE  Spoil(copy, p).alloc = copy.alloc
BY DEF Spoil, PoolCopy

LEMMA ServiceCopies ==
  ASSUME TypeInv, NEW B, CopiesWithin(B), AllocatesWithin(B), ServiceStep \/ ServiceFault
  PROVE  CopiesWithin(B)'
<1>1. /\ svc \in ServiceTask /\ svc.copy \in PoolCopy /\ wk \in WorkerTask /\ wk.copy \in PoolCopy
      /\ pools \in [Pools -> SUBSET IPs]
  BY DEF TypeInv, TypeOK, TypeOKState, ServiceTask, WorkerTask
<1>2. /\ NoTask.copy = NoPools /\ IdleWorker.copy = NoPools
      /\ \A p \in Pools : NoPools.alloc[p] = {} /\ PoolsRead.alloc[p] = pools[p]
  BY DEF NoTask, IdleWorker, NoPools, PoolsRead
<1>3. AfterNew(svc).copy = svc.copy \/ AfterNew(svc).copy = NoPools
  BY <1>1, <1>2 DEF AfterNew, ServiceTask
<1>4. CASE \E s \in Services : Deliver(s)
  <2>1. UNCHANGED <<pools, wk>> /\ svc'.copy = NoPools
    BY <1>4 DEF Deliver, NoTask
  <2> QED BY <1>2, <2>1, SameCopies
<1>5. CASE ListForNew(PoolsRead) \/ ListForNew(NoPools)
  <2>1. PICK copy \in {PoolsRead, NoPools} : ListForNew(copy)
    BY <1>5
  <2>2. UNCHANGED <<pools, wk>>
    BY <2>1 DEF ListForNew
  <2>3. svc' = AfterNew(svc) \/ \E ip, p : svc' = [svc EXCEPT !.pc = "pool", !.ip = ip, !.pool = p, !.copy = copy]
    BY <2>1 DEF ListForNew
  <2>4. svc'.copy \in {svc.copy, PoolsRead, NoPools}
    BY <1>1, <1>3, <2>3 DEF ServiceTask
  <2> QED BY <1>2, <2>2, <2>4, SameCopies
<1>6. CASE \E reached \in BOOLEAN : AllocateInPool(reached)
  <2> DEFINE p == svc.pool
             all == svc.copy.alloc[p] \cup {svc.ip}
  <2>1. /\ svc.pc = "pool" /\ svc' = [svc EXCEPT !.pc = "service", !.copy = NoPools]
        /\ \/ pools' = [pools EXCEPT ![p] = all] /\ wk' = [wk EXCEPT !.copy = Spoil(@, p)]
           \/ UNCHANGED <<pools, wk>>
    BY <1>6 DEF AllocateInPool
  <2>2. p \in Pools /\ svc.ip \in B[p]
    BY <2>1 DEF TypeInv, ServiceTaskOK, AllocatesWithin
  <2>3. all \subseteq B[p]
    BY <2>2 DEF CopiesWithin
  <2>4. svc'.copy = NoPools
    BY <1>1, <2>1 DEF ServiceTask
  <2>5. wk'.copy.alloc = wk.copy.alloc
    BY <1>1, <2>1, SpoilKeepsAlloc DEF WorkerTask
  <2> HIDE DEF all, p
  <2>6. \A o \in Pools : pools'[o] = pools[o] \/ (o = p /\ pools'[o] = all)
    <3>1. CASE pools' = [pools EXCEPT ![p] = all]
      BY <1>1, <2>2, <3>1
    <3> QED BY <2>1, <3>1
  <2> QED BY <1>2, <2>3, <2>4, <2>5, <2>6 DEF CopiesWithin
<1>7. CASE UpdateService(TRUE) \/ UpdateService(FALSE) \/ UpdateStatus(TRUE) \/ UpdateStatus(FALSE)
  <2>1. UNCHANGED <<pools, wk>> /\ (svc' = AfterNew(svc) \/ svc' = [svc EXCEPT !.pc = "status"])
    BY <1>7 DEF UpdateService, UpdateStatus, AfterUpdate
  <2>2. svc'.copy \in {svc.copy, NoPools}
    BY <1>1, <1>3, <2>1 DEF ServiceTask
  <2> QED BY <1>2, <2>1, <2>2, SameCopies
<1>8. CASE ListForOld(PoolsRead) \/ ListForOld(NoPools)
  <2>1. PICK copy \in {PoolsRead, NoPools} : ListForOld(copy)
    BY <1>8
  <2>2. UNCHANGED <<pools, wk>>
    BY <2>1 DEF ListForOld
  <2>3. \E todo : \/ svc' = NoTask
                 \/ svc' = [[svc EXCEPT !.copy = copy, !.todo = todo] EXCEPT !.pc = "free"]
    BY <2>1 DEF ListForOld, Freeing
  <2>4. svc'.copy \in {PoolsRead, NoPools}
    BY <1>1, <1>2, <2>3 DEF ServiceTask
  <2> QED BY <1>2, <2>2, <2>4, SameCopies
<1>9. CASE \E reached \in BOOLEAN : FreeAddress(reached)
  <2> DEFINE ip == Head(svc.todo)
             p == PoolOf(svc.copy, ip)
             freed == [svc.copy EXCEPT !.alloc[p] = @ \ {ip}]
  <2>1. PICK reached \in BOOLEAN : FreeAddress(reached)
    BY <1>9
  <2>2. CASE PoolsOf(svc.copy, ip) = {}
    <3>1. /\ UNCHANGED <<pools, wk>>
          /\ \/ svc' = NoTask
             \/ svc' = [[svc EXCEPT !.todo = Tail(@)] EXCEPT !.pc = "free"]
      BY <2>1, <2>2 DEF FreeAddress, Freeing
    <3>2. svc'.copy \in {svc.copy, NoPools}
      BY <1>1, <1>2, <3>1 DEF ServiceTask
    <3> QED BY <1>2, <3>1, <3>2, SameCopies
  <2>3. CASE PoolsOf(svc.copy, ip) # {}
    <3>1. /\ \/ svc' = NoTask
             \/ \E copy \in {freed, Spoil(freed, p)} :
                  svc' = [[svc EXCEPT !.todo = Tail(@), !.copy = copy] EXCEPT !.pc = "free"]
          /\ \/ pools' = [pools EXCEPT ![p] = freed.alloc[p]] /\ wk' = [wk EXCEPT !.copy = Spoil(@, p)]
             \/ UNCHANGED <<pools, wk>>
      BY <2>1, <2>3 DEF FreeAddress, Freeing
    <3>2. /\ freed \in PoolCopy
          /\ \A o \in Pools : freed.alloc[o] \subseteq svc.copy.alloc[o]
      BY <1>1 DEF PoolCopy
    <3> HIDE DEF freed, p, ip
    <3>3. Spoil(freed, p).alloc = freed.alloc
      BY <3>2, SpoilKeepsAlloc
    <3>4. svc'.copy \in {NoPools, freed, Spoil(freed, p)}
      BY <1>1, <1>2, <3>1 DEF ServiceTask
    <3>5. wk'.copy.alloc = wk.copy.alloc
      BY <1>1, <3>1, SpoilKeepsAlloc DEF WorkerTask
    <3>6. \A o \in Pools : pools'[o] \subseteq pools[o] \cup freed.alloc[o]
      BY <1>1, <3>1
    <3> QED BY <1>2, <3>2, <3>3, <3>4, <3>5, <3>6, SameCopies
  <2> QED BY <2>2, <2>3
<1> QED BY <1>4, <1>5, <1>6, <1>7, <1>8, <1>9 DEF ServiceStep, ServiceFault

LEMMA WorkerCopies ==
  ASSUME TypeInv, NEW B, CopiesWithin(B), ClaimStep \/ ClaimFault
  PROVE  CopiesWithin(B)'
<1>1. /\ svc \in ServiceTask /\ svc.copy \in PoolCopy /\ wk \in WorkerTask /\ wk.copy \in PoolCopy
      /\ pools \in [Pools -> SUBSET IPs]
  BY DEF TypeInv, TypeOK, TypeOKState, ServiceTask, WorkerTask
<1>2. /\ IdleWorker.copy = NoPools
      /\ \A p \in Pools : NoPools.alloc[p] = {} /\ PoolsRead.alloc[p] = pools[p]
  BY DEF IdleWorker, NoPools, PoolsRead
<1>3. CASE TakeClaim \/ VerifyClaim(TRUE) \/ VerifyClaim(FALSE) \/ AssignNode \/ NodesUnread
  <2>1. /\ UNCHANGED <<pools, svc>>
        /\ \/ wk' = IdleWorker \/ wk' = [IdleWorker EXCEPT !.pc = "verify", !.key = NextItem(claimQueue)]
           \/ wk' = [wk EXCEPT !.pc = "orphan"] \/ wk' = [wk EXCEPT !.pc = "assign"]
    BY <1>3 DEF TakeClaim, VerifyClaim, AssignNode, NodesUnread, Finished
  <2>2. wk'.copy \in {wk.copy, NoPools}
    BY <1>1, <1>2, <2>1 DEF IdleWorker, WorkerTask
  <2> QED BY <1>2, <2>1, <2>2, SameCopies
<1>4. CASE DropOrphan(PoolsRead) \/ DropOrphan(NoPools)
  <2>1. PICK copy \in {PoolsRead, NoPools} : DropOrphan(copy)
    BY <1>4
  <2>2. /\ UNCHANGED <<pools, svc>>
        /\ wk' = IdleWorker \/ wk' = [wk EXCEPT !.pc = "free", !.copy = copy]
    BY <2>1 DEF DropOrphan, Finished
  <2>3. wk'.copy \in {PoolsRead, NoPools}
    BY <1>1, <1>2, <2>2 DEF WorkerTask
  <2> QED BY <1>2, <2>2, <2>3, SameCopies
<1>5. CASE \E reached \in BOOLEAN : FreeOrphanAddress(reached)
  <2> DEFINE p == PoolOf(wk.copy, wk.key[1])
             left == wk.copy.alloc[p] \ {wk.key[1]}
  <2>1. /\ wk' = IdleWorker
        /\ \/ pools' = [pools EXCEPT ![p] = left] /\ svc' = [svc EXCEPT !.copy = Spoil(@, p)]
           \/ UNCHANGED <<pools, svc>>
    BY <1>5 DEF FreeOrphanAddress, Finished
  <2>2. svc'.copy.alloc = svc.copy.alloc
    BY <1>1, <2>1, SpoilKeepsAlloc DEF ServiceTask
  <2>3. \A o \in Pools : pools'[o] \subseteq pools[o] \cup wk.copy.alloc[o]
    <3>1. left \subseteq wk.copy.alloc[p]
      OBVIOUS
    <3> HIDE DEF left, p
    <3> QED BY <1>1, <2>1, <3>1
  <2> QED BY <1>2, <2>1, <2>2, <2>3, SameCopies
<1> QED BY <1>3, <1>4, <1>5 DEF ClaimStep, ClaimFault

LEMMA InitCopies == ASSUME NEW B, Init PROVE CopiesWithin(B)
BY DEF Init, CopiesWithin, NoTask, IdleWorker, NoPools

LEMMA StepCopies ==
  ASSUME TypeInv, NEW B, CopiesWithin(B), AllocatesWithin(B), [Next]_vars
  PROVE  CopiesWithin(B)'
<1>1. UNCHANGED <<pools, svc, wk>> => CopiesWithin(B)'
  BY DEF CopiesWithin
<1>2. Restarted => CopiesWithin(B)'
  BY DEF Restarted, CopiesWithin, NoTask, IdleWorker, NoPools
<1>3. CASE UNCHANGED vars
  BY <1>1, <1>3 DEF vars, schedVars
<1>4. CASE \E s \in Services : UserChange(s)
  BY <1>1, <1>4 DEF UserChange
<1>5. CASE \E n \in Nodes : Heartbeat(n) \/ NodeFails(n) \/ NodeStarts(n)
  BY <1>1, <1>5 DEF Heartbeat, NodeFails, NodeStarts, schedVars
<1>6. CASE StartWorkers \/ SchedulerFails \/ WatchBreaks
  BY <1>1, <1>2, <1>6 DEF StartWorkers, SchedulerFails, WatchBreaks
<1>7. ChangeStep \/ ChangeFault \/ ClaimsUnlisted => CopiesWithin(B)'
  BY <1>1 DEF ChangeStep, ChangeFault, CreateClaim, AddOwner, UpdateClaim, DeleteClaim,
              CallFails, GetFails, ClaimsUnlisted
<1>8. CASE Goroutines \/ CallFault
  BY <1>7, <1>8, ServiceCopies, WorkerCopies DEF Goroutines, CallFault
<1>9. ASSUME NEW c \in Claim, ClaimEvent(c) PROVE CopiesWithin(B)'
  <2>1. wk \in WorkerTask /\ UNCHANGED <<pools, svc>>
        /\ (UNCHANGED wk \/ wk' = [wk EXCEPT !.apart = TRUE])
    BY <1>9 DEF ClaimEvent, DeliverClaim, TypeInv, TypeOK
  <2>2. wk'.copy = wk.copy
    BY <2>1 DEF WorkerTask
  <2> QED BY <2>1, <2>2 DEF CopiesWithin
<1>10. CASE MonitorTick \/ Monitor \/ Resync
  BY <1>1, <1>10 DEF MonitorTick, Monitor, Resync, Tick, MarkNode, ResyncClaims
<1> QED BY <1>3, <1>4, <1>5, <1>6, <1>8, <1>9, <1>10 DEF Next

(* A pool never has an address allocated that its ranges, or its network,  *)
(* do not offer, although every allocation and release writes back the     *)
(* whole list as it was when the pools were listed.  What a pool offers is *)
(* the subject of RangesAreOffered and NetworkIsOffered.                   *)
THEOREM PoolsAllocateTheirOffer ==
  Spec => [](\A p \in Pools : pools[p] \subseteq OfferedBy(p))
<1> DEFINE offers == [p \in Pools |-> OfferedBy(p)]
<1>1. Init => CopiesWithin(offers)
  BY InitCopies
<1>2. TypeInv => AllocatesWithin(offers)
  BY DEF TypeInv, ServiceTaskOK, AllocatesWithin
<1>3. CopiesWithin(offers) => \A p \in Pools : pools[p] \subseteq OfferedBy(p)
  BY DEF CopiesWithin
<1> HIDE DEF offers
<1>4. TypeInv /\ CopiesWithin(offers) /\ [Next]_vars => CopiesWithin(offers)'
  BY <1>2, StepCopies
<1> QED BY <1>1, <1>3, <1>4, InvIsInvariant, PTL DEF Spec
=============================================================================
