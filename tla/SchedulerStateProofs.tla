------------------------- MODULE SchedulerStateProofs -------------------------
(***************************************************************************)
(* What the operators of the scheduler's goroutines return, and that every *)
(* step of the scheduler keeps the types of its state.                     *)
(***************************************************************************)
EXTENDS Scheduler, WorkQueueOpsProofs, PoolAddressesProofs, FiniteSetTheorems

\* What an appended element adds to a list.
LEMMA AppendRange ==
  ASSUME NEW T, NEW list \in Seq(T), NEW e \in T
  PROVE  RangeOf(Append(list, e)) = RangeOf(list) \cup {e}
<1>1. /\ DOMAIN list = 1..Len(list) /\ Len(list) \in Nat
      /\ DOMAIN Append(list, e) = 1..(Len(list) + 1)
      /\ \A k \in 1..Len(list) : Append(list, e)[k] = list[k]
      /\ Append(list, e)[Len(list) + 1] = e
  OBVIOUS
<1>2. 1..(Len(list) + 1) = 1..Len(list) \cup {Len(list) + 1}
  BY <1>1
<1> QED BY <1>1, <1>2 DEF RangeOf

\* Among walks over the list and keeps what is in the set.
KeptBy(kept, T, list, set) ==
  /\ kept[0] = <<>> /\ Among(list, set) = kept[Len(list)]
  /\ \A n \in 0..Len(list) : kept[n] \in Seq(T)
  /\ \A n \in 1..Len(list) :
       kept[n] = IF list[n] \in set THEN Append(kept[n - 1], list[n]) ELSE kept[n - 1]

LEMMA AmongWalks ==
  ASSUME NEW T, NEW list \in Seq(T), NEW set
  PROVE  \E kept : KeptBy(kept, T, list, set)
<1> DEFINE N == Len(list)
           E == <<>>
           SS == Seq(T)
           Body(n, x) == IF list[n] \in set THEN Append(x, list[n]) ELSE x
           turn == [n \in 1..N |-> [x \in SS |-> Body(n, x)]]
           kept == CHOOSE f : f = [n \in 0..N |-> IF n = 0 THEN E ELSE Body(n, f[n - 1])]
<1>1. N \in Nat /\ E \in SS
  OBVIOUS
<1>2. \A n \in 1..N, x \in SS : Body(n, x) \in SS
  OBVIOUS
<1>3. Among(list, set) = kept[N]
  BY DEF Among
<1> HIDE DEF N, E, SS, Body
<1>4. Turns(N, SS, turn) /\ \A n \in 1..N, x \in SS : turn[n][x] = Body(n, x)
  BY <1>2 DEF Turns
<1> HIDE DEF turn
<1>5. kept = [n \in 0..N |-> IF n = 0 THEN E ELSE Body(n, kept[n - 1])]
  <2>1. PICK f : f = [n \in 0..N |-> f[n]] /\ Runs(f, N, SS, E, turn)
    BY <1>1, <1>4, LoopRuns, Zenon
  <2>2. \A n \in 0..N : f[n] \in SS
    BY <1>1, <1>4, <2>1, LoopStaysIn, Zenon
  <2>3. ASSUME NEW n \in 0..N
        PROVE  f[n] = IF n = 0 THEN E ELSE Body(n, f[n - 1])
    <3>1. CASE n = 0
      BY <2>1, <3>1 DEF Runs
    <3>2. CASE n # 0
      <4>1. n \in 1..N /\ f[n - 1] \in SS
        BY <1>1, <2>2, <3>2
      <4>2. f[n] = turn[n][f[n - 1]]
        BY <2>1, <4>1 DEF Runs
      <4> QED BY <1>4, <3>2, <4>1, <4>2
    <3> QED BY <3>1, <3>2
  <2>4. f = [n \in 0..N |-> IF n = 0 THEN E ELSE Body(n, f[n - 1])]
    BY <2>1, <2>3
  <2> QED BY <2>4
<1> HIDE DEF kept
<1>6. Runs(kept, N, SS, E, turn)
  BY <1>1, <1>4, <1>5 DEF Runs
<1>7. \A n \in 0..N : kept[n] \in SS
  BY <1>1, <1>4, <1>6, LoopStaysIn, Zenon
<1>8. kept[0] = E /\ \A n \in 1..N : kept[n] = Body(n, kept[n - 1])
  BY <1>1, <1>5
<1>9. KeptBy(kept, T, list, set)
  BY <1>3, <1>7, <1>8, Zenon DEF KeptBy, N, SS, E, Body
<1> QED BY <1>9, Zenon

\* The services' addresses are numbers.
LEMMA AmongType ==
  ASSUME NEW T, NEW list \in Seq(T), NEW set
  PROVE  Among(list, set) \in Seq(T)
<1>1. Len(list) \in 0..Len(list)
  OBVIOUS
<1> QED BY <1>1, AmongWalks DEF KeptBy

(* What Among keeps: everything in the list that is in the set, and        *)
(* nothing else.                                                           *)
LEMMA AmongKeeps ==
  ASSUME NEW T, NEW list \in Seq(T), NEW set
  PROVE  RangeOf(Among(list, set)) = RangeOf(list) \cap set
<1>1. PICK kept : KeptBy(kept, T, list, set)
  BY AmongWalks, Zenon
<1> DEFINE N == Len(list)
           Upto(n) == {list[k] : k \in 1..n}
           G == {n \in 0..N : RangeOf(kept[n]) = Upto(n) \cap set}
<1>2. N \in Nat /\ DOMAIN list = 1..N
  OBVIOUS
<1>3. 0 \in G
  BY <1>1, <1>2 DEF RangeOf, KeptBy
<1>4. ASSUME NEW n \in 1..N, n - 1 \in G PROVE n \in G
  <2>1. Upto(n) = Upto(n - 1) \cup {list[n]}
    <3>1. 1..n = 1..(n - 1) \cup {n}
      BY <1>2
    <3> QED BY <3>1
  <2>2. /\ RangeOf(kept[n - 1]) = Upto(n - 1) \cap set
        /\ kept[n - 1] \in Seq(T) /\ n \in 0..N /\ list[n] \in T
    BY <1>1, <1>2, <1>4 DEF KeptBy
  <2>3. RangeOf(Append(kept[n - 1], list[n])) = RangeOf(kept[n - 1]) \cup {list[n]}
    BY <2>2, AppendRange
  <2>4. kept[n] = IF list[n] \in set THEN Append(kept[n - 1], list[n]) ELSE kept[n - 1]
    BY <1>1, <1>4 DEF KeptBy
  <2> HIDE DEF Upto
  <2>5. RangeOf(kept[n]) = Upto(n) \cap set
    <3>1. CASE list[n] \in set
      BY <2>1, <2>2, <2>3, <2>4, <3>1
    <3>2. CASE list[n] \notin set
      BY <2>1, <2>2, <2>4, <3>2
    <3> QED BY <3>1, <3>2
  <2> QED BY <2>2, <2>5
<1>5. 0..N \subseteq G
  <2> HIDE DEF N, G
  <2> QED BY <1>2, <1>3, <1>4, UpTo, Zenon
<1>6. RangeOf(kept[N]) = Upto(N) \cap set
  <2>1. N \in G
    BY <1>2, <1>5
  <2> QED BY <2>1
<1>7. RangeOf(list) = Upto(N)
  BY <1>2 DEF RangeOf
<1>8. Among(list, set) = kept[N]
  BY <1>1 DEF KeptBy
<1> QED BY <1>6, <1>7, <1>8, Zenon

-----------------------------------------------------------------------------
(* There are finitely many claims, so any of them can be listed.           *)
LEMMA ClaimsAreFinite == IsFiniteSet(Claim)
<1>1. IsFiniteSet({PoolMask[p] : p \in Pools})
  <2> DEFINE M == {PoolMask[p] : p \in Pools}
             f == [p \in Pools |-> PoolMask[p]]
  <2>1. f \in Surjection(Pools, M)
    BY DEF Surjection
  <2> HIDE DEF f, M
  <2>2. IsFiniteSet(M)
    BY <2>1, FS_Surjection, ListOrderAssumption
  <2> QED BY <2>2 DEF M
<1>2. IsFiniteSet(Masks)
  BY <1>1, FS_AddElement, FS_Union, FS_Singleton DEF Masks
<1> QED BY <1>2, FS_Product, AddressAssumption DEF Claim

LEMMA AddKeysType ==
  ASSUME NEW q \in QueueType(Claim), NEW keys \in SUBSET Claim
  PROVE  AddKeys(q, keys) \subseteq QueueType(Claim)
<1>1. SUFFICES ASSUME NEW list \in SetToSeqs(keys) PROVE QAddAll(q, list) \in QueueType(Claim)
  BY DEF AddKeys
<1>2. Cardinality(keys) \in Nat
  BY ClaimsAreFinite, FS_Subset, FS_CardinalityType
<1>3. list \in [1..Cardinality(keys) -> Claim]
  BY DEF SetToSeqs
<1>4. list \in Seq(Claim)
  BY <1>2, <1>3
<1> QED BY <1>4, QAddAllType

(* poolByAllocatedIP finds a pool of the list, its mask is one of Masks.   *)
LEMMA MaskType ==
  ASSUME NEW copy \in PoolCopy, NEW ip \in IPs
  PROVE  /\ PoolsOf(copy, ip) # {} => PoolOf(copy, ip) \in PoolsOf(copy, ip)
         /\ <<ip, MaskOf(copy, ip)>> \in Claim
<1>1. PoolsOf(copy, ip) \subseteq Pools
  BY DEF PoolsOf
<1>2. PoolsOf(copy, ip) # {} => PoolOf(copy, ip) \in PoolsOf(copy, ip)
  BY <1>1, ListOrderAssumption, MinIsLeast DEF PoolOf
<1>3. MaskOf(copy, ip) \in Masks
  BY <1>1, <1>2 DEF MaskOf, Masks
<1> QED BY <1>2, <1>3 DEF Claim

(* autoAllocateExternalIP picks a pool of the list and an address that the *)
(* pool offers and, as far as the list says, has not allocated.            *)
LEMMA OfferIsFree ==
  ASSUME NEW copy \in PoolCopy, PoolsWithFree(copy) # {}
  PROVE  /\ FreePool(copy) \in Pools
         /\ FreeIP(copy) \in OfferedBy(FreePool(copy))
         /\ FreeIP(copy) \in IPs
         /\ FreeIP(copy) \notin copy.alloc[FreePool(copy)]
<1> DEFINE p == FreePool(copy)
           offered == PoolOffer[p]
           allocated == copy.alloc[p]
<1>1. p \in PoolsWithFree(copy) /\ p \in Pools
  <2>1. PoolsWithFree(copy) \subseteq Pools
    BY DEF PoolsWithFree, PoolCopy
  <2> QED BY <2>1, ListOrderAssumption, MinIsLeast DEF FreePool
<1>2. HasAvailableIP(offered, allocated)
  BY <1>1 DEF PoolsWithFree
<1>3. DOMAIN offered \subseteq Nat /\ OfferedBy(p) \subseteq IPs /\ IPs \subseteq Nat
  BY <1>1, OfferAssumption, AddressAssumption
<1>4. \A k \in DOMAIN offered : offered[k] \subseteq OfferedBy(p) /\ offered[k] \subseteq Nat
  BY <1>3 DEF OfferedBy
<1> HIDE DEF offered, allocated
<1>5. /\ AvailableIP(offered, allocated) \notin allocated
      /\ \E k \in DOMAIN offered : AvailableIP(offered, allocated) \in offered[k]
  BY <1>2, <1>3, <1>4, AvailableIPIsFirstFree
<1>6. FreeIP(copy) = AvailableIP(offered, allocated)
  BY DEF FreeIP, offered, allocated
<1> QED BY <1>1, <1>3, <1>4, <1>5, <1>6 DEF allocated

LEMMA PoolCopies ==
  /\ NoPools \in PoolCopy
  /\ pools \in [Pools -> SUBSET IPs] => PoolsRead \in PoolCopy
  /\ \A copy \in PoolCopy : \A p : Spoil(copy, p) \in PoolCopy
BY DEF NoPools, PoolsRead, PoolCopy, Spoil

(* Outdating changes objects and nothing else.                             *)
LEMMA OutdateEffect ==
  ASSUME NEW queue \in Seq(Request), NEW c, NEW cached
  PROVE  /\ Outdate(queue, c, cached) \in Seq(Request)
         /\ DOMAIN Outdate(queue, c, cached) = DOMAIN queue
         /\ \A k \in DOMAIN queue :
              \/ Outdate(queue, c, cached)[k] = queue[k]
              \/ /\ queue[k].type = "Updated"
                 /\ Outdate(queue, c, cached)[k] = [queue[k] EXCEPT !.obj = Outdated]
<1> DEFINE O == Outdate(queue, c, cached)
<1>1. DOMAIN O = DOMAIN queue /\ DOMAIN queue = 1..Len(queue) /\ Len(queue) \in Nat
  BY DEF Outdate
<1>2. ASSUME NEW k \in DOMAIN queue
      PROVE  /\ \/ O[k] = queue[k]
                \/ queue[k].type = "Updated" /\ O[k] = [queue[k] EXCEPT !.obj = Outdated]
             /\ O[k] \in Request
  <2>1. queue[k] \in Request
    BY <1>1
  <2>2. \/ O[k] = queue[k]
        \/ queue[k].type = "Updated" /\ O[k] = [queue[k] EXCEPT !.obj = Outdated]
    BY DEF Outdate
  <2>3. queue[k].type = "Updated" => [queue[k] EXCEPT !.obj = Outdated] \in Request
    BY <2>1 DEF Request
  <2> QED BY <2>1, <2>2, <2>3
<1>3. O = [k \in 1..Len(queue) |-> O[k]]
  BY <1>1 DEF Outdate
<1> HIDE DEF O
<1>4. O \in Seq(Request)
  BY <1>1, <1>2, <1>3
<1> QED BY <1>1, <1>2, <1>4 DEF O

-----------------------------------------------------------------------------
(* What each goroutine can rely on between its steps: the arguments of a   *)
(* task are there as long as the task needs them, although others write    *)
(* the caches and the objects meanwhile.                                   *)
ServiceTaskOK ==
  /\ svc.pc # "idle" => svc.name \in Services
  /\ svc.pc \in {"list", "pool", "service", "status"} => svcCache[svc.name] # None
  /\ svc.pc = "pool" => svc.pool \in Pools /\ svc.ip \in OfferedBy(svc.pool)
  /\ svc.pc = "old" => svc.old # None
  /\ svc.pc = "free" => svc.todo # <<>>
  /\ svc.pc = "status" => /\ svcFeed[svc.name] # <<>>
                          /\ Len(svcFeed[svc.name]) = 1 => services[svc.name] # None
  /\ phase = "waiting" => svc.pc = "idle"

WorkerTaskOK ==
  /\ wk.pc # "idle" => wk.key \in Claim
  /\ wk.pc = "assign" /\ ~wk.apart => claimCache[wk.key] # None

MonitorOK == beaten \cup mon.newer \subseteq {n \in Nodes : ipnode[n] = "beating"}

TypeInv ==
  TypeOK /\ ServiceTaskOK /\ WorkerTaskOK /\ (cw # None => cw.type = "Added") /\ MonitorOK

(* What the steps of goroutines and the failures of their calls leave of   *)
(* the rest.                                                               *)
EnvTypes == UNCHANGED <<plan, ctl, phase, bounds>> /\ failures' \in [Kind -> Nat]

LEMMA InitTypes == Init => TypeInv
<1> SUFFICES ASSUME Init PROVE TypeInv
  OBVIOUS
<1> USE DEF Init
<1>1. NoPools \in PoolCopy
  BY PoolCopies
<1>2. svc \in ServiceTask /\ wk \in WorkerTask
  BY <1>1 DEF NoTask, IdleWorker, ServiceTask, WorkerTask
<1>3. claimQueue \in QueueType(Claim)
  BY DEF EmptyQueue, QueueType
<1>4. TypeOKState
  BY <1>3, InitialAssumption DEF TypeOKState, NoServices, NoEvents, NoClaims
<1>5. plan \in [Services -> Seq(Service \cup {None, Touch})] /\ bounds \subseteq [Kind -> Nat]
  BY PlanAssumption, BoundsAssumption
<1>6. ctl \in [Nodes -> {"up", "down", "starting", "again"}] /\ failures \in [Kind -> Nat]
  OBVIOUS
<1>7. TypeOK
  BY <1>2, <1>4, <1>5, <1>6 DEF TypeOK, Waiting
<1>8. ServiceTaskOK /\ WorkerTaskOK /\ cw = None
  BY DEF ServiceTaskOK, WorkerTaskOK, NoTask, IdleWorker
<1>9. MonitorOK
  BY InitialAssumption DEF MonitorOK, Waiting
<1> QED BY <1>7, <1>8, <1>9 DEF TypeInv

-----------------------------------------------------------------------------
(* Users, controllers and the process itself.                              *)
LEMMA UserTypes ==
  ASSUME TypeInv, NEW s \in Services, UserChange(s)
  PROVE  TypeInv'
<1> USE DEF UserChange
<1>1. Head(plan[s]) \in Service \cup {None, Touch} /\ Tail(plan[s]) \in Seq(Service \cup {None, Touch})
  BY DEF TypeInv, TypeOK
<1>2. services[s] \in Service \cup {None} /\ svcFeed[s] \in Seq(Event)
  BY DEF TypeInv, TypeOK, TypeOKState
<1>3. /\ NewSpec(s) \in Service \cup {None}
      /\ Head(plan[s]) # None => NewSpec(s) \in Service
  BY <1>1, <1>2 DEF NewSpec
<1>4. PICK event \in Event : svcFeed' = [svcFeed EXCEPT ![s] = Append(@, event)]
  <2>1. CASE Head(plan[s]) = None
    <3>1. [obj |-> services[s], gone |-> TRUE] \in Event
      BY <1>2, <2>1 DEF Event
    <3> QED BY <2>1, <3>1
  <2>2. CASE Head(plan[s]) # None
    <3>1. [obj |-> NewSpec(s), gone |-> FALSE] \in Event
      BY <1>3, <2>2 DEF Event
    <3> QED BY <2>2, <3>1
  <2> QED BY <2>1, <2>2
<1>5. /\ svcFeed' \in [Services -> Seq(Event)] /\ services' \in [Services -> Service \cup {None}]
      /\ plan' \in [Services -> Seq(Service \cup {None, Touch})]
  BY <1>1, <1>2, <1>3, <1>4 DEF TypeInv, TypeOK, TypeOKState
<1>6. TypeOK'
  BY <1>5 DEF TypeInv, TypeOK, TypeOKState
<1>7. ServiceTaskOK'
  <2>1. ASSUME svc.pc = "status"
        PROVE  svcFeed'[svc.name] # <<>> /\ (Len(svcFeed'[svc.name]) = 1 => services'[svc.name] # None)
    <3>1. svc.name \in Services /\ svcFeed[svc.name] \in Seq(Event) /\ svcFeed[svc.name] # <<>>
      BY <2>1 DEF TypeInv, TypeOK, TypeOKState, ServiceTaskOK
    <3>2. CASE svc.name = s
      <4>1. svcFeed'[s] = Append(svcFeed[s], event)
        BY <1>4 DEF TypeInv, TypeOK, TypeOKState
      <4>2. Len(svcFeed'[s]) = Len(svcFeed[s]) + 1 /\ Len(svcFeed[s]) > 0
        BY <3>1, <3>2, <4>1
      <4> QED BY <3>1, <3>2, <4>1, <4>2
    <3>3. CASE svc.name # s
      BY <2>1, <3>1, <3>3, <1>4 DEF TypeInv, TypeOK, TypeOKState, ServiceTaskOK
    <3> QED BY <3>2, <3>3
  <2> QED BY <2>1 DEF TypeInv, ServiceTaskOK
<1> QED BY <1>6, <1>7 DEF TypeInv, WorkerTaskOK, MonitorOK

LEMMA ControllerTypes ==
  ASSUME TypeInv, NEW n \in Nodes, Heartbeat(n) \/ NodeFails(n) \/ NodeStarts(n)
  PROVE  TypeInv'
<1>1. CASE Heartbeat(n)
  <2> USE <1>1 DEF Heartbeat
  <2>1. /\ ipnode' \in [Nodes -> {"absent", "new", "beating"}]
        /\ \A m \in Nodes : ipnode[m] = "beating" => ipnode'[m] = "beating"
        /\ ipnode[n] # "absent" => ipnode'[n] = "beating"
        /\ beaten' \subseteq Nodes /\ ctl' \in [Nodes -> {"up", "down", "starting", "again"}]
    BY DEF TypeInv, TypeOK, TypeOKState
  <2>2. TypeOK'
    BY <2>1 DEF TypeInv, TypeOK, TypeOKState
  <2>3. MonitorOK'
    BY <2>1 DEF TypeInv, MonitorOK
  <2> QED BY <2>2, <2>3 DEF TypeInv, ServiceTaskOK, WorkerTaskOK
<1>2. CASE NodeFails(n) \/ NodeStarts(n)
  <2> USE <1>2 DEF NodeFails, NodeStarts, Fails, schedVars
  <2>1. /\ ctl' \in [Nodes -> {"up", "down", "starting", "again"}]
        /\ failures' \in [Kind -> Nat]
    BY DEF TypeInv, TypeOK, Kind
  <2>2. TypeOK'
    BY <2>1 DEF TypeInv, TypeOK, TypeOKState
  <2> QED BY <2>2 DEF TypeInv, ServiceTaskOK, WorkerTaskOK, MonitorOK
<1> QED BY <1>1, <1>2

LEMMA RestartTypes ==
  ASSUME TypeInv, Restarted, failures' \in [Kind -> Nat], bounds' = bounds
  PROVE  TypeInv'
<1> USE DEF Restarted
<1>1. svc' \in ServiceTask /\ wk' \in WorkerTask
  BY PoolCopies DEF NoTask, IdleWorker, ServiceTask, WorkerTask
<1>2. claimQueue' \in QueueType(Claim)
  BY DEF EmptyQueue, QueueType
<1>3. TypeOKState'
  BY <1>2 DEF TypeInv, TypeOK, TypeOKState, NoServices, NoEvents, NoClaims
<1>4. TypeOK'
  BY <1>1, <1>3 DEF TypeInv, TypeOK, Waiting
<1>5. ServiceTaskOK' /\ WorkerTaskOK' /\ cw' = None
  BY DEF ServiceTaskOK, WorkerTaskOK, NoTask, IdleWorker
<1>6. MonitorOK'
  BY DEF MonitorOK, Waiting
<1> QED BY <1>4, <1>5, <1>6 DEF TypeInv

\* A failure is counted and counts stay within the bounds.
LEMMA FailsTypes ==
  ASSUME TypeInv, NEW k, Fails(k)
  PROVE  failures' \in [Kind -> Nat] /\ bounds' = bounds
<1>1. failures \in [Kind -> Nat] /\ failures' = [failures EXCEPT ![k] = @ + 1] /\ bounds' = bounds
  BY DEF Fails, TypeInv, TypeOK
<1>2. failures' = [j \in Kind |-> IF j = k THEN failures[j] + 1 ELSE failures[j]]
  BY <1>1
<1>3. \A j \in Kind : failures[j] \in Nat /\ failures[j] + 1 \in Nat
  BY <1>1
<1> QED BY <1>1, <1>2, <1>3

LEMMA ProcessTypes ==
  ASSUME TypeInv, StartWorkers \/ SchedulerFails \/ WatchBreaks
  PROVE  TypeInv'
<1>1. ListedServices \in [Services -> Seq(Event)]
  <2>1. ASSUME NEW s \in Services, services[s] # None
        PROVE  <<[obj |-> services[s], gone |-> FALSE]>> \in Seq(Event)
    <3>1. [obj |-> services[s], gone |-> FALSE] \in Event
      BY <2>1 DEF TypeInv, TypeOK, TypeOKState, Event
    <3> QED BY <3>1
  <2>2. <<>> \in Seq(Event)
    OBVIOUS
  <2> QED BY <2>1, <2>2 DEF ListedServices
<1>2. \A k : Fails(k) => failures' \in [Kind -> Nat] /\ bounds' = bounds
  BY FailsTypes
<1>3. CASE StartWorkers
  <2> USE <1>3 DEF StartWorkers
  <2>1. TypeOK'
    BY <1>1 DEF TypeInv, TypeOK, TypeOKState
  <2>2. ServiceTaskOK'
    BY DEF TypeInv, ServiceTaskOK
  <2> QED BY <2>1, <2>2 DEF TypeInv, WorkerTaskOK, MonitorOK
<1>4. CASE SchedulerFails
  BY <1>2, <1>4, RestartTypes DEF SchedulerFails
<1>5. CASE WatchBreaks
  <2>1. failures' \in [Kind -> Nat] /\ bounds' = bounds /\ svc.pc = "idle"
    BY <1>2, <1>5 DEF WatchBreaks
  <2>2. CASE Restarted
    BY <2>1, <2>2, RestartTypes
  <2>3. CASE ~Restarted
    <3>1. /\ svcFeed' = ListedServices
          /\ UNCHANGED <<services, pools, claims, ipnode, beaten, svcCache, svc, claimCache,
                         claimQueue, wk, changeQueue, cw, live, mon, plan, ctl, phase>>
      BY <1>5, <2>3 DEF WatchBreaks
    <3>2. TypeOK'
      BY <1>1, <2>1, <3>1 DEF TypeInv, TypeOK, TypeOKState
    <3>3. ServiceTaskOK'
      BY <2>1, <3>1 DEF TypeInv, ServiceTaskOK
    <3> QED BY <3>1, <3>2, <3>3 DEF TypeInv, WorkerTaskOK, MonitorOK
  <2> QED BY <2>2, <2>3
<1> QED BY <1>3, <1>4, <1>5

-----------------------------------------------------------------------------
(* serviceWatcher.                                                         *)
LEMMA DeliverTypes ==
  ASSUME TypeInv, NEW s \in Services, Deliver(s), phase = "running", EnvTypes
  PROVE  TypeInv'
<1> USE DEF Deliver, EnvTypes
<1> DEFINE event == Head(svcFeed[s])
<1>1. event \in Event /\ Tail(svcFeed[s]) \in Seq(Event) /\ svcCache[s] \in Service \cup {None}
  BY DEF TypeInv, TypeOK, TypeOKState
<1> HIDE DEF event
<1>2. /\ svcFeed' = [svcFeed EXCEPT ![s] = Tail(@)]
      /\ svcCache' = [svcCache EXCEPT ![s] = IF event.gone THEN None ELSE event.obj]
      /\ svc' = IF event.gone
                  THEN [NoTask EXCEPT !.pc = "old", !.name = s, !.old = event.obj]
                  ELSE [NoTask EXCEPT !.pc = "list", !.name = s, !.old = svcCache[s]]
  BY DEF event
<1>3. event.obj \in Service /\ event.obj # None /\ event.gone \in BOOLEAN
  BY <1>1, ObjectsAssumption DEF Event
<1>4. svcFeed' \in [Services -> Seq(Event)]
  <2>1. svcFeed \in [Services -> Seq(Event)]
    BY DEF TypeInv, TypeOK, TypeOKState
  <2> HIDE DEF Deliver
  <2> QED BY <1>1, <1>2, <2>1
<1>5. svcCache' \in [Services -> Service \cup {None}] /\ (~event.gone => svcCache'[s] # None)
  <2>1. svcCache \in [Services -> Service \cup {None}]
    BY DEF TypeInv, TypeOK, TypeOKState
  <2> HIDE DEF Deliver
  <2> QED BY <1>2, <1>3, <2>1
<1>6. svc' \in ServiceTask
  <2>1. NoTask \in ServiceTask
    BY PoolCopies DEF ServiceTask, NoTask
  <2> HIDE DEF Deliver
  <2>2. CASE event.gone
    BY <1>2, <1>3, <2>1, <2>2 DEF ServiceTask
  <2>3. CASE ~event.gone
    BY <1>1, <1>2, <2>1, <2>3 DEF ServiceTask
  <2> QED BY <2>2, <2>3
<1>7. TypeOK'
  BY <1>4, <1>5, <1>6 DEF TypeInv, TypeOK, TypeOKState
<1>8. ServiceTaskOK'
  <2>1. phase' = "running"
    OBVIOUS
  <2> HIDE DEF Deliver
  <2>2. CASE event.gone
    BY <1>2, <1>3, <2>1, <2>2 DEF ServiceTaskOK, NoTask
  <2>3. CASE ~event.gone
    BY <1>2, <1>5, <2>1, <2>3 DEF ServiceTaskOK, NoTask
  <2> QED BY <2>2, <2>3
<1> QED BY <1>7, <1>8 DEF TypeInv, WorkerTaskOK, MonitorOK

\* What AfterNew leaves of a task.
LEMMA AfterNewTypes ==
  ASSUME NEW task \in ServiceTask
  PROVE  /\ AfterNew(task) \in ServiceTask
         /\ \/ AfterNew(task) = NoTask /\ NoTask.pc = "idle"
            \/ /\ AfterNew(task) = [task EXCEPT !.pc = "old"] /\ task.old # None
               /\ AfterNew(task).pc = "old" /\ AfterNew(task).name = task.name
               /\ AfterNew(task).old = task.old
BY PoolCopies DEF AfterNew, NoTask, ServiceTask

LEMMA ListForNewTypes ==
  ASSUME TypeInv, NEW copy \in PoolCopy, ListForNew(copy), phase = "running", EnvTypes
  PROVE  TypeInv'
<1> USE DEF EnvTypes
<1> DEFINE obj == svcCache[svc.name]
           given == Among(obj.ips, {ip \in IPs : PoolsOf(copy, ip) = {}})
           requests == [k \in DOMAIN given |-> AddedReq(<<given[k], DefaultMask>>, svc.name)]
           auto == AddedReq(<<FreeIP(copy), PoolMask[FreePool(copy)]>>, svc.name)
           noneFree == FoundAuto(obj, copy) \/ obj.want = "none" \/ PoolsWithFree(copy) = {}
<1>1. /\ svc.pc = "list"
      /\ UNCHANGED <<services, pools, claims, ipnode, beaten, svcFeed, svcCache, claimCache,
                     claimQueue, wk, cw, live, mon>>
      /\ \/ /\ changeQueue' = changeQueue \o requests /\ svc' = AfterNew(svc)
         \/ /\ PoolsWithFree(copy) # {} /\ changeQueue' = Append(changeQueue \o requests, auto)
            /\ svc' = [svc EXCEPT !.pc = "pool", !.ip = FreeIP(copy), !.pool = FreePool(copy),
                                  !.copy = copy]
  <2> HIDE DEF requests
  <2> QED BY DEF ListForNew, requests
<1>2. svc.name \in Services /\ obj \in Service /\ svc \in ServiceTask /\ changeQueue \in Seq(Request)
  BY <1>1 DEF TypeInv, TypeOK, TypeOKState, ServiceTaskOK
<1>3. given \in Seq(IPs)
  <2>1. obj.ips \in Seq(IPs)
    BY <1>2 DEF Service
  <2> QED BY <2>1, AmongType
<1>4. requests \in Seq(Request)
  <2> HIDE DEF given
  <2>1. ASSUME NEW k \in DOMAIN given
        PROVE  AddedReq(<<given[k], DefaultMask>>, svc.name) \in Request
    BY <1>2, <1>3 DEF AddedReq, Request, Claim, Masks
  <2>2. DOMAIN given = 1..Len(given) /\ Len(given) \in Nat
    BY <1>3
  <2> QED BY <2>1, <2>2
<1> HIDE DEF given, requests, obj
<1>5. CASE changeQueue' = changeQueue \o requests /\ svc' = AfterNew(svc)
  <2>1. changeQueue' \in Seq(Request)
    BY <1>2, <1>4, <1>5
  <2>2. svc' \in ServiceTask /\ ServiceTaskOK'
    BY <1>1, <1>2, <1>5, AfterNewTypes DEF TypeInv, ServiceTaskOK
  <2> QED BY <1>1, <2>1, <2>2 DEF TypeInv, TypeOK, TypeOKState, WorkerTaskOK, MonitorOK
<1>6. CASE /\ PoolsWithFree(copy) # {} /\ changeQueue' = Append(changeQueue \o requests, auto)
           /\ svc' = [svc EXCEPT !.pc = "pool", !.ip = FreeIP(copy), !.pool = FreePool(copy),
                                 !.copy = copy]
  <2>1. /\ FreePool(copy) \in Pools /\ FreeIP(copy) \in OfferedBy(FreePool(copy))
        /\ FreeIP(copy) \in IPs
    BY <1>6, OfferIsFree
  <2>2. auto \in Request
    BY <1>2, <2>1 DEF AddedReq, Request, Claim, Masks
  <2>3. changeQueue' \in Seq(Request)
    BY <1>2, <1>4, <1>6, <2>2
  <2>4. svc' \in ServiceTask /\ ServiceTaskOK'
    <3>1. /\ svc' \in ServiceTask /\ svc'.pc = "pool" /\ svc'.name = svc.name
          /\ svc'.ip = FreeIP(copy) /\ svc'.pool = FreePool(copy)
      BY <1>2, <1>6, <2>1 DEF ServiceTask
    <3> QED BY <1>1, <2>1, <3>1 DEF TypeInv, ServiceTaskOK
  <2> QED BY <1>1, <2>3, <2>4 DEF TypeInv, TypeOK, TypeOKState, WorkerTaskOK, MonitorOK
<1> QED BY <1>1, <1>5, <1>6

LEMMA AllocateTypes ==
  ASSUME TypeInv, NEW reached \in BOOLEAN, AllocateInPool(reached), phase = "running",
         EnvTypes
  PROVE  TypeInv'
<1> USE DEF AllocateInPool, EnvTypes
<1>1. /\ svc.name \in Services /\ svc \in ServiceTask /\ wk \in WorkerTask
      /\ svcCache[svc.name] \in Service
      /\ svc.pool \in Pools /\ svc.ip \in IPs /\ svc.copy \in PoolCopy
  BY OfferAssumption DEF TypeInv, TypeOK, TypeOKState, ServiceTaskOK, ServiceTask
<1>2. pools' \in [Pools -> SUBSET IPs]
  <2>1. svc.copy.alloc[svc.pool] \cup {svc.ip} \in SUBSET IPs
    BY <1>1 DEF PoolCopy
  <2>2. \/ pools' = [pools EXCEPT ![svc.pool] = svc.copy.alloc[svc.pool] \cup {svc.ip}]
        \/ pools' = pools
    OBVIOUS
  <2> QED BY <2>1, <2>2 DEF TypeInv, TypeOK, TypeOKState
<1>3. wk' \in WorkerTask /\ wk'.pc = wk.pc /\ wk'.key = wk.key /\ wk'.apart = wk.apart
  BY <1>1, PoolCopies DEF WorkerTask
<1>4. svc' \in ServiceTask /\ svc'.pc = "service" /\ svc'.name = svc.name
  BY <1>1, PoolCopies DEF ServiceTask
<1> DEFINE obj == [svcCache[svc.name] EXCEPT !.ips = Append(@, svc.ip)]
<1>5. obj \in Service
  <2>1. Append(svcCache[svc.name].ips, svc.ip) \in Seq(IPs)
    BY <1>1 DEF Service
  <2> QED BY <1>1, <2>1 DEF Service
<1>6. svcCache' \in [Services -> Service \cup {None}] /\ svcCache'[svc.name] # None
  <2>1. svcCache' = [svcCache EXCEPT ![svc.name] = obj]
    OBVIOUS
  <2>2. obj # None
    BY <1>5, ObjectsAssumption
  <2>3. svcCache \in [Services -> Service \cup {None}]
    BY DEF TypeInv, TypeOK, TypeOKState
  <2> HIDE DEF obj
  <2> QED BY <1>1, <1>5, <2>1, <2>2, <2>3
<1>7. TypeOK'
  BY <1>2, <1>3, <1>4, <1>6 DEF TypeInv, TypeOK, TypeOKState
<1>8. ServiceTaskOK' /\ WorkerTaskOK'
  BY <1>1, <1>3, <1>4, <1>6 DEF TypeInv, ServiceTaskOK, WorkerTaskOK
<1> QED BY <1>7, <1>8 DEF TypeInv, MonitorOK

LEMMA UpdateServiceTypes ==
  ASSUME TypeInv, NEW reached \in BOOLEAN, UpdateService(reached), phase = "running",
         EnvTypes
  PROVE  TypeInv'
<1> USE DEF EnvTypes
<1> DEFINE s == svc.name
           event == [obj |-> svcCache[s], gone |-> FALSE]
           current == reached /\ svcFeed[s] = <<>>
<1>1. /\ svc.pc = "service"
      /\ svc' = AfterUpdate(svc, current)
      /\ UNCHANGED <<pools, claims, ipnode, beaten, svcCache, claimCache, claimQueue, wk,
                     changeQueue, cw, live, mon>>
      /\ \/ current /\ services' = [services EXCEPT ![s] = svcCache[s]]
            /\ svcFeed' = [svcFeed EXCEPT ![s] = <<event>>]
         \/ ~current /\ UNCHANGED <<services, svcFeed>>
  BY DEF UpdateService
<1>2. s \in Services /\ svc \in ServiceTask /\ svcCache[s] \in Service /\ svcCache[s] # None
  BY <1>1 DEF TypeInv, TypeOK, TypeOKState, ServiceTaskOK
<1>3. event \in Event /\ <<event>> \in Seq(Event) /\ Len(<<event>>) = 1 /\ <<event>> # <<>>
  BY <1>2 DEF Event
<1>4. /\ services' \in [Services -> Service \cup {None}] /\ svcFeed' \in [Services -> Seq(Event)]
      /\ current => services'[s] # None /\ svcFeed'[s] = <<event>>
  <2> HIDE DEF event
  <2>1. CASE services' = [services EXCEPT ![s] = svcCache[s]] /\ svcFeed' = [svcFeed EXCEPT ![s] = <<event>>]
    <3> HIDE DEF s
    <3> QED BY <1>2, <1>3, <2>1 DEF TypeInv, TypeOK, TypeOKState
  <2>2. CASE ~current /\ UNCHANGED <<services, svcFeed>>
    BY <2>2 DEF TypeInv, TypeOK, TypeOKState
  <2> QED BY <1>1, <2>1, <2>2
<1>5. \/ svc' = AfterNew(svc)
      \/ current /\ svc' = [svc EXCEPT !.pc = "status"]
  BY <1>1 DEF AfterUpdate
<1>6. CASE svc' = AfterNew(svc)
  <2>1. svc' \in ServiceTask /\ ServiceTaskOK'
    BY <1>1, <1>2, <1>6, AfterNewTypes DEF TypeInv, ServiceTaskOK
  <2> QED BY <1>1, <1>4, <2>1 DEF TypeInv, TypeOK, TypeOKState, WorkerTaskOK, MonitorOK
<1>7. CASE current /\ svc' = [svc EXCEPT !.pc = "status"]
  <2>1. svc' \in ServiceTask /\ svc'.pc = "status" /\ svc'.name = s
    BY <1>2, <1>7 DEF ServiceTask
  <2>2. ServiceTaskOK'
    <3> HIDE DEF event, s
    <3> QED BY <1>1, <1>2, <1>3, <1>4, <1>7, <2>1 DEF TypeInv, ServiceTaskOK
  <2> QED BY <1>1, <1>4, <2>1, <2>2 DEF TypeInv, TypeOK, TypeOKState, WorkerTaskOK, MonitorOK
<1> QED BY <1>5, <1>6, <1>7

LEMMA UpdateStatusTypes ==
  ASSUME TypeInv, NEW reached \in BOOLEAN, UpdateStatus(reached), phase = "running", EnvTypes
  PROVE  TypeInv'
<1> USE DEF UpdateStatus, EnvTypes
<1> DEFINE event == [obj |-> services[svc.name], gone |-> FALSE]
<1>1. svc.name \in Services /\ svc \in ServiceTask
  BY DEF TypeInv, TypeOK, TypeOKState, ServiceTaskOK
<1>2. svcFeed' \in [Services -> Seq(Event)]
  <2>1. CASE reached /\ Len(svcFeed[svc.name]) = 1
    <3>1. event \in Event
      BY <1>1, <2>1 DEF TypeInv, TypeOK, TypeOKState, ServiceTaskOK, Event
    <3>2. svcFeed' = [svcFeed EXCEPT ![svc.name] = Append(@, event)]
      BY <2>1
    <3> HIDE DEF event
    <3> QED BY <1>1, <3>1, <3>2 DEF TypeInv, TypeOK, TypeOKState
  <2>2. CASE ~(reached /\ Len(svcFeed[svc.name]) = 1)
    BY <2>2 DEF TypeInv, TypeOK, TypeOKState
  <2> QED BY <2>1, <2>2
<1>3. svc' \in ServiceTask /\ ServiceTaskOK'
  BY <1>1, AfterNewTypes DEF TypeInv, ServiceTaskOK
<1> QED BY <1>2, <1>3 DEF TypeInv, TypeOK, TypeOKState, WorkerTaskOK, MonitorOK

\* A task with addresses left, or none.
LEMMA FreeingTypes ==
  ASSUME NEW task \in ServiceTask
  PROVE  /\ Freeing(task) \in ServiceTask
         /\ \/ Freeing(task) = NoTask /\ NoTask.pc = "idle"
            \/ /\ Freeing(task) = [task EXCEPT !.pc = "free"]
               /\ Freeing(task).pc = "free" /\ Freeing(task).name = task.name
               /\ Freeing(task).todo = task.todo /\ task.todo # <<>>
BY PoolCopies DEF Freeing, NoTask, ServiceTask

LEMMA ListForOldTypes ==
  ASSUME TypeInv, NEW copy \in PoolCopy, ListForOld(copy), phase = "running", EnvTypes
  PROVE  TypeInv'
<1> USE DEF EnvTypes
<1> DEFINE todo == Among(svc.old.ips, IPs \ Referenced)
           task == [svc EXCEPT !.copy = copy, !.todo = todo]
<1>1. /\ svc.pc = "old" /\ svc' = Freeing(task)
      /\ UNCHANGED <<services, pools, claims, ipnode, beaten, svcFeed, svcCache, claimCache,
                     claimQueue, wk, changeQueue, cw, live, mon>>
  BY DEF ListForOld
<1>2. svc.name \in Services /\ svc \in ServiceTask /\ svc.old \in Service
  BY <1>1 DEF TypeInv, TypeOK, ServiceTaskOK, ServiceTask
<1>3. todo \in Seq(IPs)
  BY <1>2, AmongType DEF Service
<1> HIDE DEF todo
<1>4. task \in ServiceTask /\ task.name = svc.name
  BY <1>2, <1>3 DEF ServiceTask
<1> HIDE DEF task
<1>5. svc' \in ServiceTask /\ ServiceTaskOK'
  BY <1>1, <1>2, <1>4, FreeingTypes DEF TypeInv, ServiceTaskOK
<1> QED BY <1>1, <1>5 DEF TypeInv, TypeOK, TypeOKState, WorkerTaskOK, MonitorOK

LEMMA FreeAddressTypes ==
  ASSUME TypeInv, NEW reached \in BOOLEAN, FreeAddress(reached), phase = "running",
         EnvTypes
  PROVE  TypeInv'
<1> USE DEF EnvTypes
<1> DEFINE ip == Head(svc.todo)
           p == PoolOf(svc.copy, ip)
           freed == [svc.copy EXCEPT !.alloc[p] = @ \ {ip}]
           copy == IF reached THEN Spoil(freed, p) ELSE freed
           left == [svc EXCEPT !.todo = Tail(@)]
           freer == [svc EXCEPT !.todo = Tail(@), !.copy = copy]
<1>1. /\ svc.pc = "free"
      /\ changeQueue' = Append(changeQueue, DeletedReq(<<ip, MaskOf(svc.copy, ip)>>))
      /\ UNCHANGED <<services, claims, ipnode, beaten, svcFeed, svcCache, claimCache,
                     claimQueue, cw, live, mon>>
      /\ \/ svc' = Freeing(left) /\ UNCHANGED <<pools, wk>>
         \/ /\ PoolsOf(svc.copy, ip) # {} /\ svc' = Freeing(freer)
            /\ \/ pools' = [pools EXCEPT ![p] = freed.alloc[p]]
                  /\ wk' = [wk EXCEPT !.copy = Spoil(@, p)]
               \/ UNCHANGED <<pools, wk>>
  BY DEF FreeAddress, Enqueue
<1>2. /\ svc \in ServiceTask /\ svc.name \in Services /\ svc.copy \in PoolCopy
      /\ svc.todo \in Seq(IPs) /\ svc.todo # <<>> /\ wk \in WorkerTask
  BY <1>1 DEF TypeInv, TypeOK, ServiceTaskOK, ServiceTask
<1>3. ip \in IPs /\ Tail(svc.todo) \in Seq(IPs)
  BY <1>2
<1> HIDE DEF ip
<1>4. changeQueue' \in Seq(Request)
  <2>1. DeletedReq(<<ip, MaskOf(svc.copy, ip)>>) \in Request
    BY <1>2, <1>3, MaskType DEF DeletedReq, Request
  <2> QED BY <1>1, <2>1 DEF TypeInv, TypeOK, TypeOKState
<1>5. left \in ServiceTask /\ left.name = svc.name
  BY <1>2, <1>3 DEF ServiceTask
<1>6. PoolsOf(svc.copy, ip) # {} => p \in Pools /\ copy \in PoolCopy /\ freed.alloc[p] \in SUBSET IPs
  <2>1. PoolsOf(svc.copy, ip) # {} => p \in Pools
    BY <1>2, <1>3, MaskType DEF PoolsOf
  <2> HIDE DEF p
  <2>2. PoolsOf(svc.copy, ip) # {} => freed \in PoolCopy /\ freed.alloc[p] \in SUBSET IPs
    BY <1>2, <2>1 DEF PoolCopy
  <2> HIDE DEF freed
  <2> QED BY <2>1, <2>2, PoolCopies
<1> HIDE DEF copy, freed
<1>7. PoolsOf(svc.copy, ip) # {} => freer \in ServiceTask /\ freer.name = svc.name
  BY <1>2, <1>3, <1>6, PoolCopies DEF ServiceTask
<1> HIDE DEF left, freer, p
<1>8. svc' \in ServiceTask /\ ServiceTaskOK'
  BY <1>1, <1>2, <1>5, <1>7, FreeingTypes DEF TypeInv, ServiceTaskOK
<1>9. /\ pools' \in [Pools -> SUBSET IPs]
      /\ wk' \in WorkerTask /\ wk'.pc = wk.pc /\ wk'.key = wk.key /\ wk'.apart = wk.apart
  <2>1. CASE UNCHANGED <<pools, wk>>
    BY <1>2, <2>1 DEF TypeInv, TypeOK, TypeOKState
  <2>2. CASE /\ PoolsOf(svc.copy, ip) # {} /\ pools' = [pools EXCEPT ![p] = freed.alloc[p]]
             /\ wk' = [wk EXCEPT !.copy = Spoil(@, p)]
    <3>1. pools' \in [Pools -> SUBSET IPs]
      BY <1>6, <2>2 DEF TypeInv, TypeOK, TypeOKState
    <3>2. Spoil(wk.copy, p) \in PoolCopy
      BY <1>2, PoolCopies DEF WorkerTask
    <3> QED BY <1>2, <2>2, <3>1, <3>2 DEF WorkerTask
  <2> QED BY <1>1, <2>1, <2>2
<1>10. TypeOK'
  BY <1>1, <1>4, <1>8, <1>9 DEF TypeInv, TypeOK, TypeOKState
<1> QED BY <1>1, <1>8, <1>9, <1>10 DEF TypeInv, WorkerTaskOK, MonitorOK

LEMMA ServiceTypes ==
  ASSUME TypeInv, ServiceStep \/ ServiceFault, phase = "running", EnvTypes
  PROVE  TypeInv'
<1>1. PoolsRead \in PoolCopy /\ NoPools \in PoolCopy
  BY PoolCopies DEF TypeInv, TypeOK, TypeOKState
<1>2. CASE \E s \in Services : Deliver(s)
  BY <1>2, DeliverTypes
<1>3. CASE ListForNew(PoolsRead) \/ ListForNew(NoPools)
  BY <1>1, <1>3, ListForNewTypes
<1>4. CASE AllocateInPool(TRUE) \/ AllocateInPool(FALSE)
  BY <1>4, AllocateTypes
<1>5. CASE UpdateService(TRUE) \/ UpdateService(FALSE)
  BY <1>5, UpdateServiceTypes
<1>6. CASE UpdateStatus(TRUE) \/ UpdateStatus(FALSE)
  BY <1>6, UpdateStatusTypes
<1>7. CASE ListForOld(PoolsRead) \/ ListForOld(NoPools)
  BY <1>1, <1>7, ListForOldTypes
<1>8. CASE FreeAddress(TRUE) \/ FreeAddress(FALSE)
  BY <1>8, FreeAddressTypes
<1> QED BY <1>2, <1>3, <1>4, <1>5, <1>6, <1>7, <1>8 DEF ServiceStep, ServiceFault

-----------------------------------------------------------------------------
(* claimWatcher and worker.                                                *)
LEMMA DeliverClaimTypes ==
  ASSUME TypeInv, NEW c \in Claim, DeliverClaim(c), EnvTypes
  PROVE  TypeInv'
<1> USE DEF DeliverClaim, EnvTypes
<1>1. claims[c] \in ClaimObject \cup {None} /\ wk \in WorkerTask /\ changeQueue \in Seq(Request)
  BY DEF TypeInv, TypeOK, TypeOKState
<1>2. claims[c] # None =>
        [owners |-> claims[c].owners, node |-> claims[c].node, fresh |-> TRUE] \in CachedClaim
  BY <1>1 DEF ClaimObject, CachedClaim
<1>3. claimCache' \in [Claim -> CachedClaim \cup {None}] /\ \A d \in Claim : d # c => claimCache'[d] = claimCache[d]
  BY <1>2 DEF TypeInv, TypeOK, TypeOKState
<1>4. claimQueue' \in QueueType(Claim)
  BY QAddEffect DEF TypeInv, TypeOK, TypeOKState
<1>5. changeQueue' \in Seq(Request)
  BY <1>1, OutdateEffect
<1>6. /\ wk' \in WorkerTask /\ wk'.pc = wk.pc /\ wk'.key = wk.key
      /\ wk.pc = "assign" /\ ~wk'.apart => wk.key # c /\ ~wk.apart
  BY <1>1 DEF WorkerTask
<1>7. TypeOK'
  BY <1>3, <1>4, <1>5, <1>6 DEF TypeInv, TypeOK, TypeOKState
<1>8. WorkerTaskOK'
  BY <1>3, <1>6 DEF TypeInv, WorkerTaskOK
<1> QED BY <1>7, <1>8 DEF TypeInv, ServiceTaskOK, MonitorOK

LEMMA ResyncTypes ==
  ASSUME TypeInv, ResyncClaims, EnvTypes
  PROVE  TypeInv'
<1> USE DEF ResyncClaims, EnvTypes
<1>1. claimQueue' \in QueueType(Claim)
  BY AddKeysType DEF TypeInv, TypeOK, TypeOKState, Cached
<1>2. TypeOK'
  BY <1>1 DEF TypeInv, TypeOK, TypeOKState
<1> QED BY <1>2 DEF TypeInv, ServiceTaskOK, WorkerTaskOK, MonitorOK

\* The worker has nothing to do.
LEMMA FinishedTypes ==
  ASSUME TypeInv, NEW q \in QueueType(Claim), wk.pc # "idle", Finished(q)
  PROVE  claimQueue' \in QueueType(Claim) /\ wk' \in WorkerTask /\ wk'.pc = "idle"
<1>1. wk.key \in Claim
  BY DEF TypeInv, WorkerTaskOK
<1>2. QDone(q, wk.key) \in QueueType(Claim)
  BY <1>1, QDoneEffect
<1> QED BY <1>2, PoolCopies DEF Finished, IdleWorker, WorkerTask

LEMMA TakeClaimTypes ==
  ASSUME TypeInv, TakeClaim, EnvTypes
  PROVE  TypeInv'
<1> USE DEF TakeClaim, EnvTypes
<1>1. claimQueue \in QueueType(Claim)
  BY DEF TypeInv, TypeOK, TypeOKState
<1>2. claimQueue' \in QueueType(Claim) /\ NextItem(claimQueue) \in Claim
  BY <1>1, QGetEffect, FirstWantedIsFirst
<1>3. wk' \in WorkerTask /\ wk'.pc = "verify" /\ wk'.key \in Claim
  BY <1>2, PoolCopies DEF WorkerTask, IdleWorker
<1>4. TypeOK'
  BY <1>2, <1>3 DEF TypeInv, TypeOK, TypeOKState
<1> QED BY <1>3, <1>4 DEF TypeInv, ServiceTaskOK, WorkerTaskOK, MonitorOK

LEMMA VerifyTypes ==
  ASSUME TypeInv, NEW asked \in BOOLEAN, VerifyClaim(asked), EnvTypes
  PROVE  TypeInv'
<1> USE DEF EnvTypes
<1> DEFINE c == wk.key
           obj == claimCache[c]
           owners == IF asked THEN Alive(obj.owners) ELSE obj.owners
<1>1. /\ wk.pc = "verify"
      /\ UNCHANGED <<services, pools, claims, ipnode, beaten, svcFeed, svcCache, svc, cw, live, mon>>
      /\ \/ Finished(claimQueue) /\ UNCHANGED <<claimCache, changeQueue>>
         \/ wk' = [wk EXCEPT !.pc = "orphan"] /\ UNCHANGED <<claimCache, claimQueue, changeQueue>>
         \/ /\ obj # None
            /\ \/ /\ claimCache' = [claimCache EXCEPT ![c].owners = owners]
                  /\ changeQueue' = Append(changeQueue, UpdatedReq(c, TheCached))
               \/ UNCHANGED <<claimCache, changeQueue>>
            /\ \/ Finished(claimQueue)
               \/ wk' = [wk EXCEPT !.pc = "assign"] /\ UNCHANGED claimQueue
  BY DEF VerifyClaim, Enqueue
<1>2. /\ c \in Claim /\ wk \in WorkerTask /\ claimQueue \in QueueType(Claim)
      /\ obj \in CachedClaim \cup {None} /\ changeQueue \in Seq(Request)
      /\ claimCache \in [Claim -> CachedClaim \cup {None}]
  BY <1>1 DEF TypeInv, TypeOK, TypeOKState, WorkerTaskOK
<1>3. obj # None => owners \in SUBSET Services
  BY <1>2 DEF CachedClaim, Alive
<1> HIDE DEF owners
<1>4. /\ claimCache' \in [Claim -> CachedClaim \cup {None}]
      /\ obj # None => claimCache'[c] # None
  <2>1. CASE UNCHANGED claimCache
    BY <1>2, <2>1
  <2>2. CASE obj # None /\ claimCache' = [claimCache EXCEPT ![c].owners = owners]
    <3> DEFINE new == [claimCache[c] EXCEPT !.owners = owners]
    <3>1. new \in CachedClaim
      BY <1>2, <1>3, <2>2 DEF CachedClaim
    <3>2. claimCache' = [claimCache EXCEPT ![c] = new] /\ new # None
      BY <2>2, <3>1, ObjectsAssumption
    <3> HIDE DEF new
    <3> QED BY <1>2, <3>1, <3>2
  <2> QED BY <1>1, <2>1, <2>2
<1>5. changeQueue' \in Seq(Request)
  <2>1. UpdatedReq(c, TheCached) \in Request
    BY <1>2 DEF UpdatedReq, Request
  <2>2. UNCHANGED changeQueue \/ changeQueue' = Append(changeQueue, UpdatedReq(c, TheCached))
    BY <1>1
  <2> QED BY <1>2, <2>1, <2>2
<1>6. claimQueue' \in QueueType(Claim) /\ wk' \in WorkerTask
  <2>1. CASE Finished(claimQueue)
    BY <1>1, <1>2, <2>1, FinishedTypes
  <2>2. CASE UNCHANGED claimQueue /\ (wk' = [wk EXCEPT !.pc = "orphan"] \/ wk' = [wk EXCEPT !.pc = "assign"])
    BY <1>2, <2>2 DEF WorkerTask
  <2> QED BY <1>1, <2>1, <2>2
<1>7. WorkerTaskOK'
  <2>1. CASE Finished(claimQueue)
    BY <1>1, <1>2, <2>1, FinishedTypes DEF WorkerTaskOK
  <2>2. CASE wk' = [wk EXCEPT !.pc = "orphan"]
    BY <1>2, <2>2 DEF WorkerTask, WorkerTaskOK
  <2>3. CASE obj # None /\ wk' = [wk EXCEPT !.pc = "assign"]
    BY <1>2, <1>4, <2>3 DEF WorkerTask, WorkerTaskOK
  <2> QED BY <1>1, <2>1, <2>2, <2>3
<1>8. TypeOK'
  BY <1>1, <1>4, <1>5, <1>6 DEF TypeInv, TypeOK, TypeOKState
<1> QED BY <1>1, <1>7, <1>8 DEF TypeInv, ServiceTaskOK, MonitorOK

LEMMA DropOrphanTypes ==
  ASSUME TypeInv, NEW copy \in PoolCopy, DropOrphan(copy), EnvTypes
  PROVE  TypeInv'
<1> USE DEF DropOrphan, EnvTypes
<1> DEFINE request == DeletedReq(<<wk.key[1], MaskOf(copy, wk.key[1])>>)
<1>1. /\ wk.key \in Claim /\ wk \in WorkerTask /\ wk.key[1] \in IPs
      /\ claimQueue \in QueueType(Claim) /\ changeQueue \in Seq(Request)
  BY DEF TypeInv, TypeOK, TypeOKState, WorkerTaskOK, Claim
<1>2. request \in Request
  BY <1>1, MaskType DEF DeletedReq, Request
<1>3. changeQueue' \in Seq(Request)
  BY <1>1, <1>2 DEF Enqueue
<1>4. claimQueue' \in QueueType(Claim) /\ wk' \in WorkerTask /\ WorkerTaskOK'
  <2>1. CASE Finished(claimQueue)
    BY <1>1, <2>1, FinishedTypes DEF WorkerTaskOK
  <2>2. CASE wk' = [wk EXCEPT !.pc = "free", !.copy = copy] /\ UNCHANGED claimQueue
    BY <1>1, <2>2 DEF WorkerTask, WorkerTaskOK
  <2> QED BY <2>1, <2>2
<1>5. TypeOK'
  BY <1>3, <1>4 DEF TypeInv, TypeOK, TypeOKState
<1> QED BY <1>4, <1>5 DEF TypeInv, ServiceTaskOK, MonitorOK

LEMMA FreeOrphanTypes ==
  ASSUME TypeInv, NEW reached \in BOOLEAN, FreeOrphanAddress(reached), EnvTypes
  PROVE  TypeInv'
<1> USE DEF FreeOrphanAddress, EnvTypes
<1> DEFINE ip == wk.key[1]
           p == PoolOf(wk.copy, ip)
           left == wk.copy.alloc[p] \ {ip}
<1>1. /\ wk \in WorkerTask /\ wk.copy \in PoolCopy /\ claimQueue \in QueueType(Claim)
      /\ svc \in ServiceTask /\ svc.copy \in PoolCopy
  BY DEF TypeInv, TypeOK, TypeOKState, WorkerTask, ServiceTask
<1>2. pools' \in [Pools -> SUBSET IPs]
  <2>1. p \in Pools => left \in SUBSET IPs
    BY <1>1 DEF PoolCopy
  <2>2. pools' = [pools EXCEPT ![p] = left] \/ pools' = pools
    OBVIOUS
  <2> HIDE DEF p, left
  <2> QED BY <2>1, <2>2 DEF TypeInv, TypeOK, TypeOKState
<1>3. /\ svc' \in ServiceTask /\ svc'.pc = svc.pc /\ svc'.name = svc.name /\ svc'.old = svc.old
      /\ svc'.todo = svc.todo /\ svc'.pool = svc.pool /\ svc'.ip = svc.ip
  <2>1. svc' = [svc EXCEPT !.copy = Spoil(@, p)] \/ svc' = svc
    OBVIOUS
  <2>2. Spoil(svc.copy, p) \in PoolCopy
    BY <1>1, PoolCopies
  <2> HIDE DEF p
  <2> QED BY <1>1, <2>1, <2>2 DEF ServiceTask
<1>4. claimQueue' \in QueueType(Claim) /\ wk' \in WorkerTask /\ WorkerTaskOK'
  BY <1>1, FinishedTypes DEF WorkerTaskOK
<1>5. TypeOK'
  BY <1>2, <1>3, <1>4 DEF TypeInv, TypeOK, TypeOKState
<1>6. ServiceTaskOK'
  BY <1>3 DEF TypeInv, ServiceTaskOK
<1> QED BY <1>4, <1>5, <1>6 DEF TypeInv, MonitorOK

(* Both node filters return a node of the list they are given.             *)
LEMMA NodeIsListed ==
  ASSUME NEW nodes \in SUBSET Nodes, nodes # {}
  PROVE  GetNode(nodes) \in nodes
<1>1. \A n \in nodes : Load(n) \in Nat
  <2>1. IsFiniteSet(Cached)
    BY ClaimsAreFinite, FS_Subset DEF Cached
  <2>2. ASSUME NEW n \in nodes PROVE Load(n) \in Nat
    <3> DEFINE given == {c \in Cached : claimCache[c].node = n}
    <3>1. IsFiniteSet(given)
      BY <2>1, FS_Subset
    <3> QED BY <3>1, FS_CardinalityType DEF Load
  <2> QED BY <2>2
<1>2. nodes \subseteq Nat
  BY ListOrderAssumption
<1> DEFINE loads == {Load(n) : n \in nodes}
           fewest == {n \in nodes : \A m \in nodes : Load(n) <= Load(m)}
<1>3. fewest # {}
  <2>1. loads \subseteq Nat /\ loads # {}
    BY <1>1
  <2>2. PICK l \in loads : \A j \in loads : l <= j
    <3> HIDE DEF loads
    <3> QED BY <2>1, LeastElement
  <2>3. PICK n \in nodes : l = Load(n)
    BY <2>2
  <2>4. n \in fewest
    BY <2>2, <2>3
  <2> QED BY <2>4
<1>4. Min(fewest) \in fewest
  <2>1. fewest \subseteq Nat
    BY <1>2
  <2> HIDE DEF fewest
  <2> QED BY <1>3, <2>1, MinIsLeast
<1>5. Min(nodes) \in nodes
  BY <1>2, MinIsLeast
<1> QED BY <1>4, <1>5 DEF GetNode, FairNode

LEMMA AssignTypes ==
  ASSUME TypeInv, AssignNode \/ NodesUnread, EnvTypes
  PROVE  TypeInv'
<1> USE DEF EnvTypes
<1> DEFINE c == wk.key
           alive == Listed \cap live
           new == [claimCache[c] EXCEPT !.node = GetNode(alive)]
           sent == IF wk.apart THEN Outdated ELSE TheCached
<1>1. /\ wk.pc = "assign"
      /\ UNCHANGED <<services, pools, claims, ipnode, beaten, svcFeed, svcCache, svc, cw, live, mon>>
      /\ \/ /\ Finished(QAdd(claimQueue, c)) /\ UNCHANGED <<claimCache, changeQueue>>
         \/ /\ alive # {}
            /\ \/ wk.apart /\ UNCHANGED claimCache
               \/ ~wk.apart /\ claimCache' = [claimCache EXCEPT ![c] = new]
            /\ changeQueue' = Append(changeQueue, UpdatedReq(c, sent))
            /\ Finished(claimQueue)
  BY DEF AssignNode, NodesUnread, Enqueue
<1>2. /\ c \in Claim /\ claimQueue \in QueueType(Claim) /\ changeQueue \in Seq(Request)
      /\ claimCache \in [Claim -> CachedClaim \cup {None}]
      /\ ~wk.apart => claimCache[c] \in CachedClaim
  BY <1>1 DEF TypeInv, TypeOK, TypeOKState, WorkerTaskOK
<1>3. alive # {} => GetNode(alive) \in Nodes
  BY NodeIsListed DEF Listed
<1> HIDE DEF alive
<1>4. claimCache' \in [Claim -> CachedClaim \cup {None}]
  <2>1. alive # {} /\ ~wk.apart => new \in CachedClaim
    BY <1>2, <1>3 DEF CachedClaim
  <2> HIDE DEF new
  <2> QED BY <1>1, <1>2, <2>1
<1>5. changeQueue' \in Seq(Request)
  <2>1. UpdatedReq(c, sent) \in Request
    BY <1>2 DEF UpdatedReq, Request
  <2> HIDE DEF sent
  <2> QED BY <1>1, <1>2, <2>1
<1>6. claimQueue' \in QueueType(Claim) /\ wk' \in WorkerTask /\ WorkerTaskOK'
  <2>1. QAdd(claimQueue, c) \in QueueType(Claim)
    BY <1>2, QAddEffect
  <2> QED BY <1>1, <1>2, <2>1, FinishedTypes DEF WorkerTaskOK
<1>7. TypeOK'
  BY <1>1, <1>4, <1>5, <1>6 DEF TypeInv, TypeOK, TypeOKState
<1> QED BY <1>1, <1>6, <1>7 DEF TypeInv, ServiceTaskOK, MonitorOK

LEMMA ClaimTypes ==
  ASSUME TypeInv, ClaimStep \/ ClaimFault, EnvTypes
  PROVE  TypeInv'
<1>1. PoolsRead \in PoolCopy /\ NoPools \in PoolCopy
  BY PoolCopies DEF TypeInv, TypeOK, TypeOKState
<1>2. CASE TakeClaim
  BY <1>2, TakeClaimTypes
<1>3. CASE VerifyClaim(TRUE) \/ VerifyClaim(FALSE)
  BY <1>3, VerifyTypes
<1>4. CASE DropOrphan(PoolsRead) \/ DropOrphan(NoPools)
  BY <1>1, <1>4, DropOrphanTypes
<1>5. CASE FreeOrphanAddress(TRUE) \/ FreeOrphanAddress(FALSE)
  BY <1>5, FreeOrphanTypes
<1>6. CASE AssignNode \/ NodesUnread
  BY <1>6, AssignTypes
<1> QED BY <1>2, <1>3, <1>4, <1>5, <1>6 DEF ClaimStep, ClaimFault

-----------------------------------------------------------------------------
(* claimChangeWorker.                                                      *)
LEMMA StoreTypes ==
  ASSUME TypeInv, NEW c \in Claim, NEW obj \in ClaimObject \cup {None},
         NEW queue \in Seq(Request), Store(c, obj, queue)
  PROVE  /\ claims' \in [Claim -> ClaimObject \cup {None}]
         /\ claimCache' \in [Claim -> CachedClaim \cup {None}]
         /\ changeQueue' \in Seq(Request)
         /\ \A d \in Claim : claimCache[d] # None => claimCache'[d] # None
<1>1. /\ claims \in [Claim -> ClaimObject \cup {None}]
      /\ claimCache \in [Claim -> CachedClaim \cup {None}]
  BY DEF TypeInv, TypeOK, TypeOKState
<1>2. CASE claims[c] = obj
  BY <1>1, <1>2 DEF Store
<1>3. CASE claims[c] # obj
  <2>1. claims' \in [Claim -> ClaimObject \cup {None}]
    BY <1>1, <1>3 DEF Store
  <2>2. changeQueue' \in Seq(Request)
    <3>1. \A cached : Outdate(queue, c, cached) \in Seq(Request)
      BY OutdateEffect
    <3>2. \E cached : changeQueue' = Outdate(queue, c, cached)
      BY <1>3 DEF Store
    <3> QED BY <3>1, <3>2
  <2> DEFINE new == [claimCache[c] EXCEPT !.fresh = FALSE]
  <2>3. \/ claimCache' = claimCache
        \/ claimCache[c] # None /\ claimCache' = [claimCache EXCEPT ![c] = new]
    BY <1>3 DEF Store
  <2>4. claimCache[c] # None => new \in CachedClaim /\ new # None
    BY <1>1, ObjectsAssumption DEF CachedClaim
  <2> HIDE DEF new
  <2> QED BY <1>1, <2>1, <2>2, <2>3, <2>4
<1> QED BY <1>2, <1>3

\* The next request of changeQueue, and the queue behind it.
LEMMA HeadTypes ==
  ASSUME changeQueue \in Seq(Request), changeQueue # <<>>
  PROVE  /\ Head(changeQueue) \in Request /\ Tail(changeQueue) \in Seq(Request)
         /\ Head(changeQueue).claim \in Claim
         /\ Head(changeQueue).type = "Added" => Head(changeQueue).owner \in Services
         /\ Head(changeQueue).type = "Updated" =>
              Head(changeQueue).obj \in {TheCached, Outdated} \cup ClaimObject
<1>1. Head(changeQueue) \in Request /\ Tail(changeQueue) \in Seq(Request)
  OBVIOUS
<1> QED BY <1>1 DEF Request

(* The object in the cache that a request will send is there when it is    *)
(* sent, or the request is known to be outdated.                           *)
RequestsOK ==
  \A k \in DOMAIN changeQueue :
    changeQueue[k].type = "Updated" /\ changeQueue[k].obj = TheCached
      => claimCache[changeQueue[k].claim] # None

\* What an Updated request stores.
LEMMA CurrentTypes ==
  ASSUME TypeInv, RequestsOK, changeQueue # <<>>, Head(changeQueue).type = "Updated"
  PROVE  Current(Head(changeQueue)) \in ClaimObject \cup {None}
<1> DEFINE r == Head(changeQueue)
           cached == claimCache[r.claim]
<1>1. changeQueue \in Seq(Request) /\ claimCache \in [Claim -> CachedClaim \cup {None}]
  BY DEF TypeInv, TypeOK, TypeOKState
<1>2. r.claim \in Claim /\ r.obj \in {TheCached, Outdated} \cup ClaimObject
  BY <1>1, HeadTypes
<1>3. 1 \in DOMAIN changeQueue /\ r = changeQueue[1]
  BY <1>1
<1>4. r.obj = TheCached => cached \in CachedClaim
  BY <1>1, <1>2, <1>3 DEF RequestsOK
<1>5. r.obj = TheCached => [owners |-> cached.owners, node |-> cached.node] \in ClaimObject
  BY <1>4 DEF CachedClaim, ClaimObject
<1> QED BY <1>2, <1>5 DEF Current

LEMMA ChangeTypes ==
  ASSUME TypeInv, RequestsOK, ChangeStep \/ ChangeFault, EnvTypes
  PROVE  TypeInv'
<1> USE DEF EnvTypes
<1>1. changeQueue \in Seq(Request) /\ cw \in Request \cup {None}
  BY DEF TypeInv, TypeOK, TypeOKState
\* The claim is stored, or only the queue and cw change.
<1>2. ASSUME NEW c \in Claim, NEW obj \in ClaimObject \cup {None}, NEW queue \in Seq(Request),
             Store(c, obj, queue),
             UNCHANGED <<services, pools, ipnode, beaten, svcFeed, svcCache, svc, claimQueue, wk,
                         cw, live, mon>>
      PROVE  TypeInv'
  <2>1. /\ claims' \in [Claim -> ClaimObject \cup {None}]
        /\ claimCache' \in [Claim -> CachedClaim \cup {None}]
        /\ changeQueue' \in Seq(Request)
        /\ \A d \in Claim : claimCache[d] # None => claimCache'[d] # None
    BY <1>2, StoreTypes
  <2>2. TypeOK'
    BY <1>2, <2>1 DEF TypeInv, TypeOK, TypeOKState
  <2>3. WorkerTaskOK'
    BY <1>2, <2>1 DEF TypeInv, WorkerTaskOK
  <2> QED BY <1>2, <2>2, <2>3 DEF TypeInv, ServiceTaskOK, MonitorOK
<1>3. ASSUME changeQueue' \in Seq(Request), cw' \in Request \cup {None},
             cw' # None => cw'.type = "Added",
             UNCHANGED <<services, pools, claims, ipnode, beaten, svcFeed, svcCache, svc,
                         claimCache, claimQueue, wk, live, mon>>
      PROVE  TypeInv'
  <2>1. TypeOK'
    BY <1>3 DEF TypeInv, TypeOK, TypeOKState
  <2> QED BY <1>3, <2>1 DEF TypeInv, ServiceTaskOK, WorkerTaskOK, MonitorOK
<1>4. changeQueue # <<>> => /\ Head(changeQueue) \in Request /\ Tail(changeQueue) \in Seq(Request)
                            /\ Head(changeQueue).claim \in Claim
  BY <1>1, HeadTypes
<1>5. CASE CreateClaim
  <2> USE <1>5 DEF CreateClaim
  <2>1. CASE claims[Head(changeQueue).claim] = None
    <3>1. NewClaim(Head(changeQueue).owner) \in ClaimObject
      BY <1>1, HeadTypes DEF NewClaim, ClaimObject
    <3> QED BY <1>2, <1>4, <2>1, <3>1
  <2>2. CASE claims[Head(changeQueue).claim] # None
    BY <1>3, <1>4, <2>2
  <2> QED BY <2>1, <2>2
<1>6. CASE AddOwner
  <2> USE <1>6 DEF AddOwner
  <2>1. cw \in Request /\ cw.type = "Added"
    BY <1>1 DEF TypeInv
  <2>2. cw.claim \in Claim /\ cw.owner \in Services
    BY <2>1 DEF Request
  <2>3. claims[cw.claim] \in ClaimObject
    BY <2>2 DEF TypeInv, TypeOK, TypeOKState
  <2>4. WithOwner(claims[cw.claim], cw.owner) \in ClaimObject
    BY <2>2, <2>3 DEF WithOwner, ClaimObject
  <2>5. UpdatedReq(cw.claim, WithOwner(claims[cw.claim], cw.owner)) \in Request
    BY <2>2, <2>4 DEF UpdatedReq, Request
  <2>6. changeQueue' \in Seq(Request)
    BY <1>1, <2>5 DEF Enqueue
  <2> QED BY <1>3, <2>6
<1>7. CASE UpdateClaim
  <2> USE <1>7 DEF UpdateClaim
  <2>1. CASE Current(Head(changeQueue)) = None
    BY <1>3, <1>1, <1>4, <2>1 DEF TypeInv
  <2>2. CASE Current(Head(changeQueue)) # None
    <3>1. Current(Head(changeQueue)) \in ClaimObject \cup {None}
      BY CurrentTypes
    <3> QED BY <1>2, <1>4, <2>2, <3>1
  <2> QED BY <2>1, <2>2
<1>8. CASE DeleteClaim
  BY <1>2, <1>4, <1>8 DEF DeleteClaim
<1>9. CASE CallFails
  BY <1>3, <1>1, <1>4, <1>9 DEF CallFails, TypeInv
<1>10. CASE GetFails
  <2>1. changeQueue' \in Seq(Request)
    BY <1>1, <1>10 DEF GetFails, Enqueue
  <2> QED BY <1>3, <1>10, <2>1 DEF GetFails
<1> QED BY <1>5, <1>6, <1>7, <1>8, <1>9, <1>10 DEF ChangeStep, ChangeFault

-----------------------------------------------------------------------------
(* monitorIPNodes.                                                         *)
LEMMA MonitorTypes ==
  ASSUME TypeInv, Tick \/ MarkNode \/ ClaimsUnlisted, EnvTypes
  PROVE  TypeInv'
<1> USE DEF EnvTypes
<1>1. CASE Tick
  <2> USE <1>1 DEF Tick
  <2>1. Listed \subseteq Nodes /\ beaten \subseteq Listed
    BY DEF Listed, TypeInv, MonitorOK
  <2>2. TypeOK'
    BY <2>1 DEF TypeInv, TypeOK, TypeOKState
  <2> QED BY <2>2 DEF TypeInv, ServiceTaskOK, WorkerTaskOK, MonitorOK
<1> DEFINE n == NextNode
<1>2. mon.todo # {} => n \in mon.todo /\ mon.todo \subseteq Nodes
  <2>1. mon.todo \subseteq Nat /\ mon.todo \subseteq Nodes
    BY ListOrderAssumption DEF TypeInv, TypeOK
  <2> QED BY <2>1, MinIsLeast DEF NextNode
<1>3. Forget(n) \subseteq Nodes /\ live \subseteq Nodes
  BY DEF Forget, TypeInv, TypeOK, TypeOKState
<1>4. CASE MarkNode
  <2>1. /\ mon.todo # {} /\ mon' = [todo |-> mon.todo \ {n}, newer |-> mon.newer \ {n}]
        /\ UNCHANGED <<services, pools, claims, ipnode, beaten, svcFeed, svcCache, svc, claimCache,
                       wk, changeQueue, cw>>
        /\ \/ live' = live \cup {n} /\ UNCHANGED claimQueue
           \/ live' = Forget(n) /\ claimQueue' \in AddKeys(claimQueue, ClaimsOn(n))
    BY <1>4 DEF MarkNode
  <2>2. claimQueue' \in QueueType(Claim)
    BY <2>1, AddKeysType DEF ClaimsOn, TypeInv, TypeOK, TypeOKState
  <2>3. live' \subseteq Nodes
    BY <1>2, <1>3, <2>1
  <2> HIDE DEF n
  <2>4. TypeOK'
    BY <2>1, <2>2, <2>3 DEF TypeInv, TypeOK, TypeOKState
  <2>5. MonitorOK'
    BY <2>1 DEF TypeInv, MonitorOK
  <2> QED BY <2>1, <2>4, <2>5 DEF TypeInv, ServiceTaskOK, WorkerTaskOK
<1>5. CASE ClaimsUnlisted
  <2>1. /\ mon' = Waiting /\ live' = Forget(n) /\ beaten' = beaten \cup mon.newer
        /\ UNCHANGED <<services, pools, claims, ipnode, svcFeed, svcCache, svc, claimCache,
                       claimQueue, wk, changeQueue, cw>>
    BY <1>5 DEF ClaimsUnlisted
  <2> HIDE DEF n
  <2>2. TypeOK'
    BY <1>3, <2>1 DEF TypeInv, TypeOK, TypeOKState, Waiting
  <2>3. MonitorOK'
    BY <2>1 DEF TypeInv, MonitorOK, Waiting
  <2> QED BY <2>1, <2>2, <2>3 DEF TypeInv, ServiceTaskOK, WorkerTaskOK
<1> QED BY <1>1, <1>4, <1>5

-----------------------------------------------------------------------------
(* Each step, whoever takes it.                                            *)
LEMMA StepTypes == TypeInv /\ RequestsOK /\ [Next]_vars => TypeInv'
<1> SUFFICES ASSUME TypeInv, RequestsOK, [Next]_vars PROVE TypeInv'
  OBVIOUS
<1>1. CASE UNCHANGED vars
  BY <1>1 DEF vars, schedVars, envVars, TypeInv, TypeOK, TypeOKState, ServiceTaskOK,
              WorkerTaskOK, MonitorOK
<1>2. CASE \E s \in Services : UserChange(s)
  BY <1>2, UserTypes
<1>3. CASE \E n \in Nodes : Heartbeat(n) \/ NodeFails(n) \/ NodeStarts(n)
  BY <1>3, ControllerTypes
<1>4. CASE StartWorkers \/ SchedulerFails \/ WatchBreaks
  BY <1>4, ProcessTypes
<1>5. UNCHANGED envVars => EnvTypes
  BY DEF envVars, EnvTypes, TypeInv, TypeOK
<1>6. CASE Goroutines
  <2>1. EnvTypes /\ phase = "running" /\ (ServiceStep \/ ClaimStep \/ ChangeStep)
    BY <1>5, <1>6 DEF Goroutines
  <2> QED BY <2>1, ServiceTypes, ClaimTypes, ChangeTypes
<1>7. CASE CallFault
  <2>1. EnvTypes
    <3>1. Fails("call") /\ UNCHANGED <<plan, ctl, phase>>
      BY <1>7 DEF CallFault
    <3>2. failures' \in [Kind -> Nat] /\ bounds' = bounds
      BY <3>1, FailsTypes
    <3> QED BY <3>1, <3>2 DEF EnvTypes
  <2>2. CASE ClaimsUnlisted
    BY <2>1, <2>2, MonitorTypes
  <2>3. CASE phase = "running" /\ (ServiceFault \/ ClaimFault \/ ChangeFault)
    BY <2>1, <2>3, ServiceTypes, ClaimTypes, ChangeTypes
  <2> QED BY <1>7, <2>2, <2>3 DEF CallFault
<1>8. CASE \E c \in Claim : ClaimEvent(c)
  BY <1>5, <1>8, DeliverClaimTypes DEF ClaimEvent
<1>9. CASE MonitorTick \/ Monitor
  BY <1>5, <1>9, MonitorTypes DEF MonitorTick, Monitor
<1>10. CASE Resync
  BY <1>5, <1>10, ResyncTypes DEF Resync
<1> QED BY <1>1, <1>2, <1>3, <1>4, <1>6, <1>7, <1>8, <1>9, <1>10 DEF Next
=============================================================================
