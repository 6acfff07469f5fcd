--------------------------- MODULE ServiceWatcher ---------------------------
(***************************************************************************)
(* serviceWatcher: the goroutine of the service informer.  It delivers the *)
(* events of the services one by one, and each handler runs to its end     *)
(* before the next event.  A step ends with a call to the API server.      *)
(***************************************************************************)
EXTENDS SchedulerState, Sequences

(* svc.pc: "idle"; in processExternalIPs "list" (of the pools), "pool"     *)
(* (update it), "service" (update it), "status" (update it); in            *)
(* processOldService "old" (list of the pools), "free" (one address).      *)
(* cur and old are the handler's arguments (None when it has none); ip and *)
(* pool what is being allocated; todo the old addresses left.              *)
NoTask == [pc |-> "idle", name |-> None, old |-> None, ip |-> None, pool |-> None,
           todo |-> <<>>, copy |-> NoPools]
ServiceTask ==
  [pc : {"idle", "list", "pool", "service", "status", "old", "free"},
   name : Services \cup {None}, old : Service \cup {None}, ip : IPs \cup {None},
   pool : Pools \cup {None}, todo : Seq(IPs), copy : PoolCopy]

RangeOf(seq) == {seq[k] : k \in DOMAIN seq}

(* Those of a list that are in a set, in the order of the list.            *)
Among(list, set) ==
  LET kept[n \in 0..Len(list)] ==
        IF n = 0 THEN <<>>
        ELSE IF list[n] \in set THEN Append(kept[n - 1], list[n]) ELSE kept[n - 1]
  IN kept[Len(list)]

(* The informer stores the object, then calls the handler.                 *)
Deliver(s) ==
  LET event == Head(svcFeed[s])
      known == svcCache[s] IN
  /\ svc.pc = "idle" /\ svcFeed[s] # <<>>
  /\ svcFeed' = [svcFeed EXCEPT ![s] = Tail(@)]
  /\ svcCache' = [svcCache EXCEPT ![s] = IF event.gone THEN None ELSE event.obj]
  /\ svc' = IF event.gone
              THEN [NoTask EXCEPT !.pc = "old", !.name = s, !.old = event.obj]
              ELSE [NoTask EXCEPT !.pc = "list", !.name = s, !.old = known]
  /\ UNCHANGED <<services, pools, claims, ipnode, beaten, claimCache, claimQueue, wk,
                 changeQueue, cw, live, mon>>

(* What the handler does after processExternalIPs: UpdateFunc goes on with *)
(* processOldService, AddFunc is done.                                     *)
AfterNew_KeepsOld(task) == NoTask  \* a mutant: the old addresses stay
AfterNew(task) == IF task.old = None THEN NoTask ELSE [task EXCEPT !.pc = "old"]

(* The service has an address from a pool already.                         *)
FoundAuto_Never(obj, copy) == FALSE  \* a mutant: each event allocates
FoundAuto(obj, copy) == \E ip \in RangeOf(obj.ips) : PoolsOf(copy, ip) # {}

(* processExternalIPs up to its first update, with the pools List          *)
(* returned: a request for every address no pool allocated; then, if none  *)
(* was from a pool, an address for the service that asks for one.          *)
ListForNew(copy) ==
  LET obj == svcCache[svc.name]
      given == Among(obj.ips, {ip \in IPs : PoolsOf(copy, ip) = {}})
      requests == [k \in DOMAIN given |-> AddedReq(<<given[k], DefaultMask>>, svc.name)] IN
  /\ svc.pc = "list"
  /\ IF FoundAuto(obj, copy) \/ obj.want = "none" \/ PoolsWithFree(copy) = {}
       THEN /\ changeQueue' = changeQueue \o requests
            /\ svc' = AfterNew(svc)
       ELSE LET p == FreePool(copy)
                ip == FreeIP(copy) IN
            /\ changeQueue' = Append(changeQueue \o requests,
                                     AddedReq(<<ip, PoolMask[p]>>, svc.name))
            /\ svc' = [svc EXCEPT !.pc = "pool", !.ip = ip, !.pool = p, !.copy = copy]
  /\ UNCHANGED <<services, pools, claims, ipnode, beaten, svcFeed, svcCache, claimCache,
                 claimQueue, wk, cw, live, mon>>

(* updatePoolAllocation, then the address goes into the cached service.    *)
(* reached: the call gets to the server.                                   *)
AllocateInPool(reached) ==
  LET p == svc.pool IN
  /\ svc.pc = "pool"
  /\ IF reached /\ Accepted(svc.copy, p)
       THEN /\ pools' = [pools EXCEPT ![p] = svc.copy.alloc[p] \cup {svc.ip}]
            /\ wk' = [wk EXCEPT !.copy = Spoil(@, p)]
       ELSE UNCHANGED <<pools, wk>>
  /\ svc' = [svc EXCEPT !.pc = "service", !.copy = NoPools]
  /\ svcCache' = [svcCache EXCEPT ![svc.name].ips = Append(@, svc.ip)]
  /\ UNCHANGED <<services, claims, ipnode, beaten, svcFeed, claimCache, claimQueue,
                 changeQueue, cw, live, mon>>

(* A balanced service that was updated gets the address in its status.     *)
AfterUpdate_Anyhow(task, updated) ==  \* a mutant: the status of what was not updated
  IF svcCache[task.name].want = "lb" THEN [task EXCEPT !.pc = "status"] ELSE AfterNew(task)
AfterUpdate(task, updated) ==
  IF updated /\ svcCache[task.name].want = "lb"
    THEN [task EXCEPT !.pc = "status"] ELSE AfterNew(task)

(* Services().Update: refused if the service changed since the event.      *)
UpdateService(reached) ==
  LET s == svc.name
      current == reached /\ svcFeed[s] = <<>> IN
  /\ svc.pc = "service"
  /\ IF current
       THEN /\ services' = [services EXCEPT ![s] = svcCache[s]]
            /\ svcFeed' = [svcFeed EXCEPT ![s] = <<[obj |-> svcCache[s], gone |-> FALSE]>>]
       ELSE UNCHANGED <<services, svcFeed>>
  /\ svc' = AfterUpdate(svc, current)
  /\ UNCHANGED <<pools, claims, ipnode, beaten, svcCache, claimCache, claimQueue, wk,
                 changeQueue, cw, live, mon>>

(* Services().UpdateStatus of what Update returned: one more event.  It    *)
(* fails if the service changed since Update.                              *)
UpdateStatus(reached) ==
  LET s == svc.name IN
  /\ svc.pc = "status"
  /\ svcFeed' = IF reached /\ Len(svcFeed[s]) = 1
                  THEN [svcFeed EXCEPT ![s] = Append(@, [obj |-> services[s], gone |-> FALSE])]
                  ELSE svcFeed
  /\ svc' = AfterNew(svc)
  /\ UNCHANGED <<services, pools, claims, ipnode, beaten, svcCache, claimCache, claimQueue,
                 wk, changeQueue, cw, live, mon>>

Freeing(task) == IF task.todo = <<>> THEN NoTask ELSE [task EXCEPT !.pc = "free"]

(* The addresses of the services in the cache.                             *)
Referenced_None == {}  \* a mutant: nothing is looked up
Referenced == UNION {RangeOf(svcCache[s].ips) : s \in {t \in Services : svcCache[t] # None}}

(* processOldService: the addresses of the old object that no cached       *)
(* service has, and the pools.                                             *)
ListForOld(copy) ==
  /\ svc.pc = "old"
  /\ svc' = Freeing([svc EXCEPT !.copy = copy,
                        !.todo = Among(svc.old.ips, IPs \ Referenced)])
  /\ UNCHANGED <<services, pools, claims, ipnode, beaten, svcFeed, svcCache, claimCache,
                 claimQueue, wk, changeQueue, cw, live, mon>>

(* deleteIPClaimAndAllocation of one address.  The list's copy of the pool *)
(* is not current any more, unless the call failed on its way.             *)
FreeAddress(reached) ==
  LET ip == Head(svc.todo)
      p == PoolOf(svc.copy, ip)
      freed == [svc.copy EXCEPT !.alloc[p] = @ \ {ip}]
      copy == IF reached THEN Spoil(freed, p) ELSE freed IN
  /\ svc.pc = "free"
  /\ Enqueue(DeletedReq(<<ip, MaskOf(svc.copy, ip)>>))
  /\ IF PoolsOf(svc.copy, ip) = {}
       THEN svc' = Freeing([svc EXCEPT !.todo = Tail(@)]) /\ UNCHANGED <<pools, wk>>
       ELSE /\ svc' = Freeing([svc EXCEPT !.todo = Tail(@), !.copy = copy])
            /\ IF reached /\ Accepted(svc.copy, p)
                 THEN /\ pools' = [pools EXCEPT ![p] = freed.alloc[p]]
                      /\ wk' = [wk EXCEPT !.copy = Spoil(@, p)]
                 ELSE UNCHANGED <<pools, wk>>
  /\ UNCHANGED <<services, claims, ipnode, beaten, svcFeed, svcCache, claimCache,
                 claimQueue, cw, live, mon>>

ServiceStep ==
  \/ \E s \in Services : Deliver(s)
  \/ ListForNew(PoolsRead) \/ AllocateInPool(TRUE) \/ UpdateService(TRUE) \/ UpdateStatus(TRUE)
  \/ ListForOld(PoolsRead) \/ FreeAddress(TRUE)

(* A call fails: the code logs the error and goes on, after List with an   *)
(* empty list.                                                             *)
ServiceFault ==
  \/ ListForNew(NoPools) \/ AllocateInPool(FALSE) \/ UpdateService(FALSE) \/ UpdateStatus(FALSE)
  \/ ListForOld(NoPools) \/ FreeAddress(FALSE)
=============================================================================
