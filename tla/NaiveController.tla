--------------------------- MODULE NaiveController ---------------------------
(***************************************************************************)
(* The controller of the simple mode: one process, an informer of the      *)
(* services, a queue of Add and Del requests and one worker that carries   *)
(* them out on the interface.  Users change the services; the process or   *)
(* its node may die, the watch may break, calls to the kernel may fail.    *)
(*                                                                         *)
(* A request is a new pointer, so nothing collapses in the work queue: it  *)
(* is a sequence.  The periodic resync is left out, for it does nothing:   *)
(* UpdateFunc returns when the addresses it is given are the same.         *)
(***************************************************************************)
EXTENDS Naturals, NetUtils, SequencesExt

CONSTANTS
  Services,    \* namespace/name of the services
  IPs,         \* external addresses
  None,        \* no service, no request
  MaxChanges,  \* bound: the changes users make
  Failures     \* bounds: each says how often every Kind fails at most

Kind == {"netlink", "watch", "process"}

ASSUME NaiveAssumption == MaxChanges \in Nat /\ Failures \subseteq [Kind -> Nat]

VARIABLES
  services,  \* API: service -> its externalIPs, or None
  feed,      \* service -> the versions its watch has not delivered yet
  store,     \* the informer's store
  queue,     \* Queue: the requests, in order
  worker,    \* the request worker carries out, or None
  addrs,     \* the addresses on the interface
  changes,   \* the changes users have made
  removed,   \* the addresses a Del was ever requested for
  failures   \* kind of failure -> how many have been

vars == <<services, feed, store, queue, worker, addrs, changes, removed, failures>>

Service == (SUBSET IPs) \cup {None}
Request == [op : {"add", "del"}, ip : IPs]
ASSUME RequestAssumption == None \notin Request /\ IsFiniteSet(IPs)
Requests(op, ips) == {[op |-> op, ip |-> ip] : ip \in ips}

Init ==
  /\ services = [s \in Services |-> None] /\ store = services
  /\ feed = [s \in Services |-> <<>>]
  /\ queue = <<>> /\ worker = None /\ addrs = {}
  /\ changes = 0 /\ removed = {}
  /\ failures = [k \in Kind |-> 0]

UserChange(s) ==
  /\ changes < MaxChanges /\ changes' = changes + 1
  /\ \E new \in Service :
       /\ new # services[s]
       /\ services' = [services EXCEPT ![s] = new]
       /\ feed' = [feed EXCEPT ![s] = Append(@, new)]
  /\ UNCHANGED <<store, queue, worker, addrs, removed, failures>>

-----------------------------------------------------------------------------
IPsOf(service) == IF service = None THEN {} ELSE service

(* neglectIPsInUse: the addresses that other services in the store have.   *)
InUseByOthers_None(s, stored) == {}  \* a mutant: the store is not looked at
InUseByOthers(s, stored) == UNION {IPsOf(stored[t]) : t \in Services \ {s}}

(* processServiceExternalIPs: what to request.                             *)
ToAdd(s, old, cur, stored) == (IPsOf(cur) \ IPsOf(old)) \ InUseByOthers(s, stored)
ToRemove(s, old, cur, stored) == (IPsOf(old) \ IPsOf(cur)) \ InUseByOthers(s, stored)

StoreAfter_Keeps(s, cur) == [store EXCEPT ![s] = IF cur = None THEN @ ELSE cur]  \* a mutant: Delete is missing
StoreAfter(s, cur) == [store EXCEPT ![s] = cur]

(* The informer stores the object, then the handler requests what changed: *)
(* the additions in any order, then the removals in any order.             *)
Deliver(s) ==
  LET cur == Head(feed[s])
      add == ToAdd(s, store[s], cur, store')
      remove == ToRemove(s, store[s], cur, store') IN
  /\ feed[s] # <<>>
  /\ feed' = [feed EXCEPT ![s] = Tail(@)]
  /\ store' = StoreAfter(s, cur)
  /\ \E first \in SetToSeqs(Requests("add", add)), then \in SetToSeqs(Requests("del", remove)) :
       queue' = queue \o first \o then
  /\ removed' = removed \cup remove
  /\ UNCHANGED <<services, worker, addrs, changes, failures>>

-----------------------------------------------------------------------------
Take ==
  /\ worker = None /\ queue # <<>>
  /\ worker' = Head(queue) /\ queue' = Tail(queue)
  /\ UNCHANGED <<services, feed, store, addrs, changes, removed, failures>>

Ensure(failing) ==
  IF worker.op = "add" THEN EnsureIPAssigned(addrs, worker.ip, failing)
  ELSE EnsureIPUnassigned(addrs, worker.ip, failing)

Retried_Not(q, r) == q  \* a mutant: the error is only logged
Retried(q, r) == Append(q, r)

(* processItem: a request that failed is queued again, behind the others.  *)
Apply(failing) ==
  /\ worker # None
  /\ \E r \in Ensure(failing) :
       /\ addrs' = r.addrs
       /\ queue' = IF r.ok THEN queue ELSE Retried(queue, worker)
  /\ worker' = None
  /\ UNCHANGED <<services, feed, store, changes, removed>>

Process == Take \/ (Apply(FALSE) /\ UNCHANGED failures)

-----------------------------------------------------------------------------
Fails(kind) ==
  /\ failures' = [failures EXCEPT ![kind] = @ + 1]
  /\ \E bound \in Failures : \A k \in Kind : failures'[k] <= bound[k]

NetlinkFails == Fails("netlink") /\ Apply(TRUE)

(* What the watch delivers after the services were listed.                 *)
Listed == [s \in Services |-> IF services[s] = None THEN <<>> ELSE <<services[s]>>]

(* Another process starts with empty memory, and lists the services.       *)
Restarted ==
  /\ store' = [s \in Services |-> None] /\ feed' = Listed
  /\ queue' = <<>> /\ worker' = None
  /\ UNCHANGED <<services, changes, removed>>

(* On the same node the addresses are still on the interface; on another   *)
(* one there are none.                                                     *)
ProcessDies == Fails("process") /\ Restarted /\ addrs' \in {addrs, {}}

(* The watch breaks and the services are listed again.  One that is gone   *)
(* unnoticed reaches DeleteFunc as a DeletedFinalStateUnknown, whose type  *)
(* assertion ends the process.                                             *)
WatchBreaks ==
  /\ IF \E s \in Services : store[s] # None /\ services[s] = None
       THEN Fails("process") /\ Restarted
       ELSE /\ Fails("watch") /\ feed' = Listed
            /\ UNCHANGED <<services, store, queue, worker, changes, removed>>
  /\ UNCHANGED addrs

Next ==
  \/ \E s \in Services : UserChange(s) \/ Deliver(s)
  \/ Process
  \/ NetlinkFails \/ ProcessDies \/ WatchBreaks

(* The watch delivers and the worker works; users and failures owe nothing. *)
Fairness == WF_vars(Process) /\ \A s \in Services : WF_vars(Deliver(s))

Spec == Init /\ [][Next]_vars /\ Fairness

-----------------------------------------------------------------------------
TypeOK ==
  /\ services \in [Services -> Service] /\ store \in [Services -> Service]
  /\ feed \in [Services -> Seq(Service)]
  /\ \A s \in Services : services[s] = IF feed[s] = <<>> THEN store[s] ELSE Last(feed[s])
  /\ queue \in Seq(Request) /\ worker \in Request \cup {None}
  /\ addrs \subseteq IPs /\ removed \subseteq IPs
  /\ changes \in 0..MaxChanges /\ failures \in [Kind -> Nat]

InUse == UNION {IPsOf(services[s]) : s \in Services}
InStore == UNION {IPsOf(store[s]) : s \in Services}
Died == failures["process"] > 0

(* What the requests under way make of an address: the last one says it.   *)
LastRequest(ip) == {k \in DOMAIN queue : queue[k].ip = ip /\ \A j \in k+1..Len(queue) : queue[j].ip # ip}
WillBeUp(ip) ==
  IF \E k \in DOMAIN queue : queue[k].ip = ip
    THEN \E k \in LastRequest(ip) : queue[k].op = "add"
  ELSE IF worker # None /\ worker.ip = ip THEN worker.op = "add"
  ELSE ip \in addrs

(* As long as no call to the kernel fails, the requests under way lead to  *)
(* what the store asks for: an address of several services is neither      *)
(* removed with the first of them nor left when the last one goes.  What a *)
(* process that died left on the interface may stay.                       *)
RequestsAgreeWithStore ==
  failures["netlink"] = 0 =>
    \A ip \in IPs :
      /\ ip \in InStore => WillBeUp(ip)
      /\ ~Died /\ ip \notin InStore => ~WillBeUp(ip)

(* Every address in use comes up and stays up, whatever died.  If calls to *)
(* the kernel failed too, this is so for the addresses whose removal was   *)
(* never asked for: a request is tried until it succeeds.  Nothing else    *)
(* stays on the interface, unless the process died or a call failed.       *)
InterfaceFollowsServices ==
  <>[](/\ \A ip \in InUse : failures["netlink"] = 0 \/ ip \notin removed => ip \in addrs
       /\ failures["netlink"] = 0 /\ ~Died => addrs \subseteq InUse)

(* The interface has the addresses the services require.                   *)
IPsAreUp == <>[](InUse \subseteq addrs)
=============================================================================
