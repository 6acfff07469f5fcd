------------------------------ MODULE WorkQueue ------------------------------
(***************************************************************************)
(* pkg/workqueue with the goroutines that share it: producers call Add,    *)
(* Remove and Close at any moment, each worker loops over                  *)
(*     item, quit := Get(); ...; [Add(item) on failure]; Done(item).       *)
(* A method body is one step, because it runs under the queue's mutex.     *)
(* Get is two steps when it blocks: cond.Wait releases the mutex, and      *)
(* other calls run between the Signal and the moment the woken goroutine   *)
(* holds the mutex again.                                                  *)
(***************************************************************************)
EXTENDS WorkQueueOps, FiniteSets

CONSTANTS Items,      \* the keys and requests users put in the queue
          Workers,    \* the goroutines that call Get
          NoItem,     \* what a worker that is not busy holds
          Users,      \* the ways the queue is used
          MaxLen      \* bound: Remove is not called with a longer slice

(* How somebody uses the queue: the goroutines that call Get, and the      *)
(* items some producer calls Remove for.                                   *)
User == [workers : (SUBSET Workers) \ {{}}, removes : SUBSET Items]

ASSUME ItemsAssumption == NoItem \notin Items
ASSUME WorkersAssumption == IsFiniteSet(Workers)
ASSUME UsersAssumption == Users \subseteq User
ASSUME MaxLenAssumption == MaxLen \in Nat

VARIABLES q,      \* the Queue struct
          state,  \* where each worker is
          item,   \* the item each busy worker holds
          user    \* who uses the queue

wqVars == <<q, state, item, user>>

(* idle: about to call Get.  waiting: in cond.Wait.  woken: signalled, not *)
(* holding the mutex yet.  busy: between Get and Done.  quit: Get returned *)
(* quit.  nil: Get returned (nil, false), which the callers' type          *)
(* assertion turns into a panic.                                           *)
WorkerState == {"idle", "waiting", "woken", "busy", "quit", "nil"}

In(st) == {w \in Workers : state[w] = st}

Init ==
  /\ q = EmptyQueue
  /\ state = [w \in Workers |-> "idle"]
  /\ item = [w \in Workers |-> NoItem]
  /\ user \in Users

(* cond.Signal: one waiting goroutine is woken, if there is any.           *)
Signalled(st) ==
  LET asleep == {w \in Workers : st[w] = "waiting"} IN
  IF asleep = {} THEN {st} ELSE {[st EXCEPT ![w] = "woken"] : w \in asleep}

Broadcast(st) == [w \in Workers |-> IF st[w] = "waiting" THEN "woken" ELSE st[w]]

(* Add and Done signal when they append to the slice, and only then.       *)
\* A mutant: Done queues without a Signal.
Settled_Add(st) ==
  IF Len(q'.items) > Len(q.items) /\ q'.added # q.added THEN Signalled(st) ELSE {st}
Settled(st) == IF Len(q'.items) > Len(q.items) THEN Signalled(st) ELSE {st}

Add(i) == q' = QAdd(q, i) /\ state' \in Settled(state) /\ UNCHANGED <<item, user>>

Remove(i) ==
  /\ i \in user.removes /\ Len(q.items) < MaxLen
  /\ q' = QRemove(q, i) /\ UNCHANGED <<state, item, user>>

Close == q' = QClose(q) /\ state' = Broadcast(state) /\ UNCHANGED <<item, user>>

\* A mutant: Get returns nil at once, and the caller goes on with it.
Wait_Not(w) ==
  /\ state[w] = "idle" /\ q.items = <<>> /\ ~q.closed
  /\ state' = [state EXCEPT ![w] = "busy"]
  /\ UNCHANGED <<q, item, user>>

(* Get, first half: the queue is empty and open.                           *)
Wait(w) ==
  /\ state[w] = "idle" /\ q.items = <<>> /\ ~q.closed
  /\ state' = [state EXCEPT ![w] = "waiting"]
  /\ UNCHANGED <<q, item, user>>

(* A goroutine past the test at the top of Get.  One that was woken does   *)
(* not test again.                                                         *)
Ready(w) == state[w] = "woken" \/ (state[w] = "idle" /\ (q.items # <<>> \/ q.closed))

GetItem(w) ==
  /\ Ready(w) /\ HasWork(q)
  /\ q' = QGet(q)
  /\ state' = [state EXCEPT ![w] = "busy"]
  /\ item' = [item EXCEPT ![w] = NextItem(q)]
  /\ UNCHANGED user

GetNil(w) ==
  /\ Ready(w) /\ ~HasWork(q)
  /\ q' = QGetNil(q)
  /\ state' = [state EXCEPT ![w] = IF q.closed THEN "quit" ELSE "nil"]
  /\ UNCHANGED <<item, user>>

(* The worker's own Add of an item it could not process.                   *)
Requeue(w) ==
  /\ state[w] = "busy"
  /\ q' = QAdd(q, item[w]) /\ state' \in Settled(state) /\ UNCHANGED <<item, user>>

Done(w) ==
  /\ state[w] = "busy"
  /\ q' = QDone(q, item[w])
  /\ state' \in Settled([state EXCEPT ![w] = "idle"])
  /\ item' = [item EXCEPT ![w] = NoItem]
  /\ UNCHANGED user

Work(w) == w \in user.workers /\ (Wait(w) \/ GetItem(w) \/ GetNil(w) \/ Done(w))

Next ==
  \/ \E i \in Items : Add(i) \/ Remove(i)
  \/ Close
  \/ \E w \in Workers : Work(w) \/ Requeue(w)

(* A goroutine that can run is run in the end, and processing an item      *)
(* ends.  Producers owe nothing.                                           *)
Spec == Init /\ [][Next]_wqVars /\ \A w \in Workers : WF_wqVars(Work(w))

-----------------------------------------------------------------------------
(* What users rely on.                                                     *)

TypeOK ==
  /\ q \in QueueType(Items)
  /\ state \in [Workers -> WorkerState]
  /\ item \in [Workers -> Items \cup {NoItem}]
  /\ user \in Users

(* An item accepted by Add is never dropped: until Get hands it out or     *)
(* Remove withdraws it, it is in the slice, or in the hands of a worker    *)
(* whose Done will put it there.                                           *)
NeverLost == \A i \in q.added : i \in Queued(q) \/ \E w \in In("busy") : item[w] = i

(* The items nobody calls Remove for.                                      *)
Kept == Items \ user.removes

(* No kept item is processed by two workers at once, however often it is   *)
(* added while it is being processed: this is what lets processIpClaim and *)
(* processItem run without a lock of their own.                            *)
OneAtATime ==
  \A v, w \in In("busy") : v # w /\ item[v] \in Kept => item[v] # item[w]

(* A kept item is in the slice at most once, and never while it is being   *)
(* processed: repeated Adds of a key collapse into one.  (Add after Remove *)
(* puts a second entry in the slice.)                                      *)
Collapsed ==
  /\ \A j, k \in DOMAIN q.items :
       j # k /\ q.items[j] \in Kept => q.items[j] # q.items[k]
  /\ Queued(q) \cap q.processing \subseteq user.removes

(* While some goroutine sleeps in Get, every item of the slice has a       *)
(* goroutine that was woken for it: no wakeup is lost.                     *)
NoLostWakeup == In("waiting") # {} => Len(q.items) <= Cardinality(In("woken"))

(* One goroutine calls Get and nobody calls Remove, as everywhere in the   *)
(* repository.                                                             *)
Alone == user.removes = {} /\ \A v, w \in user.workers : v = w

(* Get returns (nil, false) to no worker that is alone: the callers assert *)
(* the item's type.                                                        *)
NeverNil == Alone => In("nil") = {}

(* The workers leave a closed queue only when nothing that was accepted    *)
(* is left undone.                                                         *)
DrainedAtQuit == In("quit") = user.workers => q.closed /\ q.added = {} /\ q.processing = {}

(* Every accepted item is handed to a worker, unless Get returned nil to   *)
(* one of several: its panic ends the program.                             *)
Served == \A i \in Items : (i \in q.added) ~> (i \notin q.added \/ In("nil") # {})

(* Nothing the queue does with its slice and its condition variable shows: *)
(* to its users the items that none of them removes are those of           *)
(* KeyedQueue.                                                             *)
Lasting == Items \ UNION {u.removes : u \in Users}
Promise == INSTANCE KeyedQueue WITH
  Items <- Lasting,
  pending <- q.added \cap Lasting,
  held <- {<<w, item[w]>> : w \in {v \in In("busy") : item[v] \in Lasting}}
KeepsPromise == Promise!Spec
=============================================================================
