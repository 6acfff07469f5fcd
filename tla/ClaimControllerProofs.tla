----------------------- MODULE ClaimControllerProofs -----------------------
(***************************************************************************)
(* Proofs about ClaimController for any claims, nodes, numbers of changes  *)
(* and numbers of failures.                                                *)
(***************************************************************************)
EXTENDS ClaimController, WorkQueueOpsProofs

-----------------------------------------------------------------------------
(* Types.                                                                  *)

\* The claims as a step of the ledger leaves them.
Versions == Ledger!Placement \cup {None}

\* A new version keeps the older ones.
LEMMA AppendVersion ==
  ASSUME NEW s \in Seq(Versions), NEW p \in Versions
  PROVE  /\ Append(s, p) \in Seq(Versions) /\ Len(Append(s, p)) = Len(s) + 1
         /\ \A v \in 1..Len(s) : Append(s, p)[v] = s[v]
OBVIOUS

\* The scheduler changes one claim, by one version.
LEMMA ClaimChangesEffect ==
  ASSUME TypeOK, NEW c \in Claim, ClaimChanges(c)
  PROVE  /\ changes < MaxChanges /\ changes' = changes + 1
         /\ \E p \in Versions : history' = [history EXCEPT ![c] = Append(history[c], p)]
<1>1. history[c] \in Seq(Versions) /\ Len(history[c]) \in 1..Len(history[c])
  BY DEF TypeOK, Versions
<1>2. Now(c) \in Versions
  BY <1>1 DEF Now
<1> QED BY <1>2 DEF ClaimChanges, Versions

\* Each step keeps TypeOK.
LEMMA ClaimChangesKeepsTypes ==
  ASSUME TypeOK, NEW c \in Claim, ClaimChanges(c)
  PROVE  TypeOK'
<1>1. PICK p \in Versions : history' = [history EXCEPT ![c] = Append(history[c], p)]
  BY ClaimChangesEffect
<1>2. /\ changes \in 0..MaxChanges /\ changes < MaxChanges /\ changes' = changes + 1
      /\ MaxChanges \in Nat /\ history \in [Claim -> Seq(Versions)]
      /\ UNCHANGED <<seen, cached, queue, worker, addrs, failures>>
  BY ClaimChangesEffect, ControllerAssumption DEF TypeOK, ClaimChanges, Versions
<1>3. /\ Append(history[c], p) \in Seq(Versions)
      /\ Len(Append(history[c], p)) = Len(history[c]) + 1
      /\ \A v \in 1..Len(history[c]) : Append(history[c], p)[v] = history[c][v]
  BY <1>2, AppendVersion
<1>4. history' \in [Claim -> Seq(Versions)] /\ changes' \in 0..MaxChanges
  BY <1>1, <1>2, <1>3
<1>5. ASSUME NEW d \in Claim
      PROVE  /\ Len(history'[d]) \in 1..changes' + 1 /\ history'[d][1] = None
             /\ seen'[d] \in 1..Len(history'[d])
             /\ cached'[d] # 0 => cached'[d] <= seen'[d] /\ history'[d][cached'[d]] # None
  <2>1. /\ Len(history[d]) \in 1..changes + 1 /\ history[d][1] = None
        /\ seen[d] \in 1..Len(history[d]) /\ cached[d] \in Nat
        /\ cached[d] # 0 => cached[d] <= seen[d] /\ history[d][cached[d]] # None
    BY DEF TypeOK
  <2>2. \A v \in 1..Len(history[d]) : history'[d][v] = history[d][v]
    BY <1>1, <1>2, <1>3
  <2>3. Len(history'[d]) \in {Len(history[d]), Len(history[d]) + 1}
    BY <1>1, <1>2, <1>3
  <2>4. changes \in Nat /\ Len(history[d]) \in Nat
    BY <1>2, <2>1
  <2>5. /\ Len(history'[d]) \in 1..changes + 2 /\ Len(history[d]) <= Len(history'[d])
        /\ 1 \in 1..Len(history[d])
    BY <2>1, <2>3, <2>4
  <2>6. seen[d] \in 1..Len(history'[d])
    BY <2>1, <2>4, <2>5
  <2>7. cached[d] # 0 => cached[d] \in 1..Len(history[d])
    BY <2>1, <2>4
  <2>8. seen' = seen /\ cached' = cached /\ changes' + 1 = changes + 2
    BY <1>2, <2>4
  <2>9. history'[d][1] = None /\ (cached[d] # 0 => history'[d][cached[d]] # None)
    BY <2>1, <2>2, <2>5, <2>7
  <2> QED BY <2>1, <2>5, <2>6, <2>8, <2>9
<1> QED BY <1>2, <1>4, <1>5 DEF TypeOK, Versions

LEMMA DeliverKeepsTypes ==
  ASSUME TypeOK, NEW c \in Claim, Deliver(c)
  PROVE  TypeOK'
<1> DEFINE v == seen[c] + 1
<1>1. /\ seen \in [Claim -> Nat] /\ cached \in [Claim -> Nat] /\ queue \in QueueType(Item)
      /\ v \in 1..Len(history[c]) /\ Len(history[c]) \in 1..changes + 1
      /\ changes \in 0..MaxChanges /\ MaxChanges \in Nat
  BY ControllerAssumption DEF TypeOK, Deliver
<1>2. <<c, v>> \in Item
  BY <1>1 DEF Item
<1>3. queue' \in QueueType(Item)
  BY <1>1, <1>2, QAddEffect DEF Deliver
<1>4. seen' = [seen EXCEPT ![c] = v] /\ cached' = [cached EXCEPT ![c] = StoreAfter(c, v)]
  BY DEF Deliver
<1>5. StoreAfter(c, v) \in Nat /\ StoreAfter(c, v) <= v
      /\ (StoreAfter(c, v) # 0 => history[c][StoreAfter(c, v)] # None)
  BY <1>1 DEF StoreAfter
<1>6. seen' \in [Claim -> Nat] /\ cached' \in [Claim -> Nat]
  BY <1>1, <1>4, <1>5
<1>7. ASSUME NEW d \in Claim
      PROVE  /\ seen'[d] \in 1..Len(history[d])
             /\ cached'[d] # 0 => cached'[d] <= seen'[d] /\ history[d][cached'[d]] # None
  BY <1>1, <1>4, <1>5 DEF TypeOK
<1> QED BY <1>3, <1>6, <1>7 DEF TypeOK, Deliver

LEMMA ResyncKeepsTypes ==
  ASSUME TypeOK, NEW c \in Claim, Resync(c)
  PROVE  TypeOK'
<1>1. /\ cached[c] \in 1..changes + 1 /\ queue \in QueueType(Item)
      /\ changes \in 0..MaxChanges /\ MaxChanges \in Nat
  BY ControllerAssumption DEF TypeOK, Resync, Cached
<1>2. <<c, cached[c]>> \in Item
  BY <1>1 DEF Item
<1>3. queue' \in QueueType(Item)
  BY <1>1, <1>2, QAddEffect DEF Resync, AddAgain
<1> QED BY <1>3 DEF TypeOK, Resync

\* The worker's three steps.
LEMMA TakeKeepsTypes ==
  ASSUME TypeOK, Take
  PROVE  TypeOK'
<1>1. queue \in QueueType(Item) /\ HasWork(queue)
  BY DEF TypeOK, Take
<1>2. NextItem(queue) \in Item /\ queue' \in QueueType(Item)
  BY <1>1, FirstWantedIsFirst, QGetEffect DEF Take
<1> QED BY <1>2 DEF TypeOK, Take

LEMMA CheckKeepsTypes ==
  ASSUME TypeOK, Check
  PROVE  TypeOK'
<1>1. worker \in [pc : {"check", "add", "del"}, item : Item]
  BY DEF TypeOK, Check, Idle
<1>2. worker' \in [pc : {"check", "add", "del"}, item : Item]
  BY <1>1 DEF Check
<1> QED BY <1>2 DEF TypeOK, Check

\* What a call to the kernel may do, and what happens to the item then.
LEMMA ApplyEffect ==
  ASSUME TypeOK, NEW failing \in BOOLEAN, Apply(failing)
  PROVE  /\ worker.item \in Item /\ worker.item[1] \in Claim /\ worker' = Idle
         /\ \/ worker.pc = "add" /\ addrs' \in {addrs, addrs \cup {worker.item[1]}}
            \/ worker.pc = "del" /\ failing /\ addrs' = addrs
            \/ worker.pc = "del" /\ ~failing /\ addrs' = addrs \ {worker.item[1]}
         /\ queue' = QDone(IF failing THEN QAdd(queue, worker.item) ELSE queue, worker.item)
         /\ UNCHANGED <<history, changes, seen, cached>>
<1>1. worker.item \in Item /\ worker.item[1] \in Claim
  BY DEF TypeOK, Apply, Idle, Item
<1>2. PICK r \in Ensure(failing) :
        /\ addrs' = r.addrs
        /\ queue' = QDone(IF r.ok THEN queue ELSE QAdd(queue, worker.item), worker.item)
  BY DEF Apply, Retried
<1>3. CASE worker.pc = "add"
  BY <1>1, <1>2, <1>3 DEF Apply, Ensure, EnsureIPAssigned, Outcome
<1>4. CASE worker.pc = "del"
  BY <1>1, <1>2, <1>4 DEF Apply, Ensure, EnsureIPUnassigned, Outcome
<1> QED BY <1>3, <1>4 DEF Apply

LEMMA ApplyKeepsTypes ==
  ASSUME TypeOK, NEW failing \in BOOLEAN, Apply(failing), failures' \in [Kind -> Nat]
  PROVE  TypeOK'
<1> DEFINE i == worker.item
           r == IF failing THEN QAdd(queue, i) ELSE queue
<1>1. queue \in QueueType(Item) /\ i \in Item /\ addrs \subseteq Claim
  BY ApplyEffect DEF TypeOK
<1>2. r \in QueueType(Item)
  BY <1>1, QAddEffect
<1>3. QDone(r, i) \in QueueType(Item)
  <2> HIDE DEF r, i
  <2> QED BY <1>1, <1>2, QDoneEffect
<1>4. queue' \in QueueType(Item) /\ worker' = Idle /\ addrs' \subseteq Claim
      /\ UNCHANGED <<history, changes, seen, cached>>
  BY <1>1, <1>3, ApplyEffect
<1> QED BY <1>4 DEF TypeOK

\* Failures, restarts and broken watches.
LEMMA FailsCounts ==
  ASSUME TypeOK, NEW kind \in Kind, Fails(kind)
  PROVE  /\ failures' \in [Kind -> Nat] /\ failures'[kind] = failures[kind] + 1
         /\ \A k \in Kind : failures'[k] >= failures[k]
BY DEF TypeOK, Fails

\* What a list returns is a version, and none before the first.
LEMMA ListedIsVersion ==
  ASSUME TypeOK, NEW c \in Claim
  PROVE  Listed(c) \in 1..Len(history[c])
BY DEF TypeOK, Listed, Now

LEMMA RestartedKeepsTypes ==
  ASSUME TypeOK, Restarted, addrs' \subseteq Claim, failures' \in [Kind -> Nat]
  PROVE  TypeOK'
<1>1. \A c \in Claim : Len(history[c]) \in Nat /\ Listed(c) \in 1..Len(history[c])
  BY ListedIsVersion DEF TypeOK
<1>2. seen' \in [Claim -> Nat] /\ cached' \in [Claim -> Nat]
  BY <1>1 DEF Restarted
<1>3. \A c \in Claim : seen'[c] \in 1..Len(history[c]) /\ cached'[c] = 0
  BY <1>1 DEF Restarted
<1>4. queue' \in QueueType(Item)
  BY DEF Restarted, EmptyQueue, QueueType
<1> QED BY <1>2, <1>3, <1>4 DEF TypeOK, Restarted

LEMMA WatchBreaksKeepsTypes ==
  ASSUME TypeOK, WatchBreaks
  PROVE  TypeOK'
<1>1. CASE \E c \in Cached : Now(c) = None
  BY <1>1, FailsCounts, RestartedKeepsTypes DEF WatchBreaks, Kind, TypeOK
<1>2. CASE ~\E c \in Cached : Now(c) = None
  <2>1. /\ failures' \in [Kind -> Nat]
        /\ seen' = [c \in Claim |-> IF seen[c] < Listed(c) THEN Listed(c) ELSE seen[c]]
        /\ UNCHANGED <<history, changes, cached, queue, worker, addrs>>
    BY <1>2, FailsCounts DEF WatchBreaks, Kind
  <2>2. \A c \in Claim : /\ Len(history[c]) \in Nat /\ Listed(c) \in 1..Len(history[c])
                         /\ seen[c] \in 1..Len(history[c]) /\ cached[c] \in Nat
    BY ListedIsVersion DEF TypeOK
  <2>3. /\ seen' \in [Claim -> Nat]
        /\ \A c \in Claim : seen'[c] \in 1..Len(history[c]) /\ seen[c] <= seen'[c]
    BY <2>1, <2>2
  <2>4. \A c \in Claim : cached[c] # 0 => cached[c] <= seen'[c]
    BY <2>2, <2>3 DEF TypeOK
  <2> QED BY <2>1, <2>3, <2>4 DEF TypeOK
<1> QED BY <1>1, <1>2

(* Types, and with them: the store holds a version that was delivered and  *)
(* is not a deletion, and the queue holds objects of versions there were.  *)
THEOREM TypeCorrect == Spec => []TypeOK
<1>1. Init => TypeOK
  <2> SUFFICES ASSUME Init PROVE TypeOK
    OBVIOUS
  <2>1. \A c \in Claim : history[c] = <<None>> /\ <<None>> \in Seq(Ledger!Placement \cup {None})
    BY DEF Init
  <2>2. queue \in QueueType(Item)
    BY DEF Init, EmptyQueue, QueueType
  <2> QED BY <2>1, <2>2, ControllerAssumption DEF Init, TypeOK
<1>2. TypeOK /\ [Next]_vars => TypeOK'
  <2> SUFFICES ASSUME TypeOK, [Next]_vars PROVE TypeOK'
    OBVIOUS
  <2>1. ASSUME NEW c \in Claim, ClaimChanges(c) \/ Deliver(c) \/ Resync(c) PROVE TypeOK'
    BY <2>1, ClaimChangesKeepsTypes, DeliverKeepsTypes, ResyncKeepsTypes
  <2>2. ASSUME NEW c \in Claim, RemovedByHand(c) PROVE TypeOK'
    BY <2>2, FailsCounts DEF RemovedByHand, TypeOK, Kind
  <2>3. CASE Process
    BY <2>3, TakeKeepsTypes, CheckKeepsTypes, ApplyKeepsTypes DEF Process, TypeOK
  <2>4. CASE NetlinkFails
    BY <2>4, FailsCounts, ApplyKeepsTypes DEF NetlinkFails, Kind
  <2>5. CASE ProcessDies
    BY <2>5, FailsCounts, RestartedKeepsTypes DEF ProcessDies, Kind, TypeOK
  <2>6. CASE WatchBreaks
    BY <2>6, WatchBreaksKeepsTypes
  <2>7. CASE UNCHANGED vars
    BY <2>7 DEF vars, TypeOK
  <2> QED BY <2>1, <2>2, <2>3, <2>4, <2>5, <2>6, <2>7 DEF Next
<1> QED BY <1>1, <1>2, PTL DEF Spec

-----------------------------------------------------------------------------
(* Deleted claims.                                                         *)

(* Something tells the worker that c is to be looked at: the store has it, *)
(* or an object of it waits.                                               *)
Known(c) == c \in Cached \/ \E i \in queue.added : i[1] = c

(* The strengthening: an address about to be added belongs to a claim      *)
(* whose deletion, if it came after the lookup in the store, waits in the  *)
(* queue.  What Pending counts beyond that, the item in processing, is     *)
(* gone when the address is on the interface.                              *)
Remembers ==
  /\ ~queue.closed
  /\ worker.pc = "add" => Known(worker.item[1])
  /\ DeletedIsNotForgotten

\* More to do, and no address more: nothing is forgotten.
LEMMA MoreIsKnown ==
  ASSUME Remembers, ~queue'.closed, worker' = worker, addrs' \subseteq addrs, Died' \/ ~Died,
         queue.added \subseteq queue'.added, queue.processing \subseteq queue'.processing,
         \A c \in Cached : Known(c)'
  PROVE  Remembers'
<1>1. \A c : Known(c) => Known(c)'
  BY DEF Known
<1>2. \A c : c \in Cached \/ Pending(c) => c \in Cached' \/ Pending(c)'
  BY DEF Known, Pending
<1> QED BY <1>1, <1>2 DEF Remembers, DeletedIsNotForgotten

\* Each step keeps Remembers.
LEMMA DeliverRemembers ==
  ASSUME TypeOK, Remembers, NEW c \in Claim, Deliver(c)
  PROVE  Remembers'
<1> DEFINE v == seen[c] + 1
<1>1. /\ queue \in QueueType(Item) /\ <<c, v>> \in Item /\ ~queue.closed
      /\ cached \in [Claim -> Nat] /\ v # 0
  BY ControllerAssumption DEF TypeOK, Deliver, Item, Remembers
<1>2. /\ ~queue'.closed /\ queue'.processing = queue.processing
      /\ queue'.added = queue.added \cup {<<c, v>>}
  <2>1. Adds(queue, <<c, v>>, queue')
    BY <1>1, QAddEffect, Zenon DEF Deliver
  <2> QED BY <1>1, <2>1 DEF Adds
<1>3. \A d \in Cached : Known(d)'
  BY <1>1, <1>2 DEF Known, Cached, Deliver
<1> QED BY <1>2, <1>3, MoreIsKnown DEF Deliver, Died

LEMMA ResyncRemembers ==
  ASSUME TypeOK, Remembers, NEW c \in Claim, Resync(c)
  PROVE  Remembers'
<1>1. /\ queue \in QueueType(Item) /\ <<c, cached[c]>> \in Item /\ ~queue.closed
  BY ControllerAssumption DEF TypeOK, Resync, Cached, Item, Remembers
<1>2. /\ ~queue'.closed /\ queue'.processing = queue.processing
      /\ queue'.added = queue.added \cup {<<c, cached[c]>>}
  <2>1. Adds(queue, <<c, cached[c]>>, queue')
    BY <1>1, QAddEffect, Zenon DEF Resync, AddAgain
  <2> QED BY <1>1, <2>1 DEF Adds
<1> QED BY <1>2, MoreIsKnown DEF Resync, Known, Cached, Died

\* Get moves an item to processing, where Pending still counts it.
LEMMA TakeRemembers ==
  ASSUME TypeOK, Remembers, Take
  PROVE  Remembers'
<1>1. /\ queue'.processing = queue.processing \cup {NextItem(queue)}
      /\ queue'.added = queue.added \ {NextItem(queue)}
  BY QGetEffect DEF TypeOK, Take
<1>2. queue'.closed = queue.closed
  BY DEF Take, QGet, TypeOK, QueueType
<1>3. \A c : Pending(c) => Pending(c)'
  BY <1>1 DEF Pending
<1> QED BY <1>2, <1>3 DEF Remembers, DeletedIsNotForgotten, Take, Cached, Died

\* The address is added only if the store has the claim.
LEMMA CheckRemembers ==
  ASSUME TypeOK, Remembers, Check
  PROVE  Remembers'
<1>1. worker'.item = worker.item /\ (worker'.pc = "add" => worker.item[1] \in Cached)
  BY DEF Check, Wants, TypeOK, Idle
<1> QED BY <1>1 DEF Remembers, DeletedIsNotForgotten, Known, Pending, Check, Cached, Died

\* What was done is dropped from the queue, what failed is in it again.
LEMMA ApplyRemembers ==
  ASSUME TypeOK, Remembers, NEW failing \in BOOLEAN, Apply(failing), Died' \/ ~Died
  PROVE  Remembers'
<1> DEFINE i == worker.item
           r == IF failing THEN QAdd(queue, i) ELSE queue
<1>1. queue \in QueueType(Item) /\ i \in Item /\ ~queue.closed
  BY ApplyEffect DEF TypeOK, Remembers
<1>2. /\ r \in QueueType(Item) /\ ~r.closed /\ r.processing = queue.processing
      /\ r.added = IF failing THEN queue.added \cup {i} ELSE queue.added
  <2>1. QAdd(queue, i) \in QueueType(Item) /\ Adds(queue, i, QAdd(queue, i))
    BY <1>1, QAddEffect, Zenon
  <2> QED BY <1>1, <2>1 DEF Adds
<1>3. queue' = QDone(r, i)
  BY ApplyEffect
<1> HIDE DEF r
<1>4. /\ ~queue'.closed /\ queue'.processing = queue.processing \ {i}
      /\ queue'.added = IF failing THEN queue.added \cup {i} ELSE queue.added
  BY <1>1, <1>2, <1>3, QDoneEffect DEF Finishes
<1>5. worker'.pc # "add" /\ Cached' = Cached
  BY ApplyEffect DEF Idle, Cached
<1>6. ASSUME NEW c \in addrs', ~Died
      PROVE  c \in Cached' \/ Pending(c)'
  <2>1. CASE c = i[1]
    <3>1. worker.pc = "add" \/ failing
      BY <2>1, ApplyEffect
    <3>2. Known(c) \/ i \in queue'.added
      BY <1>4, <2>1, <3>1 DEF Remembers
    <3> QED BY <1>4, <1>5, <2>1, <3>2 DEF Known, Pending
  <2>2. CASE c # i[1]
    <3>1. c \in Cached \/ Pending(c)
      BY <1>6, <2>2, ApplyEffect DEF Remembers, DeletedIsNotForgotten
    <3> QED BY <1>4, <1>5, <2>2, <3>1 DEF Pending
  <2> QED BY <2>1, <2>2
<1> QED BY <1>4, <1>5, <1>6 DEF Remembers, DeletedIsNotForgotten

LEMMA RestartRemembers ==
  ASSUME TypeOK, Restarted, Fails("process")
  PROVE  Remembers'
<1>1. failures' \in [Kind -> Nat] /\ failures'["process"] = failures["process"] + 1
  BY FailsCounts DEF Kind
<1>2. Died'
  BY <1>1 DEF Died, Kind, TypeOK
<1> QED BY <1>2 DEF Remembers, DeletedIsNotForgotten, Restarted, Idle, EmptyQueue

(* As long as the process lives, the address of a deleted claim stays on   *)
(* the interface only while an object of the claim waits in the queue or   *)
(* is in the worker's hands, for any number of claims, changes and failed  *)
(* calls.                                                                  *)
THEOREM DeletedClaimsAreRemembered == Spec => []DeletedIsNotForgotten
<1>1. Init => Remembers
  BY DEF Init, Remembers, DeletedIsNotForgotten, EmptyQueue, Idle
<1>2. TypeOK /\ Remembers /\ [Next]_vars => Remembers'
  <2> SUFFICES ASSUME TypeOK, Remembers, [Next]_vars PROVE Remembers'
    OBVIOUS
  <2>1. ASSUME queue' = queue, worker' = worker, cached' = cached, addrs' \subseteq addrs,
               Died' \/ ~Died
        PROVE  Remembers'
    BY <2>1 DEF Remembers, DeletedIsNotForgotten, Known, Pending, Cached
  <2>2. ASSUME NEW kind \in Kind, Fails(kind) PROVE Died' \/ ~Died
    BY <2>2, FailsCounts DEF Died, TypeOK, Kind
  <2>3. ASSUME NEW c \in Claim, ClaimChanges(c) PROVE Remembers'
    BY <2>1, <2>3 DEF ClaimChanges, Died
  <2>4. ASSUME NEW c \in Claim, RemovedByHand(c) PROVE Remembers'
    BY <2>1, <2>2, <2>4 DEF RemovedByHand, Kind
  <2>5. CASE Process
    BY <2>5, TakeRemembers, CheckRemembers, ApplyRemembers DEF Process, Died
  <2>6. CASE NetlinkFails
    BY <2>2, <2>6, ApplyRemembers DEF NetlinkFails, Kind
  <2>7. CASE ProcessDies
    BY <2>7, RestartRemembers DEF ProcessDies
  <2>8. CASE WatchBreaks
    BY <2>1, <2>2, <2>8, RestartRemembers DEF WatchBreaks, Kind
  <2>9. CASE UNCHANGED vars
    BY <2>1, <2>9 DEF vars, Died
  <2> QED BY <2>3, <2>4, <2>5, <2>6, <2>7, <2>8, <2>9,
             DeliverRemembers, ResyncRemembers DEF Next
<1>3. Remembers => DeletedIsNotForgotten
  BY DEF Remembers
<1> QED BY <1>1, <1>2, <1>3, TypeCorrect, PTL DEF Spec
=============================================================================
