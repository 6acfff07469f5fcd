--------------------------- MODULE WorkQueueProofs ---------------------------
(***************************************************************************)
(* Proofs about WorkQueue for any items, workers and producers.            *)
(***************************************************************************)
EXTENDS WorkQueue, WorkQueueOpsProofs, FiniteSetTheorems

-----------------------------------------------------------------------------
(* A signal moves a sleeping goroutine only.                               *)
LEMMA SettledKeepsBusy ==
  ASSUME NEW st \in [Workers -> WorkerState], NEW t \in Settled(st)
  PROVE  /\ t \in [Workers -> WorkerState]
         /\ \A w \in Workers : t[w] = "busy" <=> st[w] = "busy"
         /\ \A w \in Workers : st[w] # "waiting" => t[w] = st[w]
         /\ \A w \in Workers : st[w] = "waiting" => t[w] \in {"waiting", "woken"}
BY DEF Settled, Signalled, WorkerState

\* What a call of Add leaves behind, whoever makes it.
LEMMA AddEffect ==
  ASSUME TypeOK, NEW i \in Items, Add(i)
  PROVE  /\ q' \in QueueType(Items) /\ Adds(q, i, q') /\ item' = item /\ user' = user
         /\ state' \in [Workers -> WorkerState]
         /\ \A w \in Workers : state'[w] = "busy" <=> state[w] = "busy"
<1>1. q \in QueueType(Items) /\ q' = QAdd(q, i) /\ item' = item /\ user' = user
  BY DEF Add, TypeOK
<1>2. /\ state' \in [Workers -> WorkerState]
      /\ \A w \in Workers : state'[w] = "busy" <=> state[w] = "busy"
  BY SettledKeepsBusy DEF Add, TypeOK
<1>3. q' \in QueueType(Items) /\ Adds(q, i, q')
  BY <1>1, QAddEffect, Zenon
<1> QED BY <1>1, <1>2, <1>3

(* The inductive invariant: where an accepted item can be.                 *)
BusyHoldsItem == \A w \in Workers : state[w] = "busy" => item[w] \in Items
AddedIsKept == \A i \in q.added : i \in Queued(q) \/ i \in q.processing
ProcessingIsHeld == \A i \in q.processing : \E w \in Workers : state[w] = "busy" /\ item[w] = i

QInv == TypeOK /\ BusyHoldsItem /\ AddedIsKept /\ ProcessingIsHeld

\* The empty queue loses nothing.
LEMMA InitQInv == Init => QInv
BY DEF Init, QInv, TypeOK, BusyHoldsItem, AddedIsKept, ProcessingIsHeld, EmptyQueue,
       QueueType, WorkerState

\* Each step keeps QInv.
LEMMA AddKeepsQInv ==
  ASSUME QInv, NEW i \in Items, Add(i)
  PROVE  QInv'
<1>1. TypeOK'
  BY AddEffect DEF QInv, TypeOK
<1>2. BusyHoldsItem' /\ ProcessingIsHeld'
  BY AddEffect DEF QInv, Adds, BusyHoldsItem, ProcessingIsHeld
<1>3. AddedIsKept'
  BY AddEffect DEF QInv, Adds, AddedIsKept
<1> QED BY <1>1, <1>2, <1>3 DEF QInv

LEMMA RequeueKeepsQInv ==
  ASSUME QInv, NEW w \in Workers, Requeue(w)
  PROVE  QInv'
BY AddKeepsQInv DEF Requeue, Add, QInv, BusyHoldsItem

LEMMA DoneKeepsQInv ==
  ASSUME QInv, NEW w \in Workers, Done(w)
  PROVE  QInv'
<1> DEFINE i == item[w]
           st == [state EXCEPT ![w] = "idle"]
<1>1. i \in Items /\ q \in QueueType(Items) /\ state \in [Workers -> WorkerState]
  BY DEF Done, QInv, BusyHoldsItem, TypeOK
<1>2. st \in [Workers -> WorkerState] /\ st[w] = "idle" /\ \A v \in Workers \ {w} : st[v] = state[v]
  BY <1>1 DEF WorkerState
<1>3. /\ q' = QDone(q, i) /\ state' \in Settled(st)
      /\ item' = [item EXCEPT ![w] = NoItem] /\ user' = user
  BY DEF Done
<1> HIDE DEF i, st
<1>4. /\ state' \in [Workers -> WorkerState]
      /\ \A v \in Workers : state'[v] = "busy" <=> st[v] = "busy"
  BY <1>2, <1>3, SettledKeepsBusy
<1>5. \A v \in Workers : state'[v] = "busy" <=> v # w /\ state[v] = "busy"
  BY <1>2, <1>4
<1>6. /\ q' \in QueueType(Items) /\ q'.processing = q.processing \ {i} /\ q'.added = q.added
      /\ Queued(q') = IF i \in q.added THEN Queued(q) \cup {i} ELSE Queued(q)
  BY <1>1, <1>3, QDoneEffect DEF Finishes
<1>7. item' \in [Workers -> Items \cup {NoItem}] /\ \A v \in Workers \ {w} : item'[v] = item[v]
  BY <1>3 DEF QInv, TypeOK
<1>8. TypeOK'
  BY <1>3, <1>4, <1>6, <1>7 DEF QInv, TypeOK
<1>9. BusyHoldsItem'
  BY <1>5, <1>7 DEF QInv, BusyHoldsItem
<1>10. AddedIsKept'
  BY <1>6 DEF QInv, AddedIsKept
<1>11. ProcessingIsHeld'
  BY <1>5, <1>6, <1>7 DEF QInv, ProcessingIsHeld, i
<1> QED BY <1>8, <1>9, <1>10, <1>11 DEF QInv

LEMMA GetItemKeepsQInv ==
  ASSUME QInv, NEW w \in Workers, GetItem(w)
  PROVE  QInv'
<1> DEFINE n == NextItem(q)
<1>1. /\ q \in QueueType(Items) /\ HasWork(q) /\ q' = QGet(q)
      /\ state[w] \in {"idle", "woken"}
      /\ state' = [state EXCEPT ![w] = "busy"] /\ item' = [item EXCEPT ![w] = n]
      /\ user' = user
  BY DEF GetItem, Ready, QInv, TypeOK
<1>2. n \in Items
  BY <1>1, FirstWantedIsFirst
<1> HIDE DEF n
<1>3. /\ q' \in QueueType(Items) /\ q'.processing = q.processing \cup {n}
      /\ q'.added = q.added \ {n}
      /\ \A j \in q.added : j \in Queued(q) /\ j # n => j \in Queued(q')
  BY <1>1, QGetEffect DEF n
<1>4. TypeOK'
  BY <1>1, <1>2, <1>3 DEF QInv, TypeOK, WorkerState
<1>5. BusyHoldsItem'
  BY <1>1, <1>2 DEF QInv, TypeOK, BusyHoldsItem
<1>6. AddedIsKept'
  BY <1>3 DEF QInv, AddedIsKept
<1>7. ProcessingIsHeld'
  <2>1. /\ state'[w] = "busy" /\ item'[w] = n
        /\ \A v \in Workers \ {w} : state'[v] = state[v] /\ item'[v] = item[v]
    BY <1>1 DEF QInv, TypeOK
  <2> QED BY <1>1, <1>3, <2>1 DEF QInv, ProcessingIsHeld
<1> QED BY <1>4, <1>5, <1>6, <1>7 DEF QInv

LEMMA OtherStepsKeepQInv ==
  ASSUME QInv,
         \/ \E i \in Items : Remove(i)
         \/ Close
         \/ \E w \in Workers : Wait(w) \/ GetNil(w)
         \/ UNCHANGED wqVars
  PROVE  QInv'
<1> USE DEF QInv, TypeOK, BusyHoldsItem, AddedIsKept, ProcessingIsHeld, QueueType, WorkerState
<1>1. ASSUME NEW i \in Items, Remove(i) PROVE QInv'
  BY <1>1 DEF Remove, QRemove, Queued
<1>2. CASE Close
  <2>1. /\ q' \in QueueType(Items) /\ q'.items = q.items
        /\ q'.added = q.added /\ q'.processing = q.processing
    BY <1>2 DEF Close, QClose
  <2>2. /\ item' = item /\ user' = user /\ state' \in [Workers -> WorkerState]
        /\ \A v \in Workers : state'[v] = "busy" <=> state[v] = "busy"
    BY <1>2 DEF Close, Broadcast
  <2>3. Queued(q') = Queued(q)
    BY <2>1 DEF Queued
  <2> QED BY <2>1, <2>2, <2>3
<1>3. ASSUME NEW w \in Workers, Wait(w) PROVE QInv'
  BY <1>3 DEF Wait
<1>4. ASSUME NEW w \in Workers, GetNil(w) PROVE QInv'
  <2>1. \A i \in q.added : i \notin Queued(q)
    BY <1>4 DEF GetNil, HasWork, Wanted, Queued
  <2>2. /\ q' \in QueueType(Items) /\ q'.added = q.added /\ q'.processing = q.processing
    <3>1. <<>> \in Seq(Items) /\ q' = [q EXCEPT !.items = <<>>] /\ q \in QueueType(Items)
      BY <1>4 DEF GetNil, QGetNil
    <3> QED BY <3>1
  <2>3. /\ item' = item /\ user' = user /\ state' \in [Workers -> WorkerState]
        /\ \A v \in Workers : state'[v] = "busy" <=> state[v] = "busy"
    BY <1>4 DEF GetNil, Ready
  <2> QED BY <2>1, <2>2, <2>3
<1>5. CASE UNCHANGED wqVars
  BY <1>5 DEF wqVars
<1> QED BY <1>1, <1>2, <1>3, <1>4, <1>5

\* So does every step the queue and its workers take.
LEMMA NextKeepsQInv == QInv /\ [Next]_wqVars => QInv'
BY AddKeepsQInv, RequeueKeepsQInv, DoneKeepsQInv, GetItemKeepsQInv, OtherStepsKeepQInv
   DEF Next, Work

\* QInv holds in every reachable state.
LEMMA QInvIsInvariant == Spec => []QInv
BY InitQInv, NextKeepsQInv, PTL DEF Spec

(* The variables keep the types the code declares, whatever the producers  *)
(* and workers do.                                                         *)
THEOREM TypeCorrect == Spec => []TypeOK
<1>1. QInv => TypeOK
  BY DEF QInv
<1> QED BY QInvIsInvariant, <1>1, PTL

(* An item Add accepted is in the slice, or held by a worker whose Done    *)
(* queues it, until Get hands it out: with any number of workers, and      *)
(* whatever is removed.                                                    *)
THEOREM AddedItemsAreNeverLost == Spec => []NeverLost
<1>1. QInv => NeverLost
  BY DEF QInv, AddedIsKept, ProcessingIsHeld, NeverLost, In
<1> QED BY QInvIsInvariant, <1>1, PTL

-----------------------------------------------------------------------------
(* One worker per item that is not removed (Remove followed by Add leaves  *)
(* two entries of an item in the slice).                                   *)
Distinct(s, K) == \A j, k \in DOMAIN s : j # k /\ s[j] \in K => s[j] # s[k]

(* The inductive invariant: of a kept item there is one entry, or a worker *)
(* has it, and every entry is still wanted.                                *)
Exclusive ==
  /\ Distinct(q.items, Kept)
  /\ Queued(q) \cap Kept \subseteq q.added
  /\ Queued(q) \cap q.processing \cap Kept = {}
  /\ \A w \in Workers : state[w] = "busy" /\ item[w] \in Kept => item[w] \in q.processing
  /\ \A v, w \in Workers :
       state[v] = "busy" /\ state[w] = "busy" /\ v # w /\ item[v] \in Kept => item[v] # item[w]

\* Appending an item the slice lacks keeps its entries distinct.
LEMMA AppendDistinct ==
  ASSUME NEW K, NEW s \in Seq(Items), NEW i \in Items, Distinct(s, K),
         i \in K => i \notin {s[k] : k \in DOMAIN s}
  PROVE  Distinct(Append(s, i), K)
BY DEF Distinct

\* Add queues an item once.
LEMMA QAddDistinct ==
  ASSUME NEW K, NEW r \in QueueType(Items), NEW i \in Items,
         Distinct(r.items, K), Queued(r) \cap K \subseteq r.added
  PROVE  Distinct(QAdd(r, i).items, K)
<1>1. CASE r.closed \/ i \in r.added
  BY <1>1 DEF QAdd
<1>2. CASE ~(r.closed \/ i \in r.added)
  <2>1. r.items \in Seq(Items) /\ (i \in K => i \notin {r.items[k] : k \in DOMAIN r.items})
    BY <1>2 DEF QueueType, Queued
  <2>2. QAdd(r, i).items = IF i \in r.processing THEN r.items ELSE Append(r.items, i)
    BY <1>2 DEF QAdd, QueueType
  <2> QED BY <2>1, <2>2, AppendDistinct
<1> QED BY <1>1, <1>2

\* Done queues an item that was not queued.
LEMMA QDoneDistinct ==
  ASSUME NEW K, NEW r \in QueueType(Items), NEW i \in Items, Distinct(r.items, K),
         i \in K => i \notin Queued(r)
  PROVE  Distinct(QDone(r, i).items, K)
<1>1. r.items \in Seq(Items) /\ (i \in K => i \notin {r.items[k] : k \in DOMAIN r.items})
  BY DEF QueueType, Queued
<1>2. QDone(r, i).items = IF i \in r.added THEN Append(r.items, i) ELSE r.items
  BY DEF QDone, QueueType
<1> QED BY <1>1, <1>2, AppendDistinct

LEMMA ShiftKeepsApart ==
  ASSUME NEW j \in Int, NEW k \in Int, NEW f \in Int, j # k
  PROVE  j + f # k + f
OBVIOUS

\* Get takes the only entry of a kept item.
LEMMA QGetDistinct ==
  ASSUME NEW K, NEW r \in QueueType(Items), HasWork(r), Distinct(r.items, K)
  PROVE  /\ Distinct(QGet(r).items, K)
         /\ NextItem(r) \in Queued(r)
         /\ NextItem(r) \in K => NextItem(r) \notin Queued(QGet(r))
<1> DEFINE f == FirstWanted(r)
           a == SubSeq(r.items, f + 1, Len(r.items))
<1>1. f \in 1..Len(r.items) /\ NextItem(r) = r.items[f]
  BY FirstWantedIsFirst DEF NextItem
<1>2. r.items \in Seq(Items) /\ QGet(r).items = a
  BY DEF QGet, QueueType
<1> HIDE DEF f
<1>3. /\ DOMAIN a = 1..(Len(r.items) - f) /\ DOMAIN r.items = 1..Len(r.items)
      /\ \A k \in 1..(Len(r.items) - f) : a[k] = r.items[k + f]
  BY <1>1, <1>2
<1>4. \A k \in DOMAIN a : k + f \in DOMAIN r.items /\ k + f # f /\ a[k] = r.items[k + f]
  <2>1. f \in 1..Len(r.items) /\ Len(r.items) \in Nat
    BY <1>1, <1>2
  <2> HIDE DEF a
  <2>2. \A k \in 1..(Len(r.items) - f) : k + f \in 1..Len(r.items) /\ k + f # f
    BY <2>1
  <2> QED BY <1>3, <2>2
<1> HIDE DEF a
<1>5. Distinct(a, K)
  <2> SUFFICES ASSUME NEW j \in DOMAIN a, NEW k \in DOMAIN a, j # k, a[j] \in K
               PROVE  a[j] # a[k]
    BY DEF Distinct
  <2>1. j \in Int /\ k \in Int /\ f \in Int
    <3>1. j \in 1..(Len(r.items) - f) /\ k \in 1..(Len(r.items) - f)
      BY <1>3
    <3> QED BY <1>1, <3>1
  <2>2. j + f # k + f
    BY <2>1, ShiftKeepsApart, Zenon
  <2>3. j + f \in DOMAIN r.items /\ k + f \in DOMAIN r.items
        /\ a[j] = r.items[j + f] /\ a[k] = r.items[k + f]
    BY <1>4
  <2> QED BY <1>1, <2>2, <2>3 DEF Distinct
<1>6. r.items[f] \in K => \A k \in DOMAIN a : a[k] # r.items[f]
  BY <1>1, <1>3, <1>4 DEF Distinct
<1>7. NextItem(r) \in Queued(r)
  BY <1>1, <1>3 DEF Queued
<1> QED BY <1>1, <1>2, <1>5, <1>6, <1>7 DEF Queued

\* Each step keeps Exclusive.
LEMMA AddKeepsExclusive ==
  ASSUME QInv, Exclusive, NEW i \in Items, Add(i)
  PROVE  Exclusive'
<1>1. q \in QueueType(Items) /\ q' = QAdd(q, i)
  BY DEF Add, QInv, TypeOK
<1>2. Distinct(q'.items, Kept)
  BY <1>1, QAddDistinct DEF Exclusive
<1>3. /\ Adds(q, i, q') /\ item' = item /\ Kept' = Kept
      /\ \A w \in Workers : state'[w] = "busy" <=> state[w] = "busy"
  BY AddEffect DEF QInv, Kept
<1>4. /\ Queued(q') \cap Kept \subseteq q'.added
      /\ Queued(q') \cap q'.processing \cap Kept = {}
  BY <1>3 DEF Exclusive, Adds
<1> QED BY <1>2, <1>3, <1>4 DEF Exclusive, Adds

LEMMA DoneKeepsExclusive ==
  ASSUME QInv, Exclusive, NEW w \in Workers, Done(w)
  PROVE  Exclusive'
<1> DEFINE i == item[w]
           st == [state EXCEPT ![w] = "idle"]
<1>1. /\ state[w] = "busy" /\ i \in Items /\ q \in QueueType(Items)
      /\ state \in [Workers -> WorkerState] /\ (i \in Kept => i \in q.processing)
  BY DEF Done, QInv, BusyHoldsItem, TypeOK, Exclusive
<1>2. /\ st \in [Workers -> WorkerState] /\ st[w] = "idle"
      /\ \A v \in Workers \ {w} : st[v] = state[v]
  BY <1>1 DEF WorkerState
<1>3. q' = QDone(q, i) /\ state' \in Settled(st) /\ item' = [item EXCEPT ![w] = NoItem]
  BY DEF Done
<1>4. \A v \in Workers \ {w} : item[v] = i /\ i \in Kept => state[v] # "busy"
  BY <1>1 DEF Exclusive
<1>5. i \in Kept => i \notin Queued(q)
  BY <1>1 DEF Exclusive
<1> HIDE DEF i, st
<1>6. \A v \in Workers : state'[v] = "busy" <=> st[v] = "busy"
  BY <1>2, <1>3, SettledKeepsBusy
<1>7. \A v \in Workers : state'[v] = "busy" <=> v # w /\ state[v] = "busy"
  BY <1>2, <1>6
<1>8. /\ q'.processing = q.processing \ {i} /\ q'.added = q.added
      /\ Queued(q') = IF i \in q.added THEN Queued(q) \cup {i} ELSE Queued(q)
  BY <1>1, <1>3, QDoneEffect DEF Finishes
<1>9. Distinct(q'.items, Kept)
  BY <1>1, <1>3, <1>5, QDoneDistinct DEF Exclusive
<1>10. \A v \in Workers \ {w} : item'[v] = item[v]
  BY <1>3 DEF QInv, TypeOK
<1>11. Kept' = Kept
  BY DEF Done, Kept
<1> QED BY <1>4, <1>7, <1>8, <1>9, <1>10, <1>11 DEF Exclusive

LEMMA GetItemKeepsExclusive ==
  ASSUME QInv, Exclusive, NEW w \in Workers, GetItem(w)
  PROVE  Exclusive'
<1> DEFINE n == NextItem(q)
<1>1. /\ q \in QueueType(Items) /\ HasWork(q) /\ q' = QGet(q)
      /\ state' = [state EXCEPT ![w] = "busy"] /\ item' = [item EXCEPT ![w] = n]
  BY DEF GetItem, QInv, TypeOK
<1>2. /\ q'.processing = q.processing \cup {n} /\ q'.added = q.added \ {n}
      /\ Queued(q') \subseteq Queued(q)
  BY <1>1, QGetEffect
<1>3. Distinct(q'.items, Kept) /\ n \in Queued(q) /\ (n \in Kept => n \notin Queued(q'))
  BY <1>1, QGetDistinct DEF Exclusive
<1> HIDE DEF n
<1>4. /\ state'[w] = "busy" /\ item'[w] = n
      /\ \A v \in Workers \ {w} : state'[v] = state[v] /\ item'[v] = item[v]
  BY <1>1 DEF QInv, TypeOK
<1>5. \A v \in Workers \ {w} : state[v] = "busy" /\ item[v] \in Kept => item[v] # n
  BY <1>3 DEF Exclusive
<1>6. Kept' = Kept
  BY DEF GetItem, Kept
<1> QED BY <1>2, <1>3, <1>4, <1>5, <1>6 DEF Exclusive

LEMMA OtherStepsKeepExclusive ==
  ASSUME QInv, Exclusive,
         \/ \E i \in Items : Remove(i)
         \/ Close
         \/ \E w \in Workers : Wait(w) \/ GetNil(w)
         \/ UNCHANGED wqVars
  PROVE  Exclusive'
<1>1. ASSUME q'.items = q.items \/ q'.items = <<>>, q'.added \cap Kept = q.added \cap Kept,
             q'.processing = q.processing, item' = item, user' = user,
             \A w \in Workers : state'[w] = "busy" <=> state[w] = "busy"
      PROVE  Exclusive'
  <2>1. Distinct(q'.items, Kept) /\ Queued(q') \subseteq Queued(q) /\ Kept' = Kept
    BY <1>1 DEF Exclusive, Distinct, Queued, Kept
  <2> QED BY <1>1, <2>1 DEF Exclusive
<1>2. CASE Close
  BY <1>1, <1>2 DEF Close, QClose, Broadcast, QInv, TypeOK, QueueType
<1>3. ASSUME NEW w \in Workers, Wait(w) PROVE Exclusive'
  BY <1>1, <1>3 DEF Wait, QInv, TypeOK
<1>4. ASSUME NEW w \in Workers, GetNil(w) PROVE Exclusive'
  BY <1>1, <1>4 DEF GetNil, Ready, QGetNil, QInv, TypeOK, QueueType
<1>5. CASE UNCHANGED wqVars
  BY <1>1, <1>5 DEF wqVars
<1>6. ASSUME NEW i \in Items, Remove(i) PROVE Exclusive'
  <2>1. i \notin Kept /\ q \in QueueType(Items)
    BY <1>6 DEF Remove, Kept, QInv, TypeOK
  <2>2. q'.items = q.items /\ q'.added = q.added \ {i} /\ q'.processing = q.processing
    BY <1>6, <2>1 DEF Remove, QRemove, QueueType
  <2> QED BY <1>1, <1>6, <2>1, <2>2 DEF Remove
<1> QED BY <1>2, <1>3, <1>4, <1>5, <1>6

\* Exclusive holds in every reachable state.
LEMMA ExclusiveIsInvariant == Spec => []Exclusive
<1>1. Init => Exclusive
  BY DEF Init, Exclusive, Distinct, Queued, EmptyQueue
<1>2. QInv /\ Exclusive /\ [Next]_wqVars => Exclusive'
  <2> SUFFICES ASSUME QInv, Exclusive, [Next]_wqVars PROVE Exclusive'
    OBVIOUS
  <2>1. ASSUME NEW i \in Items, Add(i) \/ Remove(i) PROVE Exclusive'
    BY <2>1, AddKeepsExclusive, OtherStepsKeepExclusive
  <2>2. ASSUME NEW w \in Workers, Requeue(w) PROVE Exclusive'
    BY <2>2, AddKeepsExclusive DEF Requeue, Add, QInv, BusyHoldsItem
  <2>3. ASSUME NEW w \in Workers, Work(w) PROVE Exclusive'
    BY <2>3, DoneKeepsExclusive, GetItemKeepsExclusive, OtherStepsKeepExclusive DEF Work
  <2> QED BY <2>1, <2>2, <2>3, OtherStepsKeepExclusive DEF Next
<1> QED BY <1>1, <1>2, QInvIsInvariant, PTL DEF Spec

(* Two workers never process one item, for the items nobody calls Remove   *)
(* for, whatever is done with the others.                                  *)
THEOREM OneWorkerPerItem == Spec => []OneAtATime
<1>1. QInv /\ Exclusive => OneAtATime
  BY DEF Exclusive, OneAtATime, In
<1> QED BY QInvIsInvariant, ExclusiveIsInvariant, <1>1, PTL

(* Repeated Adds of an item collapse into one entry of the slice, which is *)
(* not there while the item is processed.                                  *)
THEOREM RepeatedAddsCollapse == Spec => []Collapsed
<1>1. QInv /\ Exclusive => Collapsed
  <2> SUFFICES ASSUME QInv, Exclusive PROVE Collapsed
    OBVIOUS
  <2>1. Queued(q) \subseteq Items
    BY DEF QInv, TypeOK, QueueType, Queued
  <2>2. Queued(q) \cap q.processing \subseteq user.removes
    BY <2>1 DEF Exclusive, Kept
  <2> QED BY <2>2 DEF Exclusive, Distinct, Collapsed
<1> QED BY QInvIsInvariant, ExclusiveIsInvariant, <1>1, PTL

-----------------------------------------------------------------------------
(* Wakeups.                                                                *)

At(st, s) == {w \in Workers : st[w] = s}

\* A signal wakes one goroutine if any sleeps, and none otherwise.
LEMMA SignalWakesOne ==
  ASSUME NEW st \in [Workers -> WorkerState], NEW t \in Signalled(st), At(st, "waiting") # {}
  PROVE  /\ t \in [Workers -> WorkerState]
         /\ Cardinality(At(t, "woken")) = Cardinality(At(st, "woken")) + 1
<1>1. PICK w \in Workers : st[w] = "waiting" /\ t = [st EXCEPT ![w] = "woken"]
  BY DEF Signalled, At
<1>2. t \in [Workers -> WorkerState]
  BY <1>1 DEF WorkerState
<1>3. At(t, "woken") = At(st, "woken") \cup {w} /\ w \notin At(st, "woken")
  BY <1>1 DEF At
<1>4. IsFiniteSet(At(st, "woken"))
  BY WorkersAssumption, FS_Subset DEF At
<1> QED BY <1>2, <1>3, <1>4, FS_AddElement

(* What a step that may append owes to those who sleep: st is the state    *)
(* of the workers when the Signal is given.                                *)
LEMMA AppendWakes ==
  ASSUME NEW st \in [Workers -> WorkerState], state' \in Settled(st),
         Len(q.items) \in Nat, Len(q'.items) \in {Len(q.items), Len(q.items) + 1},
         At(st, "waiting") # {} => Len(q.items) <= Cardinality(At(st, "woken"))
  PROVE  NoLostWakeup'
<1> SUFFICES ASSUME At(state', "waiting") # {}
             PROVE  Len(q'.items) <= Cardinality(At(state', "woken"))
  BY DEF NoLostWakeup, In, At
<1>1. CASE Len(q'.items) = Len(q.items)
  BY <1>1 DEF Settled
<1>2. CASE Len(q'.items) = Len(q.items) + 1
  <2>1. state' \in Signalled(st)
    BY <1>2 DEF Settled
  <2>2. At(st, "waiting") # {}
    BY <2>1 DEF Signalled, At
  <2>3. Cardinality(At(st, "woken")) \in Nat
    BY WorkersAssumption, FS_Subset, FS_CardinalityType DEF At
  <2> QED BY <1>2, <2>1, <2>2, <2>3, SignalWakesOne
<1> QED BY <1>1, <1>2

\* Add and Done append at most one entry.
LEMMA AppendsOne ==
  ASSUME NEW r \in QueueType(Items), NEW i \in Items
  PROVE  /\ Len(r.items) \in Nat
         /\ Len(QAdd(r, i).items) \in {Len(r.items), Len(r.items) + 1}
         /\ Len(QDone(r, i).items) \in {Len(r.items), Len(r.items) + 1}
<1>1. r.items \in Seq(Items) /\ Len(Append(r.items, i)) = Len(r.items) + 1
  BY DEF QueueType
<1>2. QAdd(r, i).items \in {r.items, Append(r.items, i)}
  BY DEF QAdd, QueueType
<1>3. QDone(r, i).items \in {r.items, Append(r.items, i)}
  BY DEF QDone, QueueType
<1> QED BY <1>1, <1>2, <1>3

\* Get takes at least the entry it returns, and empties the slice for nil.
LEMMA GetShortens ==
  ASSUME NEW r \in QueueType(Items), HasWork(r)
  PROVE  Len(r.items) \in Nat /\ Len(QGet(r).items) \in Nat
         /\ Len(QGet(r).items) + 1 <= Len(r.items)
<1>1. FirstWanted(r) \in 1..Len(r.items) /\ r.items \in Seq(Items)
  BY FirstWantedIsFirst DEF QueueType
<1>2. QGet(r).items = SubSeq(r.items, FirstWanted(r) + 1, Len(r.items))
  BY DEF QGet, QueueType
<1> QED BY <1>1, <1>2

\* A call of Add or Done, and the Signal in it.
LEMMA AddKeepsWakeups ==
  ASSUME TypeOK, NoLostWakeup, NEW i \in Items, Add(i)
  PROVE  NoLostWakeup'
<1>1. q \in QueueType(Items) /\ state \in [Workers -> WorkerState]
      /\ q' = QAdd(q, i) /\ state' \in Settled(state)
  BY DEF Add, TypeOK
<1>2. Len(q.items) \in Nat /\ Len(q'.items) \in {Len(q.items), Len(q.items) + 1}
  BY <1>1, AppendsOne
<1> QED BY <1>1, <1>2, AppendWakes DEF NoLostWakeup, In, At

LEMMA DoneKeepsWakeups ==
  ASSUME QInv, NoLostWakeup, NEW w \in Workers, Done(w)
  PROVE  NoLostWakeup'
<1> DEFINE st == [state EXCEPT ![w] = "idle"]
<1>1. /\ q \in QueueType(Items) /\ item[w] \in Items /\ q' = QDone(q, item[w])
      /\ state \in [Workers -> WorkerState] /\ state[w] = "busy" /\ state' \in Settled(st)
  BY DEF Done, QInv, TypeOK, BusyHoldsItem
<1>2. st \in [Workers -> WorkerState]
  BY <1>1 DEF WorkerState
<1>3. At(st, "waiting") = In("waiting") /\ At(st, "woken") = In("woken")
  BY <1>1 DEF At, In
<1>4. Len(q.items) \in Nat /\ Len(q'.items) \in {Len(q.items), Len(q.items) + 1}
  BY <1>1, AppendsOne
<1> HIDE DEF st
<1> QED BY <1>1, <1>2, <1>3, <1>4, AppendWakes DEF NoLostWakeup

\* Get uses up the wakeup of at most one goroutine, and an entry with it.
LEMMA GetItemKeepsWakeups ==
  ASSUME TypeOK, NoLostWakeup, NEW w \in Workers, GetItem(w)
  PROVE  NoLostWakeup'
<1>1. /\ q \in QueueType(Items) /\ HasWork(q) /\ q' = QGet(q)
      /\ state \in [Workers -> WorkerState] /\ state' = [state EXCEPT ![w] = "busy"]
      /\ state[w] # "waiting"
  BY DEF GetItem, Ready, TypeOK
<1>2. In("waiting")' = In("waiting") /\ In("woken")' = In("woken") \ {w}
  BY <1>1 DEF In
<1>3. IsFiniteSet(In("woken")) /\ Cardinality(In("woken")) \in Nat
  BY WorkersAssumption, FS_Subset, FS_CardinalityType DEF In
<1>4. /\ Cardinality(In("woken")') \in Nat
      /\ Cardinality(In("woken")) <= Cardinality(In("woken")') + 1
  <2>1. IsFiniteSet(In("woken") \ {w})
    BY <1>3, FS_RemoveElement
  <2>2. Cardinality(In("woken") \ {w}) =
          IF w \in In("woken") THEN Cardinality(In("woken")) - 1 ELSE Cardinality(In("woken"))
    BY <1>3, FS_RemoveElement
  <2>3. Cardinality(In("woken") \ {w}) \in Nat
    BY <2>1, FS_CardinalityType
  <2> QED BY <1>2, <1>3, <2>2, <2>3
<1>5. /\ Len(q.items) \in Nat /\ Len(q'.items) \in Nat
      /\ Len(q'.items) + 1 <= Len(q.items)
  BY <1>1, GetShortens
<1>6. In("waiting") # {} => Len(q'.items) <= Cardinality(In("woken")')
  BY <1>3, <1>4, <1>5 DEF NoLostWakeup
<1> QED BY <1>2, <1>6 DEF NoLostWakeup

\* The other steps.
LEMMA OtherStepsKeepWakeups ==
  ASSUME TypeOK, NoLostWakeup,
         \/ \E i \in Items : Remove(i)
         \/ Close
         \/ \E w \in Workers : Wait(w) \/ GetNil(w)
         \/ UNCHANGED wqVars
  PROVE  NoLostWakeup'
<1>1. Cardinality(In("woken")') \in Nat
  <2>1. IsFiniteSet(In("woken")')
    BY WorkersAssumption, FS_Subset DEF In
  <2> QED BY <2>1, FS_CardinalityType
<1>2. CASE q'.items = <<>>
  BY <1>1, <1>2 DEF NoLostWakeup
<1>3. CASE q'.items = q.items /\ state' = state
  BY <1>3 DEF NoLostWakeup, In
<1>4. CASE Close
  BY <1>4 DEF Close, Broadcast, NoLostWakeup, In
<1>5. ASSUME NEW i \in Items, Remove(i) PROVE q'.items = q.items /\ state' = state
  BY <1>5 DEF Remove, QRemove, TypeOK, QueueType
<1>6. ASSUME NEW w \in Workers, Wait(w) \/ GetNil(w) PROVE q'.items = <<>>
  BY <1>6 DEF Wait, GetNil, QGetNil, TypeOK, QueueType
<1> QED BY <1>2, <1>3, <1>4, <1>5, <1>6 DEF wqVars

(* While somebody sleeps in Get, each entry of the slice has a goroutine   *)
(* that was woken and is on its way to it, for any number of goroutines:   *)
(* the Signals of Add and Done suffice although Get tests with if.         *)
THEOREM NoWakeupIsLost == Spec => []NoLostWakeup
<1>1. Init => NoLostWakeup
  BY DEF Init, NoLostWakeup, In
<1>2. QInv /\ NoLostWakeup /\ [Next]_wqVars => NoLostWakeup'
  <2> SUFFICES ASSUME QInv, NoLostWakeup, [Next]_wqVars PROVE NoLostWakeup'
    OBVIOUS
  <2> TypeOK
    BY DEF QInv
  <2>1. ASSUME NEW i \in Items, Add(i) \/ Remove(i) PROVE NoLostWakeup'
    BY <2>1, AddKeepsWakeups, OtherStepsKeepWakeups
  <2>2. ASSUME NEW w \in Workers, Requeue(w) PROVE NoLostWakeup'
    BY <2>2, AddKeepsWakeups DEF Requeue, Add, QInv, BusyHoldsItem
  <2>3. ASSUME NEW w \in Workers, Work(w) PROVE NoLostWakeup'
    BY <2>3, DoneKeepsWakeups, GetItemKeepsWakeups, OtherStepsKeepWakeups DEF Work
  <2> QED BY <2>1, <2>2, <2>3, OtherStepsKeepWakeups DEF Next
<1> QED BY <1>1, <1>2, QInvIsInvariant, PTL DEF Spec

-----------------------------------------------------------------------------
(* Leaving a closed queue.                                                 *)

(* The goroutines that do not call Get have no part in it.                 *)
OthersIdle == \A w \in Workers \ user.workers : state[w] = "idle"

\* Every user starts somebody.
LEMMA UserStartsSomebody ==
  ASSUME TypeOK
  PROVE  user.workers \subseteq Workers /\ user.workers # {} /\ user.removes \subseteq Items
BY UsersAssumption DEF TypeOK, User

\* No step wakes a goroutine that is not waiting.
LEMMA OthersStayIdle ==
  ASSUME QInv, OthersIdle, [Next]_wqVars
  PROVE  OthersIdle'
<1>1. state \in [Workers -> WorkerState]
  BY DEF QInv, TypeOK
<1>2. ASSUME NEW i \in Items, Add(i) PROVE OthersIdle'
  BY <1>1, <1>2, SettledKeepsBusy DEF Add, OthersIdle
<1>3. ASSUME NEW w \in Workers, Requeue(w) PROVE OthersIdle'
  BY <1>1, <1>3, SettledKeepsBusy DEF Requeue, OthersIdle
<1>4. ASSUME NEW w \in user.workers, NEW st \in WorkerState, user' = user,
             state' = [state EXCEPT ![w] = st] \/ state' \in Settled([state EXCEPT ![w] = "idle"])
      PROVE  OthersIdle'
  <2> DEFINE rested == [state EXCEPT ![w] = "idle"]
  <2>1. CASE state' = [state EXCEPT ![w] = st]
    BY <1>1, <1>4, <2>1 DEF OthersIdle
  <2>2. CASE state' \in Settled(rested)
    <3>1. /\ rested \in [Workers -> WorkerState]
          /\ \A v \in Workers \ user.workers : rested[v] = state[v]
      BY <1>1, <1>4 DEF WorkerState
    <3> HIDE DEF rested
    <3> QED BY <1>4, <2>2, <3>1, SettledKeepsBusy DEF OthersIdle
  <2> QED BY <1>4, <2>1, <2>2
<1>5. ASSUME NEW w \in Workers, Work(w) PROVE OthersIdle'
  <2>1. w \in user.workers /\ user' = user
    BY <1>5 DEF Work, Wait, GetItem, GetNil, Done
  <2>2. \E st \in WorkerState :
          state' = [state EXCEPT ![w] = st] \/ state' \in Settled([state EXCEPT ![w] = "idle"])
    BY <1>5 DEF Work, Wait, GetItem, GetNil, Done, WorkerState
  <2> QED BY <1>4, <2>1, <2>2
<1>6. ASSUME Close \/ \E i \in Items : Remove(i) PROVE OthersIdle'
  BY <1>1, <1>6 DEF Close, Broadcast, Remove, OthersIdle
<1>7. CASE UNCHANGED wqVars
  BY <1>7 DEF wqVars, OthersIdle
<1> QED BY <1>2, <1>3, <1>5, <1>6, <1>7 DEF Next

\* Who does not call Get stays idle.
LEMMA OthersIdleIsInvariant == Spec => []OthersIdle
<1>1. Init => OthersIdle
  BY DEF Init, OthersIdle
<1> QED BY <1>1, QInvIsInvariant, OthersStayIdle, PTL DEF Spec

(* A worker quits only a closed queue, and the last one leaves the slice   *)
(* empty.                                                                  *)
QuitInv ==
  /\ \A w \in Workers : state[w] = "quit" => q.closed
  /\ (\A w \in user.workers : state[w] = "quit") => q.items = <<>>

\* A closed queue stays closed, and Add leaves it alone.
LEMMA ClosedStaysClosed ==
  ASSUME NEW r \in QueueType(Items), NEW i \in Items
  PROVE  /\ QAdd(r, i).closed = r.closed /\ QDone(r, i).closed = r.closed
         /\ QRemove(r, i).closed = r.closed /\ QRemove(r, i).items = r.items
         /\ r.closed => QAdd(r, i) = r
BY DEF QueueType, QAdd, QDone, QRemove

\* Each step keeps QuitInv.
LEMMA StepsKeepQuitInv ==
  ASSUME QInv, QuitInv, [Next]_wqVars
  PROVE  QuitInv'
<1>1. /\ q \in QueueType(Items) /\ state \in [Workers -> WorkerState] /\ q.closed \in BOOLEAN
      /\ user.workers \subseteq Workers /\ user.workers # {}
  BY UserStartsSomebody DEF QInv, TypeOK, QueueType
<1>2. ASSUME NEW i \in Items, Add(i) PROVE QuitInv'
  <2>1. /\ q' = QAdd(q, i) /\ user' = user
        /\ \A w \in Workers : state'[w] = "quit" <=> state[w] = "quit"
    BY <1>1, <1>2, SettledKeepsBusy DEF Add
  <2>2. q'.closed = q.closed /\ (q.closed => q' = q)
    BY <1>1, <2>1, ClosedStaysClosed
  <2> QED BY <1>1, <2>1, <2>2 DEF QuitInv
<1>3. ASSUME NEW i \in Items, Remove(i) PROVE QuitInv'
  BY <1>1, <1>3, ClosedStaysClosed DEF QuitInv, Remove
<1>4. ASSUME Close PROVE QuitInv'
  <2>1. user' = user /\ \A w \in Workers : state'[w] = "quit" <=> state[w] = "quit"
    BY <1>1, <1>4 DEF Close, Broadcast
  <2>2. q'.closed /\ q'.items = q.items
    BY <1>1, <1>4 DEF Close, QClose, QueueType
  <2> QED BY <1>1, <2>1, <2>2 DEF QuitInv
<1>5. ASSUME NEW w \in user.workers, Wait(w) \/ GetItem(w) PROVE QuitInv'
  <2>1. /\ user' = user /\ state'[w] \in {"waiting", "busy"}
        /\ \A v \in Workers \ {w} : state'[v] = state[v]
    BY <1>1, <1>5 DEF Wait, GetItem
  <2>2. q'.closed = q.closed
    BY <1>1, <1>5 DEF Wait, GetItem, QGet, QueueType
  <2> QED BY <1>1, <1>5, <2>1, <2>2 DEF QuitInv
<1>6. ASSUME NEW w \in user.workers, GetNil(w) PROVE QuitInv'
  <2>1. /\ state'[w] = "quit" => q.closed
        /\ \A v \in Workers \ {w} : state'[v] = state[v]
    BY <1>1, <1>6 DEF GetNil
  <2>2. q'.closed = q.closed /\ q'.items = <<>>
    BY <1>1, <1>6 DEF GetNil, QGetNil, QueueType
  <2> QED BY <1>1, <1>6, <2>1, <2>2 DEF QuitInv
<1>7. ASSUME NEW w \in user.workers, Done(w) PROVE QuitInv'
  <2> DEFINE st == [state EXCEPT ![w] = "idle"]
  <2>1. /\ st \in [Workers -> WorkerState] /\ st[w] = "idle" /\ state' \in Settled(st)
        /\ \A v \in Workers \ {w} : st[v] = state[v]
    BY <1>1, <1>7 DEF Done, WorkerState
  <2> HIDE DEF st
  <2>2. state'[w] = "idle" /\ \A v \in Workers : state'[v] = "quit" => state[v] = "quit"
    BY <1>1, <1>7, <2>1, SettledKeepsBusy
  <2>3. q'.closed = q.closed /\ user' = user
    BY <1>1, <1>7, ClosedStaysClosed DEF Done, QInv, BusyHoldsItem
  <2> QED BY <1>1, <1>7, <2>2, <2>3 DEF QuitInv
<1>8. ASSUME NEW w \in Workers, Requeue(w) PROVE QuitInv'
  BY <1>2, <1>8 DEF Requeue, Add, QInv, BusyHoldsItem
<1>9. CASE UNCHANGED wqVars
  BY <1>9 DEF wqVars, QuitInv
<1> QED BY <1>2, <1>3, <1>4, <1>5, <1>6, <1>7, <1>8, <1>9 DEF Next, Work

(* When the last worker leaves, the queue is closed and nothing that Add   *)
(* accepted is left: Get serves what is queued before it says quit.        *)
THEOREM DrainedWhenAllQuit == Spec => []DrainedAtQuit
<1>1. Init => QuitInv
  BY UsersAssumption DEF Init, User, QuitInv
<1>2. QInv /\ OthersIdle /\ QuitInv => DrainedAtQuit
  <2> SUFFICES ASSUME QInv, OthersIdle, QuitInv, In("quit") = user.workers
               PROVE  q.closed /\ q.added = {} /\ q.processing = {}
    BY DEF DrainedAtQuit
  <2>1. user.workers \subseteq Workers /\ user.workers # {}
    BY UserStartsSomebody DEF QInv
  <2>2. \A w \in Workers : state[w] \in {"quit", "idle"}
    BY DEF In, OthersIdle
  <2>3. \A w \in user.workers : state[w] = "quit"
    BY DEF In
  <2>4. q.closed /\ q.items = <<>>
    BY <2>1, <2>3 DEF QuitInv
  <2>5. q.processing = {}
    BY <2>2 DEF QInv, ProcessingIsHeld
  <2>6. Queued(q) = {}
    BY <2>4 DEF Queued
  <2> QED BY <2>4, <2>5, <2>6 DEF QInv, AddedIsKept
<1> QED BY <1>1, <1>2, QInvIsInvariant, OthersIdleIsInvariant, StepsKeepQuitInv, PTL DEF Spec

(* One worker, and nobody calls Remove: who was woken finds an entry or    *)
(* a closed queue, since nobody else can have taken it.                    *)
WokenForWork ==
  \A w \in user.workers :
    state[w] # "nil" /\ (state[w] = "woken" => q.closed \/ q.items # <<>>)

\* What is in the slice is wanted, so Get of a queue with entries has work.
LEMMA EntriesAreWork ==
  ASSUME QInv, Exclusive, user.removes = {}, q.items # <<>>
  PROVE  HasWork(q)
<1>1. q.items \in Seq(Items)
  BY DEF QInv, TypeOK, QueueType
<1>2. 1 \in DOMAIN q.items /\ q.items[1] \in Items
  BY <1>1
<1>3. q.items[1] \in q.added
  BY <1>2 DEF Exclusive, Kept, Queued
<1> QED BY <1>2, <1>3 DEF HasWork, Wanted

\* Each step of a queue with one worker keeps WokenForWork.
LEMMA StepsKeepWokenForWork ==
  ASSUME QInv, Exclusive, WokenForWork, [Next]_wqVars,
         Alone
  PROVE  WokenForWork'
<1>1. /\ q \in QueueType(Items) /\ state \in [Workers -> WorkerState] /\ q.items \in Seq(Items)
      /\ user.workers \subseteq Workers
  BY UserStartsSomebody DEF QInv, TypeOK, QueueType
<1>2. ASSUME NEW i \in Items, Add(i) PROVE WokenForWork'
  <2>1. q' = QAdd(q, i) /\ state' \in Settled(state) /\ user' = user
    BY <1>2 DEF Add
  <2>2. q'.closed = q.closed /\ Len(q'.items) \in {Len(q.items), Len(q.items) + 1}
    BY <1>1, <2>1, ClosedStaysClosed, AppendsOne
  <2>3. q.items # <<>> => q'.items # <<>>
    BY <1>1, <2>2
  <2>4. CASE Len(q'.items) = Len(q.items)
    BY <1>1, <2>1, <2>2, <2>3, <2>4 DEF Settled, WokenForWork
  <2>5. CASE Len(q'.items) = Len(q.items) + 1
    <3>1. q'.items # <<>>
      BY <1>1, <2>5
    <3> QED BY <1>1, <2>1, <3>1, SettledKeepsBusy DEF WokenForWork
  <2> QED BY <2>2, <2>4, <2>5
<1>3. ASSUME NEW w \in Workers, Requeue(w) PROVE WokenForWork'
  BY <1>2, <1>3 DEF Requeue, Add, QInv, BusyHoldsItem
<1>4. ASSUME NEW w \in user.workers, Done(w) PROVE WokenForWork'
  <2> DEFINE st == [state EXCEPT ![w] = "idle"]
  <2>1. st \in [Workers -> WorkerState] /\ st[w] = "idle" /\ state' \in Settled(st)
    BY <1>1, <1>4 DEF Done, WorkerState
  <2> HIDE DEF st
  <2>2. state'[w] = "idle" /\ user' = user
    BY <1>1, <1>4, <2>1, SettledKeepsBusy DEF Done
  <2> QED BY <1>4, <2>2 DEF Alone, WokenForWork
<1>5. ASSUME NEW w \in user.workers, Wait(w) \/ GetItem(w) PROVE WokenForWork'
  BY <1>1, <1>5 DEF Wait, GetItem, Alone, WokenForWork
<1>6. ASSUME NEW w \in user.workers, GetNil(w) PROVE WokenForWork'
  <2>1. q.closed
    BY <1>6, EntriesAreWork DEF GetNil, Ready, Alone, WokenForWork
  <2> QED BY <1>1, <1>6, <2>1 DEF GetNil, Alone, WokenForWork
<1>7. CASE Close
  <2>1. q'.closed
    BY <1>1, <1>7 DEF Close, QClose, QueueType
  <2> QED BY <1>1, <1>7, <2>1 DEF Close, Broadcast, WokenForWork
<1>8. CASE UNCHANGED wqVars
  BY <1>8 DEF wqVars, WokenForWork
<1>9. ASSUME NEW i \in Items, Remove(i) PROVE WokenForWork'
  BY <1>9 DEF Remove, Alone
<1> QED BY <1>2, <1>3, <1>4, <1>5, <1>6, <1>7, <1>8, <1>9 DEF Next, Work

(* With one worker and no Remove, as every user in the repository has it,  *)
(* Get never returns (nil, false) to callers that assert the item's type.  *)
THEOREM OneWorkerNeverGetsNil == Spec => []NeverNil
<1>1. Init => (Alone => WokenForWork)
  BY UsersAssumption DEF Init, User, WokenForWork
<1>2. QInv /\ OthersIdle /\ (Alone => WokenForWork) => NeverNil
  BY UserStartsSomebody DEF QInv, OthersIdle, WokenForWork, NeverNil, In
<1>3. QInv /\ Exclusive /\ (Alone => WokenForWork) /\ [Next]_wqVars => (Alone => WokenForWork)'
  <2> SUFFICES ASSUME QInv, Exclusive, Alone => WokenForWork, [Next]_wqVars, Alone'
               PROVE  WokenForWork'
    OBVIOUS
  <2>1. user' = user
    BY DEF Next, Add, Remove, Close, Work, Wait, GetItem, GetNil, Done, Requeue, wqVars
  <2>2. Alone
    BY <2>1 DEF Alone
  <2> QED BY <2>2, StepsKeepWokenForWork
<1> QED BY <1>1, <1>2, <1>3, QInvIsInvariant, ExclusiveIsInvariant, OthersIdleIsInvariant, PTL
        DEF Spec

-----------------------------------------------------------------------------
(* The queue implements KeyedQueue.                                        *)

\* No user removes them, so this one does not.
LEMMA LastingAreKept == TypeOK => Lasting \subseteq Kept
BY DEF TypeOK, Lasting, Kept

\* The refinement mapping of held: who holds which lasting item.
Held == {<<w, item[w]>> : w \in {v \in In("busy") : item[v] \in Lasting}}

\* What is held changes only with who is busy.
LEMMA SameBusySameHeld ==
  ASSUME item' = item, \A w \in Workers : state'[w] = "busy" <=> state[w] = "busy"
  PROVE  Held' = Held
BY DEF Held, In

\* Add is Offer, or a stutter when the queue is closed.
LEMMA AddImplementsOffer ==
  ASSUME QInv, NEW i \in Items, Add(i)
  PROVE  (i \in Lasting /\ Promise!Offer(i)) \/ UNCHANGED Promise!kqVars
<1>1. Held' = Held
  BY AddEffect, SameBusySameHeld DEF QInv
<1>2. q'.added = q.added \/ q'.added = q.added \cup {i}
  BY AddEffect DEF QInv, Adds
<1> QED BY <1>1, <1>2 DEF Promise!Offer, Promise!kqVars, Held

\* Done is Finish.
LEMMA DoneImplementsFinish ==
  ASSUME QInv, Exclusive, NEW w \in Workers, Done(w), NEW i, i = item[w]
  PROVE  (i \in Lasting /\ Promise!Finish(w, i)) \/ UNCHANGED Promise!kqVars
<1> DEFINE st == [state EXCEPT ![w] = "idle"]
<1>1. /\ state[w] = "busy" /\ item[w] \in Items /\ q \in QueueType(Items)
      /\ state \in [Workers -> WorkerState] /\ item \in [Workers -> Items \cup {NoItem}]
  BY DEF Done, QInv, BusyHoldsItem, TypeOK
<1>2. /\ st \in [Workers -> WorkerState] /\ st[w] = "idle"
      /\ \A v \in Workers \ {w} : st[v] = state[v]
  BY <1>1 DEF WorkerState
<1>3. q' = QDone(q, item[w]) /\ state' \in Settled(st) /\ item' = [item EXCEPT ![w] = NoItem]
  BY DEF Done
<1> HIDE DEF st
<1>4. \A v \in Workers : state'[v] = "busy" <=> st[v] = "busy"
  BY <1>2, <1>3, SettledKeepsBusy
<1>5. \A v \in Workers : state'[v] = "busy" <=> v # w /\ state[v] = "busy"
  BY <1>2, <1>4
<1>6. \A v \in Workers \ {w} : item'[v] = item[v]
  BY <1>1, <1>3
<1>7. Held' = Held \ {<<w, item[w]>>}
  BY <1>1, <1>5, <1>6 DEF Held, In
<1>8. q'.added = q.added
  BY <1>1, <1>3, QDoneEffect DEF Finishes
<1>9. CASE i \in Lasting
  <2>1. <<w, item[w]>> \in Held
    BY <1>1, <1>9 DEF Held, In
  <2> QED BY <1>7, <1>8, <1>9, <2>1 DEF Promise!Finish, Held
<1>10. CASE i \notin Lasting
  <2>1. <<w, item[w]>> \notin Held
    BY <1>10 DEF Held
  <2>2. Held' = Held
    BY <1>7, <2>1
  <2> QED BY <1>8, <2>2 DEF Promise!kqVars, Held
<1> QED BY <1>9, <1>10

\* A Get that returns an item is Take.
LEMMA GetItemImplementsTake ==
  ASSUME QInv, Exclusive, NEW w \in Workers, GetItem(w), NEW n, n = NextItem(q)
  PROVE  (n \in Lasting /\ Promise!Take(w, n)) \/ UNCHANGED Promise!kqVars
<1>1. /\ q \in QueueType(Items) /\ HasWork(q) /\ q' = QGet(q) /\ state[w] # "busy"
      /\ state' = [state EXCEPT ![w] = "busy"] /\ item' = [item EXCEPT ![w] = n]
      /\ state \in [Workers -> WorkerState] /\ item \in [Workers -> Items \cup {NoItem}]
  BY DEF GetItem, Ready, QInv, TypeOK
<1>2. n \in q.added /\ n \in Items
  BY <1>1, FirstWantedIsFirst
<1>3. n \in Queued(q)
  BY <1>1, QGetDistinct DEF Exclusive
<1>4. q'.added = q.added \ {n}
  BY <1>1, QGetEffect
<1>5. /\ state'[w] = "busy" /\ item'[w] = n
      /\ \A v \in Workers \ {w} : state'[v] = state[v] /\ item'[v] = item[v]
  BY <1>1
<1>6. CASE n \in Lasting
  <2>1. \A v \in Workers : <<v, n>> \notin Held
    BY <1>3, <1>6, LastingAreKept DEF QInv, Exclusive, Held, In
  <2>2. \A j \in Lasting : <<w, j>> \notin Held
    BY <1>1 DEF Held, In
  <2>3. Held' = Held \cup {<<w, n>>}
    BY <1>1, <1>5, <1>6 DEF Held, In
  <2> QED BY <1>2, <1>4, <1>6, <2>1, <2>2, <2>3 DEF Promise!Take, Held
<1>7. CASE n \notin Lasting
  <2>1. Held' = Held
    BY <1>1, <1>5, <1>7 DEF Held, In
  <2> QED BY <1>4, <1>7, <2>1 DEF Promise!kqVars, Held
<1> QED BY <1>6, <1>7

(* What pkg/workqueue promises: with its slice, its maps and its condition *)
(* variable hidden, the items nobody calls Remove for are a set of pending *)
(* items, each handed to one worker at a time, and none is dropped.        *)
THEOREM ImplementsKeyedQueue == Spec => KeepsPromise
<1>1. Init => Promise!Init
  BY DEF Init, Promise!Init, EmptyQueue, In
<1>2. QInv /\ Exclusive /\ [Next]_wqVars => [Promise!Next]_(Promise!kqVars)
  <2> SUFFICES ASSUME QInv, Exclusive, [Next]_wqVars
               PROVE  Promise!Next \/ UNCHANGED Promise!kqVars
    OBVIOUS
  <2>1. ASSUME NEW i \in Items, Add(i)
        PROVE  Promise!Next \/ UNCHANGED Promise!kqVars
    BY <2>1, AddImplementsOffer DEF Promise!Next
  <2>2. ASSUME NEW w \in Workers, Requeue(w)
        PROVE  Promise!Next \/ UNCHANGED Promise!kqVars
    <3>1. item[w] \in Items /\ Add(item[w])
      BY <2>2 DEF Requeue, Add, QInv, BusyHoldsItem
    <3> QED BY <3>1, AddImplementsOffer DEF Promise!Next
  <2>3. ASSUME NEW w \in Workers, Done(w)
        PROVE  Promise!Next \/ UNCHANGED Promise!kqVars
    BY <2>3, DoneImplementsFinish DEF Promise!Next
  <2>4. ASSUME NEW w \in Workers, GetItem(w)
        PROVE  Promise!Next \/ UNCHANGED Promise!kqVars
    BY <2>4, GetItemImplementsTake DEF Promise!Next
  <2>5. ASSUME q'.added \cap Lasting = q.added \cap Lasting, item' = item,
               \A w \in Workers : state'[w] = "busy" <=> state[w] = "busy"
        PROVE  UNCHANGED Promise!kqVars
    BY <2>5, SameBusySameHeld DEF Promise!kqVars, Held
  <2>6. CASE Close
    BY <2>5, <2>6 DEF Close, QClose, Broadcast, QInv, TypeOK, QueueType
  <2>7. ASSUME NEW w \in Workers, Wait(w) \/ GetNil(w)
        PROVE  UNCHANGED Promise!kqVars
    BY <2>5, <2>7 DEF Wait, GetNil, Ready, QGetNil, QInv, TypeOK, QueueType
  <2>8. CASE UNCHANGED wqVars
    BY <2>5, <2>8 DEF wqVars
  <2>9. ASSUME NEW i \in Items, Remove(i) PROVE UNCHANGED Promise!kqVars
    <3>1. i \notin Lasting /\ q \in QueueType(Items)
      BY <2>9 DEF Remove, Lasting, QInv, TypeOK
    <3>2. q'.added = q.added \ {i}
      BY <2>9, <3>1 DEF Remove, QRemove, QueueType
    <3> QED BY <2>5, <2>9, <3>1, <3>2 DEF Remove
  <2> QED BY <2>1, <2>2, <2>3, <2>4, <2>6, <2>7, <2>8, <2>9 DEF Next, Work
<1> QED BY <1>1, <1>2, QInvIsInvariant, ExclusiveIsInvariant, PTL DEF Spec, KeepsPromise, Promise!Spec
=============================================================================
