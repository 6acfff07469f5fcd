-------------------------- MODULE WorkQueueOpsProofs --------------------------
(***************************************************************************)
(* What each method does to the value of a queue, whatever its items are.  *)
(* Operators that walk over a list are loops: what holds at the start of a *)
(* loop and is kept by every turn holds at its end.                        *)
(***************************************************************************)
EXTENDS WorkQueueOps, TLAPS, WellFoundedInduction

-----------------------------------------------------------------------------
(* Every nonempty set of naturals has a least element.                     *)
LEMMA LeastElement ==
  ASSUME NEW S, S \subseteq Nat, S # {}
  PROVE  \E k \in S : \A j \in S : k <= j
<1> DEFINE R == {ss \in Nat \X Nat : ss[1] < ss[2]}
<1>1. IsWellFoundedOn(R, Nat)
  BY NatLessThanWellFounded, Zenon DEF OpToRel
<1> HIDE DEF R
<1>2. PICK k \in S : \A y \in S : ~(<<y, k>> \in R)
  BY <1>1, WFMin, Zenon
<1>3. \A y \in S : ~(y < k)
  BY <1>2 DEF R
<1> QED BY <1>3

(* Induction up to N: what holds for 0 and goes from n - 1 to n.            *)
LEMMA UpTo ==
  ASSUME NEW N \in Nat, NEW G, 0 \in G, \A n \in 1..N : n - 1 \in G => n \in G
  PROVE  0..N \subseteq G
<1> DEFINE Bad == (0..N) \ G
<1>1. SUFFICES ASSUME Bad # {} PROVE FALSE
  OBVIOUS
<1>2. PICK k \in Bad : \A j \in Bad : k <= j
  <2>1. Bad \subseteq Nat
    OBVIOUS
  <2> HIDE DEF Bad
  <2> QED BY <1>1, <2>1, LeastElement
<1>3. k \in 1..N /\ k - 1 \in 0..N /\ ~(k <= k - 1)
  BY <1>2
<1>4. k - 1 \notin Bad
  BY <1>2, <1>3
<1> QED BY <1>2, <1>3, <1>4

(* A loop over 1..N whose body takes S to S: what f is after each turn.    *)
Turns(N, S, turn) == \A n \in 1..N, x \in S : turn[n][x] \in S
Runs(f, N, S, base, turn) ==
  /\ f[0] = base
  /\ \A n \in 1..N : f[n - 1] \in S => f[n] = turn[n][f[n - 1]]

(* It is never outside S.                                                  *)
LEMMA LoopStaysIn ==
  ASSUME NEW N \in Nat, NEW S, NEW base \in S, NEW turn, Turns(N, S, turn),
         NEW f, Runs(f, N, S, base, turn)
  PROVE  \A n \in 0..N : f[n] \in S
<1> DEFINE G == {n \in 0..N : f[n] \in S}
<1>1. 0 \in G /\ \A n \in 1..N : n - 1 \in G => n \in G
  BY DEF Turns, Runs
<1> HIDE DEF G
<1>2. 0..N \subseteq G
  BY <1>1, UpTo, Zenon
<1> QED BY <1>2 DEF G

(* It can be run.                                                          *)
LEMMA LoopRuns ==
  ASSUME NEW N \in Nat, NEW S, NEW base \in S, NEW turn, Turns(N, S, turn)
  PROVE  \E f : f = [n \in 0..N |-> f[n]] /\ Runs(f, N, S, base, turn)
<1> DEFINE Good(m, f) == f \in [0..m -> S] /\ Runs(f, m, S, base, turn)
           G == {m \in 0..N : \E f : Good(m, f)}
<1>1. 0 \in G
  <2>1. Good(0, [n \in 0..0 |-> base])
    BY DEF Runs
  <2> QED BY <2>1
<1>2. ASSUME NEW k \in 1..N, k - 1 \in G PROVE k \in G
  <2>1. PICK f : Good(k - 1, f)
    <3> HIDE DEF Good
    <3> QED BY <1>2
  <2> DEFINE g == [n \in 0..k |-> IF n = k THEN turn[k][f[k - 1]] ELSE f[n]]
  <2>2. f[k - 1] \in S /\ turn[k][f[k - 1]] \in S /\ g \in [0..k -> S] /\ g[0] = base
    BY <2>1 DEF Turns, Runs
  <2>3. ASSUME NEW n \in 1..k PROVE g[n] = turn[n][g[n - 1]]
    <3>1. /\ n - 1 \in 0..k /\ n - 1 # k /\ n - 1 \in 0..(k - 1)
          /\ g[n - 1] = f[n - 1] /\ f[n - 1] \in S
      BY <2>1
    <3>2. CASE n = k
      BY <3>1, <3>2
    <3>3. CASE n # k
      BY <3>1, <3>3, <2>1 DEF Runs
    <3> QED BY <3>2, <3>3
  <2>4. Good(k, g)
    BY <2>2, <2>3 DEF Runs
  <2> HIDE DEF g, Good
  <2> QED BY <2>4
<1>3. N \in G
  <2> HIDE DEF G
  <2>1. 0..N \subseteq G
    BY <1>1, <1>2, UpTo, Zenon
  <2> QED BY <2>1
<1>4. PICK f : Good(N, f)
  <2> HIDE DEF Good
  <2> QED BY <1>3
<1>5. f = [n \in 0..N |-> f[n]]
  BY <1>4
<1> QED BY <1>4, <1>5, Zenon

-----------------------------------------------------------------------------
(* What the methods of Queue do to a queue value.                          *)

(* Get hands out a wanted entry and skips only withdrawn ones.             *)
LEMMA FirstWantedIsFirst ==
  ASSUME NEW Item, NEW r \in QueueType(Item), HasWork(r)
  PROVE  /\ FirstWanted(r) \in 1..Len(r.items)
         /\ NextItem(r) \in r.added
         /\ NextItem(r) \in Item
         /\ \A k \in DOMAIN r.items : k < FirstWanted(r) => r.items[k] \notin r.added
<1>1. Wanted(r) \subseteq Nat /\ DOMAIN r.items = 1..Len(r.items)
  BY DEF Wanted, QueueType
<1>2. \E k \in Wanted(r) : \A j \in Wanted(r) : k <= j
  BY <1>1, LeastElement DEF HasWork
<1>3. /\ FirstWanted(r) \in Wanted(r)
      /\ \A j \in Wanted(r) : FirstWanted(r) <= j
  BY <1>2 DEF FirstWanted
<1>4. \A k \in DOMAIN r.items : k < FirstWanted(r) => r.items[k] \notin r.added
  BY <1>1, <1>3 DEF Wanted
<1> QED BY <1>1, <1>3, <1>4 DEF NextItem, Wanted, QueueType

\* Appending queues the item and nothing else.
LEMMA AppendQueues ==
  ASSUME NEW Item, NEW r \in QueueType(Item), NEW t \in QueueType(Item), NEW i \in Item,
         t.items = Append(r.items, i)
  PROVE  Queued(t) = Queued(r) \cup {i}
<1>1. /\ DOMAIN t.items = 1..(Len(r.items) + 1)
      /\ DOMAIN r.items = 1..Len(r.items) /\ Len(r.items) \in Nat
      /\ \A k \in 1..Len(r.items) : t.items[k] = r.items[k]
      /\ t.items[Len(r.items) + 1] = i
  <2>1. r.items \in Seq(Item)
    BY DEF QueueType
  <2> QED BY <2>1
<1>2. 1..(Len(r.items) + 1) = 1..Len(r.items) \cup {Len(r.items) + 1}
  BY <1>1
<1>3. \A x \in Queued(t) : x \in Queued(r) \/ x = i
  BY <1>1, <1>2 DEF Queued
<1>4. i \in Queued(t) /\ \A x \in Queued(r) : x \in Queued(t)
  BY <1>1, <1>2 DEF Queued
<1> QED BY <1>3, <1>4, Zenon

(* What Add and Done do to a queue r, seen from outside the slice.         *)
Adds(r, i, t) ==
  /\ t.closed = r.closed /\ t.processing = r.processing
  /\ t.added = IF r.closed THEN r.added ELSE r.added \cup {i}
  /\ Queued(t) = IF r.closed \/ i \in r.added \/ i \in r.processing
                   THEN Queued(r) ELSE Queued(r) \cup {i}
Finishes(r, i, t) ==
  /\ t.closed = r.closed /\ t.processing = r.processing \ {i} /\ t.added = r.added
  /\ Queued(t) = IF i \in r.added THEN Queued(r) \cup {i} ELSE Queued(r)

\* Add has the effect of Adds and nothing else.
LEMMA QAddEffect ==
  ASSUME NEW Item, NEW r \in QueueType(Item), NEW i \in Item
  PROVE  QAdd(r, i) \in QueueType(Item) /\ Adds(r, i, QAdd(r, i))
<1>1. CASE r.closed \/ i \in r.added
  BY <1>1 DEF QAdd, QueueType, Adds
<1>2. CASE ~r.closed /\ i \notin r.added /\ i \in r.processing
  BY <1>2 DEF QAdd, QueueType, Queued, Adds
<1>3. CASE ~r.closed /\ i \notin r.added /\ i \notin r.processing
  <2> DEFINE a == Append(r.items, i)
             b == r.added \cup {i}
  <2>1. r.items \in Seq(Item) /\ a \in Seq(Item) /\ b \in SUBSET Item
    BY DEF QueueType
  <2>2. QAdd(r, i) = [r EXCEPT !.added = b, !.items = a]
    BY <1>3 DEF QAdd
  <2>3. /\ QAdd(r, i) \in QueueType(Item) /\ QAdd(r, i).items = a
        /\ QAdd(r, i).closed = r.closed
        /\ QAdd(r, i).added = b /\ QAdd(r, i).processing = r.processing
    <3> HIDE DEF a, b
    <3> QED BY <2>1, <2>2 DEF QueueType
  <2>4. Queued(QAdd(r, i)) = Queued(r) \cup {i}
    BY <2>3, AppendQueues
  <2> QED BY <1>3, <2>3, <2>4 DEF Adds
<1> QED BY <1>1, <1>2, <1>3

\* Done has the effect of Finishes and nothing else.
LEMMA QDoneEffect ==
  ASSUME NEW Item, NEW r \in QueueType(Item), NEW i \in Item
  PROVE  QDone(r, i) \in QueueType(Item) /\ Finishes(r, i, QDone(r, i))
<1>1. CASE i \notin r.added
  BY <1>1 DEF QDone, QueueType, Queued, Finishes
<1>2. CASE i \in r.added
  <2> DEFINE a == Append(r.items, i)
             b == r.processing \ {i}
  <2>1. r.items \in Seq(Item) /\ a \in Seq(Item) /\ b \in SUBSET Item
    BY DEF QueueType
  <2>2. QDone(r, i) = [r EXCEPT !.processing = b, !.items = a]
    BY <1>2 DEF QDone
  <2>3. /\ QDone(r, i) \in QueueType(Item) /\ QDone(r, i).items = a
        /\ QDone(r, i).closed = r.closed
        /\ QDone(r, i).added = r.added /\ QDone(r, i).processing = b
    <3> HIDE DEF a, b
    <3> QED BY <2>1, <2>2 DEF QueueType
  <2>4. Queued(QDone(r, i)) = Queued(r) \cup {i}
    BY <2>3, AppendQueues
  <2> QED BY <1>2, <2>3, <2>4 DEF Finishes
<1> QED BY <1>1, <1>2

\* What Get does to the queue: what it skips was withdrawn.
LEMMA QGetEffect ==
  ASSUME NEW Item, NEW r \in QueueType(Item), HasWork(r)
  PROVE  /\ QGet(r) \in QueueType(Item)
         /\ QGet(r).processing = r.processing \cup {NextItem(r)}
         /\ QGet(r).added = r.added \ {NextItem(r)}
         /\ Queued(QGet(r)) \subseteq Queued(r)
         /\ \A j \in r.added : j \in Queued(r) /\ j # NextItem(r) => j \in Queued(QGet(r))
<1> DEFINE f == FirstWanted(r)
<1>1. f \in 1..Len(r.items) /\ NextItem(r) \in Item
  BY FirstWantedIsFirst
<1>2. \A k \in DOMAIN r.items : k < f => r.items[k] \notin r.added
  BY FirstWantedIsFirst
<1>3. NextItem(r) = r.items[f]
  BY DEF NextItem
<1> HIDE DEF f
<1> DEFINE a == SubSeq(r.items, f + 1, Len(r.items))
           b == r.added \ {NextItem(r)}
           c == r.processing \cup {NextItem(r)}
<1>4. QGet(r) = [r EXCEPT !.items = a, !.added = b, !.processing = c]
  BY DEF QGet, f
<1>5. r.items \in Seq(Item) /\ a \in Seq(Item) /\ b \in SUBSET Item /\ c \in SUBSET Item
  BY <1>1 DEF QueueType
<1>6. /\ QGet(r) \in QueueType(Item) /\ QGet(r).items = a
      /\ QGet(r).added = b /\ QGet(r).processing = c
  <2> HIDE DEF a, b, c
  <2> QED BY <1>4, <1>5 DEF QueueType
<1>7. /\ DOMAIN QGet(r).items = 1..(Len(r.items) - f)
      /\ \A k \in 1..(Len(r.items) - f) : QGet(r).items[k] = r.items[k + f]
  BY <1>1, <1>5, <1>6
<1>8. Queued(QGet(r)) \subseteq Queued(r)
  BY <1>1, <1>5, <1>7 DEF Queued
<1>9. ASSUME NEW j \in r.added, j \in Queued(r), j # NextItem(r)
      PROVE  j \in Queued(QGet(r))
  <2>1. PICK k \in 1..Len(r.items) : r.items[k] = j
    BY <1>5, <1>9 DEF Queued
  <2>2. k > f
    BY <1>1, <1>2, <1>3, <1>5, <1>9, <2>1
  <2>3. k - f \in 1..(Len(r.items) - f) /\ QGet(r).items[k - f] = j
    BY <1>1, <1>5, <1>7, <2>1, <2>2
  <2> QED BY <1>7, <2>3 DEF Queued
<1> QED BY <1>6, <1>8, <1>9

(* A list is added: the loop keeps a queue a queue.                        *)
LEMMA QAddAllType ==
  ASSUME NEW Item, NEW q \in QueueType(Item), NEW list \in Seq(Item)
  PROVE  QAddAll(q, list) \in QueueType(Item)
<1> DEFINE N == Len(list)
           Q == QueueType(Item)
           Body(n, r) == QAdd(r, list[n])
           turn == [n \in 1..N |-> [r \in Q |-> Body(n, r)]]
           after == CHOOSE f : f = [n \in 0..N |-> IF n = 0 THEN q ELSE Body(n, f[n - 1])]
<1>1. N \in Nat /\ q \in Q
  OBVIOUS
<1>2. ASSUME NEW n \in 1..N, NEW r \in Q PROVE Body(n, r) \in Q
  <2>1. list[n] \in Item
    OBVIOUS
  <2> QED BY <2>1, QAddEffect, Zenon
<1>3. QAddAll(q, list) = after[N]
  BY DEF QAddAll
<1> HIDE DEF N, Q, Body
<1>4. Turns(N, Q, turn) /\ \A n \in 1..N, r \in Q : turn[n][r] = Body(n, r)
  BY <1>2 DEF Turns
<1> HIDE DEF turn
<1>5. after = [n \in 0..N |-> IF n = 0 THEN q ELSE Body(n, after[n - 1])]
  <2>1. PICK f : f = [n \in 0..N |-> f[n]] /\ Runs(f, N, Q, q, turn)
    BY <1>1, <1>4, LoopRuns, Zenon
  <2>2. \A n \in 0..N : f[n] \in Q
    BY <1>1, <1>4, <2>1, LoopStaysIn, Zenon
  <2>3. ASSUME NEW n \in 0..N
        PROVE  f[n] = IF n = 0 THEN q ELSE Body(n, f[n - 1])
    <3>1. CASE n = 0
      BY <2>1, <3>1 DEF Runs
    <3>2. CASE n # 0
      <4>1. n \in 1..N /\ n - 1 \in 0..N
        BY <1>1, <3>2
      <4> QED BY <1>4, <2>1, <2>2, <3>2, <4>1 DEF Runs
    <3> QED BY <3>1, <3>2
  <2>4. f = [n \in 0..N |-> IF n = 0 THEN q ELSE Body(n, f[n - 1])]
    BY <2>1, <2>3
  <2> QED BY <2>4
<1> HIDE DEF after
<1>6. Runs(after, N, Q, q, turn)
  BY <1>1, <1>4, <1>5 DEF Runs
<1>7. after[N] \in Q
  <2>1. \A n \in 0..N : after[n] \in Q
    BY <1>1, <1>4, <1>6, LoopStaysIn, Zenon
  <2> QED BY <2>1, <1>1
<1> QED BY <1>3, <1>7 DEF Q
=============================================================================
