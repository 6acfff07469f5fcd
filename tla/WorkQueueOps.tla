---------------------------- MODULE WorkQueueOps ----------------------------
(***************************************************************************)
(* The work queue of pkg/workqueue as a value.  Each operator is the       *)
(* critical section of one method of Queue, run under the queue's mutex,   *)
(* so it is a function from the queue before to the queue after.  The      *)
(* condition variable and the goroutines are in WorkQueue.                 *)
(***************************************************************************)
EXTENDS Naturals, Sequences

(* added: wanted and not handed out yet; processing: handed out, Done not  *)
(* called yet; items: the slice Get pops from.  After a Remove the slice   *)
(* keeps an entry that added no longer has.                                *)
EmptyQueue == [items |-> <<>>, added |-> {}, processing |-> {}, closed |-> FALSE]

QueueType(Item) ==
  [items : Seq(Item), added : SUBSET Item, processing : SUBSET Item, closed : BOOLEAN]

Queued(q) == {q.items[k] : k \in DOMAIN q.items}

\* A mutant: Add forgets to record the item in added.
QAdd_NotMarked(q, i) ==
  IF q.closed \/ i \in q.added THEN q ELSE [q EXCEPT !.items = Append(@, i)]
\* A mutant: Add queues an item that is being processed.
QAdd_AnyTime(q, i) ==
  IF q.closed \/ i \in q.added THEN q
  ELSE [q EXCEPT !.added = @ \cup {i}, !.items = Append(@, i)]

(* Add: nothing once closed or when the item is already wanted; an item    *)
(* being processed is only marked, Done will queue it.                     *)
QAdd(q, i) ==
  IF q.closed \/ i \in q.added THEN q
  ELSE [q EXCEPT !.added = @ \cup {i},
                 !.items = IF i \in q.processing THEN @ ELSE Append(@, i)]

(* Add called for each item of a list, in its order.                       *)
QAddAll(q, list) ==
  LET after[n \in 0..Len(list)] == IF n = 0 THEN q ELSE QAdd(after[n - 1], list[n])
  IN after[Len(list)]

\* A mutant: Done does not queue the item again.
QDone_Forgets(q, i) == [q EXCEPT !.processing = @ \ {i}]
\* A mutant: Done puts the item before those that wait.
QDone_AtFront(q, i) ==
  [q EXCEPT !.processing = @ \ {i},
            !.items = IF i \in q.added THEN <<i>> \o @ ELSE @]

(* Done: queues the item again if it was added while being processed.      *)
QDone(q, i) ==
  [q EXCEPT !.processing = @ \ {i},
            !.items = IF i \in q.added THEN Append(@, i) ELSE @]

QRemove(q, i) == [q EXCEPT !.added = @ \ {i}]

QClose(q) == [q EXCEPT !.closed = TRUE]

(* Get skips the entries that were removed: it hands out the first entry   *)
(* that is still wanted, if there is one.                                  *)
Wanted(q) == {k \in DOMAIN q.items : q.items[k] \in q.added}
\* A mutant: Get quits a closed queue at once.
HasWork_UntilClosed(q) == ~q.closed /\ Wanted(q) # {}
HasWork(q) == Wanted(q) # {}
FirstWanted(q) == CHOOSE k \in Wanted(q) : \A j \in Wanted(q) : k <= j
NextItem(q) == q.items[FirstWanted(q)]

QGet(q) ==
  [q EXCEPT !.items = SubSeq(@, FirstWanted(q) + 1, Len(@)),
            !.added = @ \ {NextItem(q)},
            !.processing = @ \cup {NextItem(q)}]

(* Get when no entry is wanted any more: the slice is emptied, nil is      *)
(* returned.                                                               *)
QGetNil(q) == [q EXCEPT !.items = <<>>]
=============================================================================
