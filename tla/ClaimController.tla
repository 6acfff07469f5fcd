--------------------------- MODULE ClaimController ---------------------------
(***************************************************************************)
(* The claim controller of one node: an informer of the claims, a work     *)
(* queue and one worker that puts the addresses of the claims of its node  *)
(* on the interface and takes the others off.  The scheduler, seen through *)
(* ClaimLedger, changes the claims; the process and its node may die, the  *)
(* watch may break, calls to the kernel may fail, and somebody may take an *)
(* address off the interface by hand.                                      *)
(*                                                                         *)
(* The queue holds pointers to objects, so two versions of a claim are two *)
(* items: <<c, v>> is the object the v-th event of claim c delivered.  The *)
(* address of a claim is not told apart from the claim.  The controller    *)
(* runs until it is killed: nothing closes its stop channel.               *)
(***************************************************************************)
EXTENDS WorkQueueOps, NetUtils

CONSTANTS
  Claim,
  Nodes,
  Uid,         \* the node of this controller
  None,
  MaxChanges,  \* bound: the changes of claims
  Failures     \* bounds: each says how often every Kind fails at most

Kind == {"netlink", "hand", "watch", "process"}

ASSUME ControllerAssumption ==
  Uid \in Nodes /\ MaxChanges \in Nat /\ Failures \subseteq [Kind -> Nat]

VARIABLES
  history,  \* API: claim -> its versions, None where it does not exist; the first is None
  changes,  \* how many changes of claims there have been, which bounds them
  seen,     \* claim -> the version the informer handled last
  cached,   \* claimStore: claim -> the version it holds, 0 for none
  queue,    \* queue
  worker,   \* what worker is doing: "idle", "check", "add", "del"
  addrs,    \* the addresses on the interface
  failures  \* kind of failure -> how many have been

vars == <<history, changes, seen, cached, queue, worker, addrs, failures>>

Now(c) == history[c][Len(history[c])]
Cached == {c \in Claim : cached[c] # 0}

Ledger == INSTANCE ClaimLedger WITH placed <- [c \in Claim |-> Now(c)]

Idle == [pc |-> "idle", item |-> None]

Init ==
  /\ history = [c \in Claim |-> <<None>>] /\ changes = 0
  /\ seen = [c \in Claim |-> 1] /\ cached = [c \in Claim |-> 0]
  /\ queue = EmptyQueue /\ worker = Idle /\ addrs = {}
  /\ failures = [k \in Kind |-> 0]

-----------------------------------------------------------------------------
(* The scheduler: a step of the ledger, or a version that changes nothing  *)
(* but the owners.                                                         *)
ClaimChanges(c) ==
  /\ changes < MaxChanges /\ changes' = changes + 1
  /\ \/ \E p \in Ledger!Placement \cup {None} :
          history' = [history EXCEPT ![c] = Append(@, p)] /\ Ledger!Change(c)
     \/ Now(c) # None /\ history' = [history EXCEPT ![c] = Append(@, Now(c))]
  /\ UNCHANGED <<seen, cached, queue, worker, addrs, failures>>

(* claimWatcher: the store is brought up to the event, then the handler    *)
(* queues the object; a deleted claim's last object is queued too.         *)
StoreAfter_Keeps(c, v) == v  \* a mutant: a deleted claim stays in the store
StoreAfter(c, v) == IF history[c][v] = None THEN 0 ELSE v

Deliver(c) ==
  LET v == seen[c] + 1 IN
  /\ v <= Len(history[c])
  /\ seen' = [seen EXCEPT ![c] = v]
  /\ cached' = [cached EXCEPT ![c] = StoreAfter(c, v)]
  /\ queue' = QAdd(queue, <<c, v>>)
  /\ UNCHANGED <<history, changes, worker, addrs, failures>>

AddAgain_Not(q, item) == q  \* a mutant: UpdateFunc ignores an object it knows
AddAgain(q, item) == QAdd(q, item)

(* Every resync interval UpdateFunc is called for each claim in the store. *)
Resync(c) ==
  /\ c \in Cached /\ queue' = AddAgain(queue, <<c, cached[c]>>)
  /\ UNCHANGED <<history, changes, seen, cached, worker, addrs, failures>>

-----------------------------------------------------------------------------
(* The node an object names; that of a deleted claim is its last one.      *)
NodeOf(c, v) == IF history[c][v] = None THEN history[c][v - 1].node ELSE history[c][v].node

(* processClaim: whether the claim exists is asked of the store, whose it  *)
(* is of the object that was queued.                                       *)
Wants(c, v) == c \in Cached /\ NodeOf(c, v) = Uid

Take ==
  /\ worker.pc = "idle" /\ HasWork(queue)
  /\ queue' = QGet(queue)
  /\ worker' = [pc |-> "check", item |-> NextItem(queue)]
  /\ UNCHANGED <<history, changes, seen, cached, addrs, failures>>

Check ==
  LET c == worker.item[1]
      v == worker.item[2] IN
  /\ worker.pc = "check"
  /\ worker' = [worker EXCEPT !.pc = IF Wants(c, v) THEN "add" ELSE "del"]
  /\ UNCHANGED <<history, changes, seen, cached, queue, addrs, failures>>

Ensure(failing) ==
  IF worker.pc = "add" THEN EnsureIPAssigned(addrs, worker.item[1], failing)
  ELSE EnsureIPUnassigned(addrs, worker.item[1], failing)

(* An item that failed is queued again before it is done.                  *)
Retried_Not(q, item) == q  \* a mutant: the error is only logged
Retried(q, item) == QAdd(q, item)

(* The call to the kernel, and what worker does with its result.           *)
Apply(failing) ==
  /\ worker.pc \in {"add", "del"}
  /\ \E r \in Ensure(failing) :
       /\ addrs' = r.addrs
       /\ queue' = QDone(IF r.ok THEN queue ELSE Retried(queue, worker.item), worker.item)
  /\ worker' = Idle
  /\ UNCHANGED <<history, changes, seen, cached>>

Process == Take \/ Check \/ (Apply(FALSE) /\ UNCHANGED failures)

-----------------------------------------------------------------------------
Fails(kind) ==
  /\ failures' = [failures EXCEPT ![kind] = @ + 1]
  /\ \E bound \in Failures : \A k \in Kind : failures'[k] <= bound[k]

NetlinkFails == Fails("netlink") /\ Apply(TRUE)

RemovedByHand(c) ==
  /\ Fails("hand") /\ c \in addrs
  /\ addrs' = addrs \ {c}
  /\ UNCHANGED <<history, changes, seen, cached, queue, worker>>

(* List returns the claims as they are: the next event is that of the      *)
(* current version, or of a later one if there is none now.                *)
Listed(c) == IF Now(c) = None THEN Len(history[c]) ELSE Len(history[c]) - 1

(* The process starts again and lists the claims.  The addresses stay on   *)
(* the interface of the host unless the node itself died.                  *)
Restarted ==
  /\ seen' = [c \in Claim |-> Listed(c)]
  /\ cached' = [c \in Claim |-> 0]
  /\ queue' = EmptyQueue /\ worker' = Idle
  /\ UNCHANGED <<history, changes>>

ProcessDies == Fails("process") /\ Restarted /\ addrs' \in {addrs, {}}

(* The watch breaks and the claims are listed again: versions not seen are *)
(* skipped.  A claim in the store that is gone reaches DeleteFunc as a     *)
(* DeletedFinalStateUnknown, whose type assertion ends the process.        *)
WatchBreaks ==
  /\ IF \E c \in Cached : Now(c) = None THEN Fails("process") /\ Restarted
     ELSE /\ Fails("watch")
          /\ seen' = [c \in Claim |-> IF seen[c] < Listed(c) THEN Listed(c) ELSE seen[c]]
          /\ UNCHANGED <<history, changes, cached, queue, worker>>
  /\ UNCHANGED addrs

Next ==
  \/ \E c \in Claim : ClaimChanges(c) \/ Deliver(c) \/ Resync(c) \/ RemovedByHand(c)
  \/ Process
  \/ NetlinkFails \/ ProcessDies \/ WatchBreaks

(* The watch delivers, the resync timer fires and the worker works; the    *)
(* scheduler and the failures owe nothing.                                 *)
Fairness ==
  /\ \A c \in Claim : WF_vars(Deliver(c)) /\ WF_vars(Resync(c))
  /\ WF_vars(Process)

Spec == Init /\ [][Next]_vars /\ Fairness

-----------------------------------------------------------------------------
Item == Claim \X (1..MaxChanges + 1)

TypeOK ==
  /\ history \in [Claim -> Seq(Ledger!Placement \cup {None})] /\ changes \in 0..MaxChanges
  /\ seen \in [Claim -> Nat] /\ cached \in [Claim -> Nat]
  /\ \A c \in Claim :
       /\ Len(history[c]) \in 1..changes + 1 /\ history[c][1] = None
       /\ seen[c] \in 1..Len(history[c])
       /\ cached[c] # 0 => cached[c] <= seen[c] /\ history[c][cached[c]] # None
  /\ queue \in QueueType(Item)
  /\ worker = Idle \/ worker \in [pc : {"check", "add", "del"}, item : Item]
  /\ addrs \subseteq Claim /\ failures \in [Kind -> Nat]

(* What the process knows of a claim that is not carried out yet.          *)
Pending(c) == \E i \in queue.added \cup queue.processing : i[1] = c

Died == failures["process"] > 0

(* While the process lives, a deleted claim's address is on the interface  *)
(* only as long as an object of the claim waits in the queue or is being   *)
(* processed: whichever of its versions comes last takes it off, however   *)
(* often the kernel refused before.                                        *)
DeletedIsNotForgotten == ~Died => \A c \in addrs : c \in Cached \/ Pending(c)

(* The addresses of the claims of this node come up and stay up, those of  *)
(* the other nodes' claims go, whatever failed, died, was delivered late   *)
(* or was removed by hand.  The address of a claim that was deleted goes   *)
(* if the process did not die meanwhile: the next one never hears of it.   *)
AddressesFollowClaims ==
  <>[](\A c \in Claim :
         Now(c) # None \/ ~Died => (c \in addrs <=> Now(c) # None /\ Now(c).node = Uid))
=============================================================================
