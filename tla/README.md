# A formal model of the external IP controller

TLA+ modules, TLC configurations and TLAPS proofs about
`Mirantis/k8s-externalipcontroller`, kept beside the code in `src/`.
Below, `S:n` is line n of `src/pkg/scheduler/scheduler.go`, `C:n` of
`src/pkg/claimcontroller/controller.go`, `N:n` of `src/pkg/controller.go`, `T:n` of
`src/pkg/extensions/types.go` and `NU:n` of `src/pkg/netutils/netutils.go`.

The program puts the external addresses of Kubernetes services on the network
interfaces of nodes. In *claims mode* a scheduler turns every address of a
service into an `IpClaim` object and gives the claim to one node; a claim
controller on each node puts the addresses of its claims on the interface. In
*simple mode* one naive controller does it all.

## 1. Inventory

### Work queue (`pkg/workqueue`)

- State: `queue` (a slice), `added`, `processing`, `closed`, a mutex and a
  condition variable.
- Operations: `Add`, `Get`, `Done`, `Remove`, `Len`, `Close`.
- Used by every other component; several informer goroutines and one worker
  goroutine share each queue.
- Hard: `Get` waits once and does not test again after it was woken; an item
  added while it is processed must be handed out again, after `Done`; `Close`
  while workers sleep; `Remove` leaves its entry in the slice.
- Correct when: nothing accepted is lost, no item is in two hands, no wakeup is
  lost, `Get` never returns `(nil, false)`, every item is served, and a closed
  queue is drained.

### Claim scheduler (`pkg/scheduler`)

Five goroutines in one process share two queues, the informers' caches and the
set of live nodes, and talk to each other and to everybody else through objects
in the API server.

| goroutine | reads | writes |
|---|---|---|
| `serviceWatcher` | service watch, pools | pools, services, `changeQueue` |
| `claimWatcher` | claim watch, 10 s resync | `claimStore`, `queue` |
| `worker` | `queue`, owners, live nodes | cached claims in place, pools, `changeQueue` |
| `claimChangeWorker` | `changeQueue` | claims (the only writer) |
| `monitorIPNodes` | IpNodes, claims | `observedGeneration`, `liveIpNodes`, `queue` |

- Hard: objects of the cache are changed before the server has accepted the
  change; requests wait in `changeQueue` while what they were computed from
  changes; two goroutines read, change and write back the pools; refused and
  failed calls are logged and dropped; services are never resynced; heartbeats
  arrive late; the process dies and another replica starts with empty caches.
- Correct when: every address of a service ends with a claim that the service
  owns and that a running controller serves; claims and allocations that nothing
  needs go away; no claim in use is deleted, no claim moves for nothing, claims
  are spread evenly, no address is given to two services.

### Claim controller (`pkg/claimcontroller`), one per node

- State: the claim cache, a queue of claim *objects* (not keys), the interface,
  its IpNode's `Revision`.
- Operations: the informer's handlers, `worker`/`processClaim` (Add or Del of a
  CIDR), `heartbeatIpNode`.
- Hard: versions of one claim are different items of the queue, so an old
  version that failed is tried after a newer one (C:136), and a resync may queue
  an old version behind a newer one (C:113); whether the claim exists is asked of
  the cache, its node is read from the queued version (C:145); the process dies,
  the addresses stay on the interface; somebody removes one by hand.
- Correct when: in the end an address is on the interface of its claim's node
  and on no other, and no deleted claim is forgotten while the process lives.

### Naive controller (`pkg/controller.go`), simple mode

- State: the service cache, a queue of `AddCIDR`/`DelCIDR` pointers, the
  interface. Operations: `processServiceExternalIPs`, `processItem`.
- Hard: every event makes new queue items and a failed one is put behind later
  ones (N:139); an address shared by two services must stay when one of them drops
  it and go with the last (N:157). The resync calls `UpdateFunc` with the same
  object twice, which returns at N:188: it does nothing.
- Correct when: in the end the interface has exactly the addresses in use.

### Address pools (`pkg/extensions/types.go`, `pkg/netutils`)

`AvailableIP` walks the ranges of a pool (or its network) with `IPIncrement` and
returns the first address that is not in `Allocated`; it stops when this address
or the next one is outside the network, or behind the end of the range. Correct
when it returns the first free address of what the pool offers, and fails only
when there is none.

### Command line, leader election, clients, netlink

`cmd/app` parses flags and starts a component; the scheduler takes part in a
leader election of a library and exits when it loses the lease.
`pkg/extensions/client.go` does REST calls, `pkg/netutils` netlink calls.

## 2. Modules

```
WorkQueueOps        the methods of Queue as functions of the queue's value
  WorkQueue         the goroutines that call them; refines KeyedQueue
    MCWorkQueue     instances for TLC
  SchedulerState    what the scheduler's goroutines share, requests, pools
    ServiceWatcher  ClaimWorker  ClaimChangeWorker  NodeMonitor
      Scheduler     all goroutines, users, controllers, failures; properties
        MCScheduler instances for TLC, and what a pool should offer
  ClaimController   one claim controller, the claims as ClaimLedger lets them change
    MCClaimController
PoolAddresses       AvailableIP on addresses as numbers; used by SchedulerState
NetUtils            what a call does to the interface; used by both controllers
  NaiveController   the controller of the simple mode, with users and failures
    MCNaiveController
KeyedQueue          what the queue promises, whatever it keeps inside
ClaimLedger         what the scheduler promises the controllers about claims
```

Theorems are in modules beside the ones they are about:

```
WorkQueueOpsProofs       loops, and what Add, Get and Done do to a queue
  WorkQueueProofs
  ClaimControllerProofs
PoolAddressesProofs      what AvailableIP returns, and the walk over a pool
  SchedulerStateProofs   the types of what every action of Scheduler writes
    SchedulerProofs      nodes, ledger, pools (both use WorkQueueOpsProofs too)
      AddressProofs      who has an address, and what becomes of its claim
NaiveControllerProofs
```

**Composition of the claims mode.** Scheduler and controllers meet only in the
claims of the API server. `ClaimLedger` is the contract: a claim is made without
a node, is given one node after another, never loses it again, and goes.
`Scheduler` is shown to implement it (`KeepsLedger`), `ClaimController` takes it
as its environment (`ClaimChanges` is a step of the ledger, or a version that
only changes owners). Controllers do not talk to each other and each has an
interface of its own, so one controller, for any behaviour of the ledger, speaks
for all of them: with every controller's `AddressesFollowClaims`, an address ends
on the node of its claim and nowhere else. What the pair loses against one big
model is the timing of claims against heartbeats, which no property of a
controller depends on.

`claimQueue` of the scheduler is a value of `WorkQueueOps`, so what
`WorkQueue` shows of the queue with goroutines and what `Scheduler` uses of it
is one definition. Each goroutine's module says in `UNCHANGED` what it leaves
alone; a step ends with a call to the API server, because that is where other
goroutines are seen and see the result.

### The work queue

A method body is one step, since it runs under the mutex. `Get` is `Wait`
(`cond.Wait` releases the mutex) and, when the goroutine has the mutex again,
`GetItem` or `GetNil`; a woken goroutine (`state[w] = "woken"`) does not test
the condition again, as in the code. `Settled` says that `Add` and `Done`
signal exactly when they append. `user`, chosen in `Init` among the constant
`Users`, says which goroutines call `Get` and which items somebody calls `Remove`
for. The constant `MaxLen` bounds the slice only where it could grow
without end: `Remove` and `Add` in turn append an entry each time.

### The scheduler

| model | code |
|---|---|
| `services`, `pools`, `claims`, `ipnode` | objects in the API server |
| `svcFeed` | events of each service its watch has not delivered |
| `svcCache`, `claimCache` | `serviceStore`, `claimStore` |
| `claimQueue`, `changeQueue` | `queue`, `changeQueue` |
| `svc`, `wk`, `cw`, `mon` | where each goroutine is, and its local variables |
| `live`, `beaten` | `liveIpNodes`; nodes with `observedGeneration < Revision` |
| `plan`, `ctl`, `phase`, `failures` | users, controllers, before/after the sleep in `Run`, failures so far |

- **Copies instead of resource versions.** The server refuses an `Update` of an
  object that was read before the current version. A counter would make the
  state space infinite; what matters is whether a copy is current. Pools a
  goroutine has listed carry the set `stale`; a cached claim carries `fresh`; an
  object in a request is itself, `Outdated`, or `TheCached` - the object of the
  cache, sent as it is when the request is carried out.
- **Objects of the cache are changed in place**, as in `processIpClaim`
  (S:508, S:529) and `autoAllocateExternalIP` (S:254), and stay changed when the
  call fails. When the watch replaces the object while the worker still holds
  it (`wk.apart`), the worker changes an object nobody sees.
- **Watches.** Services: every event is delivered, in order per service, in any
  order between services. Claims: `DeliverClaim` brings the cache to the current
  version; versions in between are skipped, which only removes repetitions of
  `queue.Add` of one key. The 10 s resync is an action; services have no resync
  (S:143).
- **`changeQueue` is a sequence**: requests are new pointers, so the queue's
  collapsing never applies, and its one worker makes `Get`..`Done` exclusive.
- **Failures.** `ServiceFault`, `ClaimFault`, `ChangeFault` and
  `ClaimsUnlisted` are the error branch of each call, `UpdateStatus` included. A call
  that did not reach the server leaves the goroutine's copy of a pool current, one
  that was carried out or refused does not. `SchedulerFails` empties
  all that is in memory. `NodeFails`/`NodeStarts` are a controller's death and
  return; after its return it is `"starting"` until its `Revision` grows.
- **Labels** (`ipnode`, `ip-pool-name`) change together with the fields they
  repeat and are not variables of their own: the monitor's list by label is the
  list by node.
- **Masks.** The name of a claim is address and mask, so a claim of a pool
  address and one made from the default mask are different (`ClaimOf`).

- **Loops over a list** that keep or queue one thing per turn are recursive functions
  (`Among`, `QAddAll`). `AddKeys` queues the claims of a dead node (S:574) and those of a
  resync in any order (a resync goes through a Go map).
- **Addresses are numbers**, and `PoolOffer` is what `AvailableIP` walks over in each
  pool. Names of other resources are model values; logging is left out.
- **A broken watch.** `WatchBreaks` lists the services again, between two
  handlers. A service that is in the store and no more in the server reaches
  `DeleteFunc` as a `DeletedFinalStateUnknown`; S:157 asserts another type, the
  informer reports the panic and raises it again, and the process ends: `Restarted`.

### Pools

`Walks` are the starts and ends of T:165-181, `Visited` the addresses the loop of
T:191 comes to, `FreeOn` those of them that T:192 returns. Some of what the code
does is worth knowing, and none of it is repaired in the model: without ranges
the walk starts behind the address the CIDR is *written* with, so
`10.0.0.8/24` does not offer what is before .9; the last address of
the network is never offered, not even by a range that ends there; a range that
starts outside the network offers nothing. `PoolsOfferTheirRange` compares it with
`Offer`, the list the documentation gives: the addresses of the ranges, without ranges
those of the whole network (doc/auto-allocation.md:27, T:167). It does so for CIDRs
written with the address of their network; for the others `Offer` and the code differ,
which `sched_network` shows.

### The claim controller

| model | code |
|---|---|
| `history[c]` | the versions of claim `c` the API server had, `None` where it does not exist |
| `changes` | how many versions there were, which `MaxChanges` bounds |
| `seen`, `cached` | the last version whose event was handled; the version in `claimStore` |
| `queue` | `queue`: `<<c, v>>` is the pointer to the object of the v-th event |
| `worker` | `worker`: the item and whether it is to be looked up, added or taken off |
| `addrs` | the addresses on the interface; a claim stands for its address |

`Take`, `Check` and `Apply` are `Get`, the lookup in the store and the kernel call
with what follows. Between them events are delivered. A failing call may have
added the address (NU:91, NU:96). `WatchBreaks` skips versions, or ends the process
at C:116 as in the scheduler. `ProcessDies` keeps the addresses or, if the node
died, loses them.

### The naive controller

`feed` are the events of each service that are not delivered, `store` is the
informer's store, `queue` a sequence since every request is a new pointer. The
order of a Go map's elements is any order (`SetToSeqs`). `removed` is a history
variable for `InterfaceFollowsServices`. `ProcessDies` may put the controller on
another node, where no address is up yet.


## 3. Runs

Bounds of the scheduler's runs: **`Scenarios`** - per run a set of pairs: a plan, which
says what users do with each service, in order, and `bounds`, how often each kind
of failure may happen; the interleaving with everything else is free. **`Backlog`** - the monitor's tick
and the resync wait while more than so many requests are in `changeQueue` (without a
bound, a worker that cannot place a claim appends forever). **`Timely`** - a tick
finds every running node beaten: `heartbeatPeriod` "should be < monitorPeriod"
(`claimcontroller/controller.go:81`). **`SettledStart`** - the first tick is
over before the workers start; it is dropped in `sched_start_race`, which shows
what happens without it.

| run | instance | checks |
|---|---|---|
| `workqueue` | 3 items; 1 worker, or 3 workers and one item that is removed | `TypeOK NeverNil DrainedAtQuit NeverLost OneAtATime Collapsed NoLostWakeup Served KeepsPromise` |
| `sched_addresses` | 2 services, pool of 2, 1 node; one restart or broken watch for a service with a given address | `NoSharedAddress PoolsOfferTheirRange AddressesAreClaimed ClaimsAreReleased ExactlyOneAddress AllocationsAreFreed` |
| `sched_nodes` | 2 services with two addresses or one between them, 2 nodes, one dies and may return | `FairSpread NoNeedlessMove ClaimsAreServed KeepsLedger` |
| `sched_faults` | 1 service, pool of 2, 1 node that starts late, one failed call, restart or broken watch, first-alive filter | `TypeOK Covered NeverRevoked` |
| `claims_mode` | 2 claims, 2 nodes, 4 changes, any 2 failures | `TypeOK DeletedIsNotForgotten AddressesFollowClaims` |
| `naive` | 2 services, 2 addresses, 4 changes, a failed call and a death, or a broken watch | `TypeOK RequestsAgreeWithStore InterfaceFollowsServices` |

Bounds of the controllers' runs: **`MaxChanges`** - changes of claims or services,
of any kind, at any moment; **`Failures`** - as above. Four changes are enough to make,
move, delete and make again one claim, or to give an address to two services
and take it from both.

What they show:

- `workqueue`: all users of the package have one worker per queue. Then `Get`
  never returns `(nil, false)`, which the callers' type assertions would turn
  into a panic, although `Get` tests with `if` and not with `for`. With more
  workers it can: one is woken for an item that another takes; hence `Alone` in
  `NeverNil`, and `Served` ends where such a panic ends the program. `Served`: an item
  that its worker puts back all the time does not starve the others, because it
  goes to the end. With three workers each kind of interleaving of two that meet on
  an item and a third that sleeps occurs. `Remove` followed by `Add` leaves two
  entries of an item in the slice, so `OneAtATime` and `Collapsed` speak of the
  items that are never removed (`Kept`); the removed one is there to disturb
  them. Nothing in the repository calls `Remove`.
- `sched_addresses`: while a service's address is edited,
  an annotated service changes under the allocator (its `Update` is refused, a
  second address is allocated and the first is repaired), a load balanced
  service is deleted, and two services compete for a pool. Each plan has two or three
  user changes at any moment, which is what it takes to meet a handler between
  two of its calls. A service with a given address is also created and deleted
  across one restart of the scheduler, or while its watch is broken: then nobody is
  told of the deletion, and the worker must find the claim an orphan
  (test/e2e/basic_test.go:649). `PoolsOfferTheirRange` compares `AvailableIP` with
  the list of what a pool offers, for a network of four addresses with
  none, one or two ranges that begin in it, and each set of allocated addresses;
  it also holds the allocations of the run to that list.
- `sched_nodes`: two claims on two nodes is the least instance where a bad count spreads
  them unevenly and where the death of a node forces a move. `FairSpread`
  depends on `getFairNode` counting what is in the *cache*, which already has
  the nodes of requests the server has not seen.
  With one address for two services an owner is added to a claim that has a node:
  `KeepsLedger` says that the two writers of whole objects do not undo each
  other's node.
- `sched_faults`: one failure at any of the calls of any goroutine (`UpdateStatus`
  of a balanced service too), or one
  restart, or a broken watch, at any moment. One is enough to reach each error branch and what follows. A restart is where
  `ownersAlive` must ask the server about owners the new cache does not have
  yet: with the mutant that does not, both `Covered` and `NeverRevoked` fail.
- `claims_mode`: whatever the scheduler does with the claims, and with any two
  failures, the interface ends with the addresses of its node's claims. Old
  versions do overtake newer ones, when a call fails or a resync comes between an
  event and its processing. Then the interface is wrong until the next resync of
  the claim; without resync (the mutant `AddAgain_Not`) it stays wrong, and an
  address removed by hand stays away (test/e2e/basic_test.go:603). For a deleted
  claim there is no resync: there `DeletedIsNotForgotten` carries the argument. The
  only exemption is the address of a claim that was deleted around a death of the
  process: the code never lists what is on the interface, and it stays there.
- `naive`: with no failed call the interface ends with the addresses of the
  services, shared ones too, across a death of the process or a broken watch.
  `RequestsAgreeWithStore` is the reason: at any moment the last request of each
  address, or the interface where there is none, is what the store asks for. With
  a failed call this is so only for addresses whose removal was never requested;
  `naive_retry` shows why.

`CHECK_DEADLOCK FALSE` in the queue's and the controllers' runs: workers that have quit, or
have nothing to do when all changes are made, stop for good. In the scheduler's: ticks and resyncs may wait for `Backlog`, and users
who have ended their plan owe nothing.

### Fairness

`WF` for each worker of the queue: a goroutine that can run is run, and what it does
with an item ends. In `Scheduler`: `WF` for each goroutine (Go schedules
them all; `phase = "running"` and one action per goroutine, not per step), the
watches of each claim, the tickers, and heartbeats of running controllers.
`StartWorkers` has `SF`: under `SettledStart` it is disabled during ticks, while
the code's `Sleep` ends by itself. Users, failures and the return of a dead
controller have no fairness. In the controllers: `WF` for the watch of each object,
for the resync of each claim (`resyncInterval`) and for the worker, whose steps
follow each other in one goroutine. Kernel calls that fail are bounded in number,
so the call in the end succeeds; the process that died is started again at once, by
Kubernetes.

### What the code does otherwise than its documentation says

Each of these runs has one property, and TLC's counterexample is the run of the
code described. `findings` in `PROJECT.json` quotes the lines.

| run | line | what happens |
|---|---|---|
| `sched_network` | T:179 | a pool without ranges, its CIDR written with host bits: what is before the written address is not offered, the second of two services that ask is left without an address while one of the network is free |
| `sched_recreated` | S:504 | the worker finds the service of a claim deleted; the watcher queues the deletion of the claim and, when the service comes back, a new one; the worker's own deletion comes behind both and takes the new claim: none for good |
| `sched_lost_update` | S:529 | the node is in the cache, the `Update` fails, every resync finds a live node: the claim never has a node in the server |
| `sched_start_race` | S:126 | workers and first tick start together, a healthy node counts as dead, its claim moves |
| `sched_second_address` | S:245 | the worker frees an orphan between the watcher's list and its `Update` of a pool: the refused address is taken for the user's, a second one is allocated |
| `naive_retry` | N:139 | a removal fails, the address is given back, the addition is carried out, then the removal is tried again: the address is gone, and the resync does nothing (N:188) |

More, reachable in the model by other values of the constants, are kept out of
the runs because each needs another instance:

- *Second owner lost* (S:373, S:388). No pools, plans `s1: Given(ip1), None` and
  `s2: Given(ip1)`: the object with the second owner waits behind the worker's
  own `Update`, is refused, and forgotten. When `s1` goes, so does the claim:
  `AddressesAreClaimed` fails.
- *Allocation leaked* (S:455). `Scenarios <- Replaced`, no nodes: the `Update` in which the
  worker frees an orphan's address is refused because the watcher allocated
  another one; the claim is deleted, and nobody frees the address:
  `AllocationsAreFreed` fails.
- *Crash between allocation and creation* (S:243). `s1: Auto, None`,
  `OneRestart`: the claim is a request in memory while pool and service are
  updated in the server. The next scheduler finds the address in the pool and
  makes no claim: `AddressesAreClaimed` fails. A `Create` that fails (S:380) ends
  the same way without a crash, which is why no property of `sched_faults` says
  that claims are made when calls fail.
- *Allocated twice* (S:455, S:504). Plans `s1: Auto, None, Auto` and `s2: Auto`: the
  address of the deleted `s1` is freed, given to `s2`, and freed again with the orphaned claim:
  `NoSharedAddress` fails. It also fails for two services that ask and one failed call.
- *Edit missed* (S:410). `s1: Given(ip1), Given(ip2)` and `OneRestart`: if the edit
  falls into the restart nobody has the old object, and the claim of `ip1` has a
  living owner: `ClaimsAreReleased` fails.

## 4. Proofs

A run shows a property for one small instance; a theorem shows it for every value of
the constants: any number of services, addresses, pools, nodes, items and workers, any
plan of the users, any number of failures. Fairness plays no part in them.

| module | theorem | states |
|---|---|---|
| `WorkQueueProofs` | `TypeCorrect` | `Spec => []TypeOK` |
| | `AddedItemsAreNeverLost` | `Spec => []NeverLost` |
| | `OneWorkerPerItem` | `Spec => []OneAtATime` |
| | `RepeatedAddsCollapse` | `Spec => []Collapsed` |
| | `NoWakeupIsLost` | `Spec => []NoLostWakeup` |
| | `DrainedWhenAllQuit` | `Spec => []DrainedAtQuit` |
| | `OneWorkerNeverGetsNil` | `Spec => []NeverNil`, which speaks of one worker and no `Remove` |
| | `ImplementsKeyedQueue` | `Spec => KeepsPromise` |
| `SchedulerProofs` | `TypeCorrect` | `Spec => []TypeOK` |
| | `ImplementsLedger` | `Spec => KeepsLedger` |
| | `NodesAreKept` | `Timely`, `SettledStart`: `Spec => NoNeedlessMove` |
| | `PoolsAllocateTheirOffer` | `Spec => [](\A p \in Pools : pools[p] \subseteq OfferedBy(p))` |
| `AddressProofs` | `GivenClaimsStay` | `GivenForGood`: no claim of a given address is deleted while its service has it |
| | `NeverRevokedWhenGiven` | `GivenForGood`, nobody asks for an address: `Spec => NeverRevoked` |
| | `GivenAreCovered` | `GivenForGood`: `Spec => []Covered` |
| | `AddressesAreNotShared` | `GivenForGood`, `AsksForGood`, no failed call, pools apart: `Spec => []NoSharedAddress` |
| `ClaimControllerProofs` | `TypeCorrect` | `Spec => []TypeOK` |
| | `DeletedClaimsAreRemembered` | `Spec => []DeletedIsNotForgotten` |
| `NaiveControllerProofs` | `TypeCorrect` | `Spec => []TypeOK` |
| | `RequestsFollowStore` | `Spec => []RequestsAgreeWithStore` |
| | `AtRestInterfaceIsRight` | at rest, without failed calls, the interface is right |
| `PoolAddressesProofs` | `ErrorOnlyWhenExhausted` | `AvailableIP` fails exactly when the `Usable` addresses are allocated, for any CIDR and ranges |
| | `AvailableIPIsFirstFree` | it returns the first free address of its walk |
| | `RangesAreOffered`, `NetworkIsOffered` | what the walk comes to, for any CIDR and ranges |

### Assumptions

Each is a named `ASSUME` that TLC evaluates in the runs.

- Queue: `NoItem` is no item (`ItemsAssumption`); there are finitely many workers
  (`WorkersAssumption`); every user of the queue has one that calls `Get`
  (`UsersAssumption`; without any, "all have quit" would be true of a queue nobody
  drains); `MaxLen` is a natural number.
- Scheduler: nodes and pools are numbers, so that a list has an order, and pools
  are finitely many (`ListOrderAssumption`); addresses are finitely many numbers
  (`AddressAssumption`, true of IPv4); the filter is one of the two that exist
  (`FilterAssumption`); model values such as `None` are none of the objects they stand
  beside (`ObjectsAssumption`, `NoRequestAssumption`); pools offer addresses (`OfferAssumption`); plans, bounds
  and initial nodes have their types.
- `NodesAreKept` needs `Timely` and `SettledStart`. Both are necessary: a late heartbeat
  makes a running node look dead, and `sched_start_race` is the counterexample
  without the second. `NeverNil` is false without its `Alone`.
- The theorems of `AddressProofs` have hypotheses about the users, which are definitions
  and not constants' assumptions. `GivenForGood(plan)`: no address is given to two
  services, none is given again after it was taken away or deleted, and none is one
  that a pool offers while some service asks for one. It holds of all plans of
  `sched_faults` and `sched_addresses`; of `sched_recreated`, the counterexample without
  it, it does not. `AddressesAreNotShared` also needs that a service which asks for an
  address is only touched afterwards (`AsksForGood`), that no call fails
  (`CallsSucceed`) and that no two pools offer the same address (`OffersDiffer`). The
  plans of `sched_addresses` satisfy this, with one restart or broken watch too, but for
  the two that delete a service that asked. Restarts and broken watches
  are unrestricted in all four.
- Controllers: `Uid` is a node, bounds are numbers; in simple mode `None` is no request and
  the addresses are finitely many.
- `RangesAreOffered` and `ErrorOnlyWhenExhausted` speak of ranges whose start is not behind their end, inside or
  outside the network; `NetworkIsOffered` of a CIDR whose address is in its network.

### Loops

The first lemmas of `WorkQueueOpsProofs` replace the induction a reader would use.
`LeastElement` (from the well-foundedness of `<`) gives the least turn after which
something is wrong, and that turn is the counterexample: `LoopRuns` says that a
recursive function is the fold of its turns, `LoopStaysIn` that a loop stays in what
each turn stays in. `QAddAllType` (adding many keys), `AmongType` and `AmongKeeps` (the
addresses of a list that are in a set: no other than the list's, and none lost) use them.

### The queue

`NeverLost` is not inductive: it says that an accepted item outside the slice is
held by a worker, and does not say why `Done` of *another* worker cannot take that away.
The code knows only `processing`. `QInv` goes through it: an accepted item is in the
slice or in `processing`, and what is in `processing` is held by a busy worker.

`OneAtATime` needs more: `Exclusive` says of the kept items that the slice has each
once, that a queued one is still in `added` and not in `processing`, that a busy
worker's item is in `processing`, and that no two have the same. Each method preserves
one part because of another: `Add` appends only what is not in `added`, so entries
stay distinct *because* queued items are in `added`; `Done` may append *because* what
is processed is not queued; `Get` may hand out *because* the entry it takes is the
only one. `Remove` breaks the second part for the removed item, hence `Kept`.

`NoLostWakeup` is inductive with `QInv`, by counting: each step that appends one entry
wakes one sleeper while there is one, and a worker that stops being woken takes at
least one entry with it. `QuitInv` (who quits saw the queue
closed, and the last one saw it empty) gives `DrainedAtQuit` with `QInv`.
`WokenForWork` gives `NeverNil`: a worker that is `Alone` and was woken finds the entry it was
woken for, since nobody else takes one (`OthersIdle`), and by `Exclusive` every entry is wanted.

The refinement maps `pending` to `added` and `held` to the pairs of busy worker
and item, both restricted to `Lasting`, the items that no user of `Users` removes. `Add`/`Requeue` map to `Offer` or stutter,
`GetItem` to `Take`, `Done` to `Finish`, everything else stutters.
`FirstWantedIsFirst` is where the `CHOOSE` of the first wanted entry is justified.

### The scheduler

`TypeOK` is not inductive. A goroutine reads objects that another may have deleted since,
and what it then computes has a type only if it does not. `TypeInv` adds what each
goroutine relies on between two of its steps (`ServiceTaskOK`, `WorkerTaskOK`,
`MonitorOK`), `RequestsOK` that a request which will send the cached object finds one in
the cache. So no goroutine of the model uses an object that is not there.

`ImplementsLedger` rests on `Consistent`. Two writers send whole objects that were read or
made earlier and wait in `changeQueue` meanwhile. A claim keeps its node because

- `ReadKeepsNode`: an object that was read from the server and is not outdated names the
  node that is stored now;
- `CacheKeepsNode`: a current object in the cache has a node if the stored one has.

The change worker may store what either of them speaks of, hence both. Actions and
their branches are too many to do this for each, so `StepEffect` shows first that every step of the
scheduler does one of five things to claims, cache and requests - `Ask` queues or drops
requests, `Edit(c)` is the worker changing the cached object, `Refresh(c)` the watch
replacing it, `Keep(c)` the change worker storing an object, `Lose` the end of the
process - and each invariant is proved of these five. The mapping is `placed`, the node
of each claim in the server: storing a new object is `Create`, storing a node is `Place`,
a deletion `Remove`, and the rest stutters.

`NodesAreKept` uses the same five and `UpInv`: a node that never failed is in
`liveIpNodes` once the workers run, the worker is therefore never about to move a claim that
is on it, and the cached object of such a claim names it too.

`PoolsAllocateTheirOffer` needs `CopiesWithin`: an update writes back a whole list,
so the copies both goroutines hold must be right too. Together with
`RangesAreOffered` and `NetworkIsOffered` this is the half of `PoolsOfferTheirRange` about
allocations; `AvailableIPIsFirstFree` and `ErrorOnlyWhenExhausted` are the half about the
walk. The second measures the walk by `Usable`, a set that is told from the CIDR and the
ranges by comparisons alone: that the walk misses none of it, stops behind none, and finds
nothing else, whichever ranges overlap or leave the network, is what it adds to the
definitions. `Usable` starts behind the address the CIDR is written with, as the code does.

### Addresses and their claims

`Covered` and `NeverRevoked` compare the services of the server with its claims. What
makes them true is in between: events that wait, the watcher's cache, its task, the
requests of three goroutines, the worker's task and its cache, each of them late by a
different amount. The proofs do not order these. With `GivenForGood` there is one map
`home` from every given address to its service, for the whole run, and every address in it
is to come (`Coming`, in what is left of the plan), in place (`Placed`, in the server), or
over (`Over`). An address only goes on, `Onward`. So everything a goroutine
holds can be late, and is still right if it speaks of what cannot be undone:

- `ServicesFit`: every object, in the server, the cache, an event or the task, has
  addresses of its own service only, and the watcher knows each as started
  (`FeedFits`: no event takes away an address that is not over; `HandlerFits`: what the
  task is about to release is over).
- `ClaimsFit`: every claim, cached claim and request to add names the owner
  that `home` gives the address, and only addresses that were in place; every request to
  delete, and the worker that found an orphan, speak of an address that is over. It
  is an instance of `OwnersFit(own, gone, orphans)`, which is proved for any step once
  (`OwnersFitStep`) from what the watcher tells (`Told`) and from the fact that what owners join
  stays allowed (`Joins`).
- `PoolsFit`: no pool and no copy of its list has a given address. It is why the claim of a
  given address is always made with the default mask, and never freed in a pool.

*Who asks for the claim has seen the address in place; who asks for its deletion knows that it
is over.* From this `GivenClaimsStay` follows for any failures, and `NeverRevokedWhenGiven`
where all addresses are given. `GivenAreCovered` needs in addition `AllAsked`: an
address the watcher's cache has, and that is not about to be listed, has a claim or a
request while it is in place and no call failed. A restart empties the cache with the
requests, and the service is told of again.

`AddressesAreNotShared` adds the addresses that nobody gave. `Kept(home, s)` is what the
server or the cache has for `s`, `Allocated` what the pools have:

- `HoldersFit`: what is kept is allocated, and kept by one service only.
- `TaskFits`: while the watcher is between listing the pools and updating one, its copy of
  each pool is the server's or is known to be stale (then the `Update` is refused), and
  the address it is about to give is in no pool; what it is about to release, because
  the server refused it, is kept by nobody.
- `EventsFit`: every event tells the addresses the service has now, and the cache has
  them too. Only the watcher is ahead, because it changes its copy before the server has
  accepted it.
- `AskersFit`: who asks, or is known to have asked, is `Steady`. With `ClaimsStay`, another
  instance of `OwnersFit`, a claim of such an address has owners that stay, so that the
  worker never finds it an orphan and frees nothing in a pool.

The theorem assumes that services which ask stay because the code is wrong without it: the
address of a deleted service is freed by the watcher (S:455) and once more by the worker, when it
finds the claim an orphan (S:504). In between it may have been given to somebody else,
who loses the allocation. With plans `<<Auto, None, Auto>>` and `<<Auto>>`, and no failure, TLC finds two services
with one address. One failed call is enough with `<<Auto>>` and
`<<Auto>>`: the service gets an address that its pool has not allocated (S:245).

### The controllers

`DeletedIsNotForgotten` says nothing of the moment between the lookup in the store and the
call to the kernel. `Remembers` does: what is about to be added is in the store or has
an object waiting in the queue - waiting, not being processed, since `Done` of the
current item would forget it. `Apply` then keeps it in both outcomes, because a failed
item is added again before `Done`.

`RequestsAgreeWithStore` is inductive as it stands (with `TypeOK`). The work is in
`Deliver`: the requests of a change are two sequences in any order, one request for each
address in one list and not in the other (`RequestsAsk`), and of several requests for an
address the last decides (`LaterDecides`).

### Only model-checked

- Liveness: `Served` and every `<>[]` property. The provers have no rule for fairness.
- `NeverRevoked` for services that ask for an address, `NoSharedAddress` for plans that delete
  one that asked: true of the plans of their runs, where one service asks at a time, not of
  every plan (above).
- `FairSpread`: the difference of two cardinalities over all nodes, and false as soon as
  a node returns, which is empty then; a theorem would be about runs without deaths.
- `PoolsOfferTheirRange` itself, which is stated with `FlattenSeq` and `SelectSeq`, as
  an independent definition: what they compute for every sequence needs induction over
  data. The theorems above say the same of the model's own operators.


## 5. What is not modelled

- `ProcessingQueue.Process` and `Len` of the queue, which nothing else calls.
- Two panics: `getFairNode` asserts the type of an object that may be gone
  (`node_filter.go:27`), the stores are nil until the informers are made
  (S:268, S:302 against S:326 - the worker may have a key from the monitor by then; C:123
  against C:145). Each ends the process, which is `SchedulerFails` or `ProcessDies`
  at that moment.
- The panic of the claim watcher's `DeleteFunc` on a claim whose deletion it missed
  (S:296), likewise. The same panic of the service watcher (S:157) and of the controllers
  (C:116, N:98) is modelled, with `WatchBreaks`: there what the next process never hears
  of matters.
- A relist during a handler of the service watcher, and the repeated delivery of a version
  of a claim as a new object after a relist: the same as a resync.
- The announcement of an address on the network (NU:27-70): only that it may fail after
  the address was added. What the neighbours' caches hold, a retry that finds the
  address there and does not announce it, and two nodes that announce one address
  in the wrong order, would need a model of the network.
- `pkg/extensions/client.go` and `register.go`: each function is one REST call without
  state of its own. A call is part of the step of its caller and may fail there; the
  resource types are taken to be registered before the goroutines start.
- `findAliveNodes` unlocks before it reads the map (S:307-308): a data race that Go's
  map may turn into an exit of the process; the read itself is one step here.
- Leader election: two schedulers at once are left out; the library is taken to work.
- A pool that is changed by users while it is used; addresses and ranges that do not
  parse.

## 6. Plan

Done: all components of section 1 with their runs; the proofs of section 4.

Next, in order:

1. `FairSpread` for runs in which no node dies: `getFairNode` counts the cache, which has the
   nodes of requests that wait; a lemma about the cardinality of a set of claims that
   grows by one is what is missing.
2. `NeverRevoked` for services that ask for an address and stay: from `ClaimsStay` and
   `EventsFit`, with the addresses a refused `Update` has left behind.

What is not planned: a theorem that `ClaimController` at rest has the right interface, like
`AtRestInterfaceIsRight` of the simple mode. Old versions of a claim do overtake newer
ones, so an empty queue does not make the interface right; the next resync
does, and that is liveness (`AddressesFollowClaims`). The half about deleted claims, which no
resync repairs, is `DeletedClaimsAreRemembered`.
