------------------------------ MODULE Scheduler ------------------------------
(***************************************************************************)
(* The claim scheduler: its goroutines, the users who change services, the *)
(* IP controllers that beat or die, failing API calls, and the death of    *)
(* the scheduler itself, after which another replica runs it from scratch. *)
(***************************************************************************)
EXTENDS ServiceWatcher, ClaimWorker, ClaimChangeWorker, NodeMonitor

CONSTANTS
  Touch,         \* a change of a service that leaves its addresses alone
  Scenarios,     \* what users may do (plan: service -> the changes they make, in
                 \* order) and what may fail (bounds: each says how often every
                 \* Kind fails at most)
  InitialNodes,  \* the controllers that run and beat from the start
  Timely,        \* heartbeats come in time: a tick finds every running node beaten
  SettledStart,  \* the first tick is over before the other goroutines start
  Backlog        \* bound: ticks and resyncs wait for a shorter changeQueue

Kind == {"node", "call", "scheduler", "watch"}

ASSUME BoundsAssumption ==
  Backlog \in Nat /\ \A scenario \in Scenarios : scenario.bounds \subseteq [Kind -> Nat]
ASSUME PlanAssumption ==
  /\ Touch \notin Service \cup {None}
  /\ \A scenario \in Scenarios :
       scenario.plan \in [Services -> Seq(Service \cup {None, Touch})]
ASSUME InitialAssumption == InitialNodes \subseteq Nodes

VARIABLES
  plan,      \* service -> the changes its users have still to make
  ctl,       \* node -> "up" (never failed), "down", "starting", "again"
  phase,     \* "waiting": only the monitor runs yet; "running"
  failures,  \* kind of failure -> how many have been
  bounds     \* the bounds of the scenario

envVars == <<plan, ctl, phase, failures, bounds>>
schedVars == <<services, pools, claims, ipnode, beaten, svcFeed, svcCache, svc, claimCache,
               claimQueue, wk, changeQueue, cw, live, mon>>
vars == <<schedVars, envVars>>

(* What Run starts from: empty caches and queues, no node known.           *)
NoEvents == [s \in Services |-> <<>>]
NoServices == [s \in Services |-> None]
NoClaims == [c \in Claim |-> None]

Init ==
  /\ services = NoServices /\ pools = [p \in Pools |-> {}] /\ claims = NoClaims
  /\ svcFeed = NoEvents /\ svcCache = NoServices /\ svc = NoTask
  /\ claimCache = NoClaims /\ claimQueue = EmptyQueue /\ wk = IdleWorker
  /\ changeQueue = <<>> /\ cw = None
  /\ live = {} /\ mon = Waiting /\ phase = "waiting"
  /\ ipnode = [n \in Nodes |-> IF n \in InitialNodes THEN "beating" ELSE "absent"]
  /\ beaten = InitialNodes
  /\ \E scenario \in Scenarios : plan = scenario.plan /\ bounds = scenario.bounds
  /\ ctl = [n \in Nodes |-> IF n \in InitialNodes THEN "up" ELSE "down"]
  /\ failures = [k \in Kind |-> 0]

-----------------------------------------------------------------------------
(* Users.  A step of a plan is a service as it is created or replaced,     *)
(* None to delete it, or Touch.                                            *)
NewSpec(s) == IF Head(plan[s]) = Touch THEN services[s] ELSE Head(plan[s])

UserChange(s) ==
  LET removed == Head(plan[s]) = None IN
  /\ plan[s] # <<>>
  /\ (removed \/ Head(plan[s]) = Touch) => services[s] # None
  /\ plan' = [plan EXCEPT ![s] = Tail(@)]
  /\ services' = [services EXCEPT ![s] = NewSpec(s)]
  /\ svcFeed' = [svcFeed EXCEPT ![s] =
       Append(@, IF removed THEN [obj |-> services[s], gone |-> TRUE]
                            ELSE [obj |-> NewSpec(s), gone |-> FALSE])]
  /\ UNCHANGED <<pools, claims, ipnode, beaten, svcCache, svc, claimCache, claimQueue, wk,
                 changeQueue, cw, live, mon, ctl, phase, failures, bounds>>

(* IP controllers (heartbeatIpNode).  The first beat creates the IpNode    *)
(* with Revision 0, the next ones increment it.                            *)
Heartbeat(n) ==
  /\ ctl[n] # "down" /\ n \notin beaten
  /\ ipnode' = [ipnode EXCEPT ![n] = IF @ = "absent" THEN "new" ELSE "beating"]
  /\ beaten' = IF ipnode[n] = "absent" THEN beaten ELSE beaten \cup {n}
  /\ ctl' = IF ctl[n] = "starting" /\ ipnode[n] # "absent"
              THEN [ctl EXCEPT ![n] = "again"] ELSE ctl
  /\ UNCHANGED <<services, pools, claims, svcFeed, svcCache, svc, claimCache, claimQueue, wk,
                 changeQueue, cw, live, mon, plan, phase, failures, bounds>>

Fails(kind) ==
  /\ failures' = [failures EXCEPT ![kind] = @ + 1]
  /\ \E bound \in bounds : \A k \in Kind : failures'[k] <= bound[k]
  /\ UNCHANGED bounds

NodeFails(n) ==
  /\ ctl[n] # "down" /\ Fails("node")
  /\ ctl' = [ctl EXCEPT ![n] = "down"]
  /\ UNCHANGED <<schedVars, plan, phase>>

NodeStarts(n) ==
  /\ ctl[n] = "down" /\ ctl' = [ctl EXCEPT ![n] = "starting"]
  /\ UNCHANGED <<schedVars, plan, phase, failures, bounds>>

-----------------------------------------------------------------------------
Running(n) == ctl[n] \in {"up", "again"}

(* What the service informer has to deliver after it listed the services.  *)
ListedServices ==
  [s \in Services |->
     IF services[s] = None THEN <<>> ELSE <<[obj |-> services[s], gone |-> FALSE]>>]

(* Run starts the other goroutines one monitor period after the monitor,   *)
(* when the first tick is due.  Their informers list the services.         *)
StartWorkers ==
  /\ phase = "waiting"
  /\ SettledStart => mon = Waiting /\ \A n \in Nodes : Running(n) => n \in live
  /\ phase' = "running"
  /\ svcFeed' = ListedServices
  /\ UNCHANGED <<services, pools, claims, ipnode, beaten, svcCache, svc, claimCache,
                 claimQueue, wk, changeQueue, cw, live, mon, plan, ctl, failures,
                 bounds>>

(* The process is gone, with all it knew; the next one starts.             *)
Restarted ==
  /\ svcFeed' = NoEvents /\ svcCache' = NoServices /\ svc' = NoTask
  /\ claimCache' = NoClaims /\ claimQueue' = EmptyQueue /\ wk' = IdleWorker
  /\ changeQueue' = <<>> /\ cw' = None
  /\ live' = {} /\ mon' = Waiting /\ phase' = "waiting"
  /\ beaten' = {n \in Nodes : ipnode[n] = "beating"}
  /\ UNCHANGED <<services, pools, claims, ipnode, plan, ctl>>

(* The process dies, or loses its lease and exits.                         *)
SchedulerFails == Fails("scheduler") /\ Restarted

(* The service watch breaks and the services are listed again, between two *)
(* handlers.  A service that is gone unnoticed reaches DeleteFunc as a     *)
(* DeletedFinalStateUnknown, and the type assertion ends the process.      *)
WatchBreaks ==
  /\ phase = "running" /\ svc.pc = "idle" /\ Fails("watch")
  /\ IF \E s \in Services : svcCache[s] # None /\ services[s] = None THEN Restarted
     ELSE /\ svcFeed' = ListedServices
          /\ UNCHANGED <<services, pools, claims, ipnode, beaten, svcCache, svc, claimCache,
                         claimQueue, wk, changeQueue, cw, live, mon, plan, ctl, phase>>

Goroutines ==
  /\ phase = "running"
  /\ ServiceStep \/ ClaimStep \/ ChangeStep
  /\ UNCHANGED envVars

CallFault ==
  /\ \/ phase = "running" /\ (ServiceFault \/ ClaimFault \/ ChangeFault)
     \/ ClaimsUnlisted
  /\ Fails("call")
  /\ UNCHANGED <<plan, ctl, phase>>

MonitorTick ==
  /\ Len(changeQueue) <= Backlog
  /\ Timely => \A n \in Nodes : Running(n) => n \in beaten
  /\ Tick /\ UNCHANGED envVars

ClaimEvent(c) == phase = "running" /\ DeliverClaim(c) /\ UNCHANGED envVars

Resync ==
  /\ phase = "running" /\ Len(changeQueue) <= Backlog
  /\ ResyncClaims /\ UNCHANGED envVars

Monitor == MarkNode /\ UNCHANGED envVars

Next ==
  \/ \E s \in Services : UserChange(s)
  \/ \E n \in Nodes : Heartbeat(n) \/ NodeFails(n) \/ NodeStarts(n)
  \/ StartWorkers \/ SchedulerFails \/ WatchBreaks
  \/ Goroutines \/ CallFault
  \/ \E c \in Claim : ClaimEvent(c)
  \/ MonitorTick \/ Monitor \/ Resync

(* Every goroutine that can run runs in the end, the watches deliver, the  *)
(* tickers tick and running controllers beat.  Users, failures and the     *)
(* restart of a controller owe nothing.                                    *)
Fairness ==
  /\ WF_vars(phase = "running" /\ ServiceStep /\ UNCHANGED envVars)
  /\ WF_vars(phase = "running" /\ ClaimStep /\ UNCHANGED envVars)
  /\ WF_vars(phase = "running" /\ ChangeStep /\ UNCHANGED envVars)
  /\ \A c \in Claim : WF_vars(ClaimEvent(c))
  /\ WF_vars(MonitorTick) /\ WF_vars(Monitor) /\ WF_vars(Resync) /\ SF_vars(StartWorkers)
  /\ \A n \in Nodes : WF_vars(Heartbeat(n))

Spec == Init /\ [][Next]_vars /\ Fairness

-----------------------------------------------------------------------------
TypeOK ==
  /\ TypeOKState
  /\ svc \in ServiceTask /\ wk \in WorkerTask /\ cw \in Request \cup {None}
  /\ mon \in [todo : SUBSET Nodes, newer : SUBSET Nodes] /\ mon.newer \subseteq mon.todo
  /\ plan \in [Services -> Seq(Service \cup {None, Touch})]
  /\ ctl \in [Nodes -> {"up", "down", "starting", "again"}]
  /\ phase \in {"waiting", "running"}
  /\ failures \in [Kind -> Nat] /\ bounds \subseteq [Kind -> Nat]

-----------------------------------------------------------------------------
(* What the services in the API server use, and the claim each of their    *)
(* addresses should have.                                                  *)
Uses(s) == IF services[s] = None THEN {} ELSE RangeOf(services[s].ips)
InUse == UNION {Uses(s) : s \in Services}
ClaimOf(ip) == <<ip, MaskOf(PoolsRead, ip)>>

(* The claim is asked for, and nothing asks for its deletion afterwards.   *)
Requested(c, s) ==
  \/ \E k \in DOMAIN changeQueue :
       /\ changeQueue[k].type = "Added" /\ changeQueue[k].claim = c /\ changeQueue[k].owner = s
       /\ \A j \in DOMAIN changeQueue :
            changeQueue[j].type = "Deleted" /\ changeQueue[j].claim = c => j < k
  \/ /\ cw # None /\ cw.claim = c /\ cw.owner = s
     /\ \A j \in DOMAIN changeQueue :
          ~(changeQueue[j].type = "Deleted" /\ changeQueue[j].claim = c)

(* While no call fails: once the events of a service are handled, each of  *)
(* the addresses its users gave it has a claim it owns, or the request     *)
(* that will make one is under way: neither the worker, the watches nor a  *)
(* restart of the scheduler loses one.                                     *)
Covered ==
  failures["call"] = 0 /\ phase = "running" /\ svc.pc = "idle" =>
    \A s \in Services :
      svcCache[s] # None /\ svcFeed[s] = <<>> /\ svcCache[s].want = "none" =>
      \A ip \in RangeOf(svcCache[s].ips) :
        LET c == <<ip, DefaultMask>> IN
        \/ claims[c] # None /\ s \in claims[c].owners
        \/ Requested(c, s)

(* The scheduler does not delete the claim of an address a service uses,   *)
(* not even when it starts with an empty cache (ownersAlive asks the       *)
(* server about owners the cache does not know).                           *)
NeverRevoked ==
  [][\A c \in Claim : claims[c] # None /\ claims'[c] = None => c[1] \notin InUse]_vars

(* A claim that has a node keeps it as long as that controller never       *)
(* failed: monitor, worker and change worker do not move it for nothing.   *)
NoNeedlessMove ==
  [][\A c \in Claim :
       /\ claims[c] # None /\ claims[c].node # None
       /\ claims'[c] # None /\ claims'[c].node # claims[c].node
       => ctl[claims[c].node] # "up"]_vars

(* getFairNode keeps the numbers of claims of the nodes that never failed  *)
(* within one of each other, while claims are only added and no node       *)
(* comes back.                                                             *)
FairSpread ==
  \A n, m \in {k \in Nodes : ctl[k] = "up"} :
    Cardinality(ClaimsOn(n)) <= Cardinality(ClaimsOn(m)) + 1

(* Every address of a service gets a claim the service owns, for good.     *)
AddressesAreClaimed ==
  <>[](\A s \in Services : \A ip \in Uses(s) :
         claims[ClaimOf(ip)] # None /\ s \in claims[ClaimOf(ip)].owners)

(* No claim stays that no service needs.                                   *)
ClaimsAreReleased ==
  <>[](\A c \in Claim : claims[c] # None => c[1] \in InUse /\ c = ClaimOf(c[1]))

(* Every claim ends up on a controller that runs (processIpClaim, and      *)
(* monitorIPNodes when the controller it was on died).                     *)
ClaimsAreServed ==
  <>[](\A c \in Claim : claims[c] # None =>
         claims[c].node # None /\ Running(claims[c].node))

(* A claim is made without a node and never loses its node again, whoever  *)
(* writes it: the change worker adds an owner to what it read, the worker  *)
(* sends the object in its cache, and both must not undo each other.       *)
Ledger == INSTANCE ClaimLedger WITH
  placed <- [c \in Claim |-> IF claims[c] = None THEN None ELSE [node |-> claims[c].node]]
KeepsLedger == Ledger!Spec

(* An address of a pool is given to one service only.                      *)
NoSharedAddress ==
  \A s, t \in Services : s # t => Uses(s) \cap Uses(t) = {}

(* No service that asks for an address has more than one, not even while   *)
(* the pools change under it.                                              *)
NoSecondAddress ==
  \A s \in Services : services[s] # None /\ services[s].want # "none" =>
    Len(services[s].ips) <= 1

(* A service that asks for an address ends with exactly one.               *)
ExactlyOneAddress ==
  <>[](\A s \in Services : services[s] # None /\ services[s].want # "none" =>
         Len(services[s].ips) = 1)

(* An address stays allocated in its pool only while a service uses it.    *)
AllocationsAreFreed == <>[](\A p \in Pools : pools[p] \subseteq InUse)
=============================================================================
