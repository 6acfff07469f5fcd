---------------------------- MODULE AddressProofs ----------------------------
(***************************************************************************)
(* The addresses of services.  The claim of one that users gave and that   *)
(* is in use is never deleted, and while no call fails there is a claim,   *)
(* or a request for one, once the service's events are handled; and no two *)
(* services share an address, whoever gave it.                             *)
(*                                                                         *)
(* A given address is to come, then in place, then over, and everything    *)
(* the goroutines hold of it is late but never ahead: who asks for its     *)
(* claim has seen it in place, who asks for the deletion knows that it is  *)
(* over.  Of an address the scheduler gives only the watcher is ahead,     *)
(* which gives it; until the service goes its pool has it allocated.       *)
(***************************************************************************)
EXTENDS SchedulerProofs

(* home: the addresses given by hand -> the service each is given to.      *)
Homes == UNION {[given -> Services] : given \in SUBSET IPs}

AddressesOf(o) == IF o \in {None, Touch} THEN {} ELSE RangeOf(o.ips)
GivenOf(home, o) == AddressesOf(o) \cap DOMAIN home

-----------------------------------------------------------------------------
(* What is assumed of the users.  They give no address to two services,    *)
(* and one they took away, or deleted with its service, they do not give   *)
(* again (a request to delete the old claim may still wait and would meet  *)
(* the new one: see sched_recreated); and while some service asks for an   *)
(* automatic address, none they give is one that a pool offers.            *)
Apart(home) == \A p \in Pools : OfferedBy(p) \cap DOMAIN home = {}

Fits(home, s, o) ==
  /\ \A ip \in GivenOf(home, o) : home[ip] = s
  /\ o.want = "none" => AddressesOf(o) \subseteq DOMAIN home
  /\ o.want # "none" => Apart(home)

\* What change j takes away of what was there before, no later one gives back.
Lasting(now, changes) ==
  \A j, k \in DOMAIN changes : j < k /\ changes[j] # Touch =>
    AddressesOf(changes[k])
      \cap (AddressesOf(now) \cup UNION {AddressesOf(changes[i]) : i \in 1..(j - 1)})
      \subseteq AddressesOf(changes[j])

Planned(home, s, now, changes) ==
  /\ \A k \in DOMAIN changes :
       /\ AddressesOf(changes[k]) \subseteq DOMAIN home
       /\ changes[k] \notin {None, Touch} => Fits(home, s, changes[k])
  /\ Lasting(now, changes)

GivenForGood(plans) ==
  \E home \in Homes : \A s \in Services : Planned(home, s, None, plans[s])

-----------------------------------------------------------------------------
(* Where an address stands.                                                *)
Placed(home) == {ip \in DOMAIN home : ip \in AddressesOf(services[home[ip]])}
Coming(home) ==
  {ip \in DOMAIN home : \E k \in DOMAIN plan[home[ip]] : ip \in AddressesOf(plan[home[ip]][k])}
Over(home) == DOMAIN home \ (Placed(home) \cup Coming(home))
Started(home) == Placed(home) \cup (DOMAIN home \ Coming(home))

(* A step takes no address back.                                           *)
Onward(home) == Over(home) \subseteq Over(home)' /\ Started(home) \subseteq Started(home)'

(* What users made and will make of the services is as assumed.            *)
PlansFit(home) == \A s \in Services : Planned(home, s, services[s], plan[s])

ObjectsFitOf(home, s, now, cached, feed) ==
  /\ now # None => Fits(home, s, now)
  /\ cached # None => Fits(home, s, cached)
  /\ \A k \in DOMAIN feed : Fits(home, s, feed[k].obj)
ObjectsFit(home) ==
  \A s \in Services : ObjectsFitOf(home, s, services[s], svcCache[s], svcFeed[s])

(* What an event tells of the given addresses, and which of them the       *)
(* watcher knows after k of the events it has yet to deliver.              *)
Tells(home, e) == IF e.gone THEN {} ELSE GivenOf(home, e.obj)
Known(home, cached, feed, k) == IF k = 0 THEN GivenOf(home, cached) ELSE Tells(home, feed[k])

(* The last event tells how the service is now, no event takes away an     *)
(* address that is not over, and neither does a deletion.                  *)
FeedFitsOf(home, over, now, cached, feed) ==
  /\ Known(home, cached, feed, Len(feed)) = GivenOf(home, now)
  /\ \A j, k \in 0..Len(feed) : j < k =>
       Known(home, cached, feed, j) \subseteq Known(home, cached, feed, k) \cup over
  /\ \A k \in DOMAIN feed : feed[k].gone => GivenOf(home, feed[k].obj) \subseteq over
FeedFits(home) ==
  IF phase = "waiting" THEN svcCache = NoServices
  ELSE \A s \in Services : FeedFitsOf(home, Over(home), services[s], svcCache[s], svcFeed[s])

(* The handler frees no address but those that are over.                   *)
HandlerFitsOf(home, over, task, cache) ==
  /\ task.old # None => GivenOf(home, task.old) \subseteq over \cup AddressesOf(cache[task.name])
  /\ RangeOf(task.todo) \cap DOMAIN home \subseteq over
  /\ task.pc \in {"pool", "service"} => cache[task.name].want # "none"
HandlerFits(home) == HandlerFitsOf(home, Over(home), svc, svcCache)

ServicesFit(home) == PlansFit(home) /\ ObjectsFit(home) /\ FeedFits(home) /\ HandlerFits(home)

-----------------------------------------------------------------------------
(* Steps that leave the plans and the given addresses of every service as  *)
(* they are.                                                               *)
SameGiven(home) ==
  UNCHANGED plan /\ \A s \in Services : GivenOf(home, services'[s]) = GivenOf(home, services[s])

LEMMA SameStages ==
  ASSUME NEW home \in Homes, SameGiven(home)
  PROVE  Placed(home)' = Placed(home) /\ Over(home)' = Over(home) /\ Onward(home)
<1>1. \A ip \in DOMAIN home : home[ip] \in Services
  BY DEF Homes
<1>2. Placed(home)' = Placed(home)
  BY <1>1 DEF Placed, SameGiven, GivenOf, AddressesOf
<1>3. Coming(home)' = Coming(home)
  BY DEF Coming, SameGiven, AddressesOf
<1> QED BY <1>2, <1>3 DEF Over, Started, Onward

LEMMA SamePlansFit ==
  ASSUME NEW home \in Homes, PlansFit(home), SameGiven(home)
  PROVE  PlansFit(home)'
<1> SUFFICES ASSUME NEW s \in Services PROVE Planned(home, s, services'[s], plan[s])
  BY DEF PlansFit, SameGiven, Planned, Lasting, Fits, GivenOf, AddressesOf, Apart
<1>1. Planned(home, s, services[s], plan[s]) /\ GivenOf(home, services'[s]) = GivenOf(home, services[s])
  BY DEF PlansFit, SameGiven
<1>2. Lasting(services'[s], plan[s])
  <2> SUFFICES ASSUME NEW j \in DOMAIN plan[s], NEW k \in DOMAIN plan[s], j < k, plan[s][j] # Touch,
                      NEW ip \in AddressesOf(plan[s][k]),
                      \/ ip \in AddressesOf(services'[s])
                      \/ ip \in UNION {AddressesOf(plan[s][i]) : i \in 1..(j - 1)}
               PROVE  ip \in AddressesOf(plan[s][j])
    BY DEF Lasting
  <2>1. ip \in DOMAIN home
    BY <1>1 DEF Planned
  <2>2. ip \in AddressesOf(services'[s]) => ip \in AddressesOf(services[s])
    BY <1>1, <2>1 DEF GivenOf
  <2> QED BY <1>1, <2>2 DEF Planned, Lasting
<1> QED BY <1>1, <1>2 DEF Planned

\* The addresses of a service are those of its list, and None has none.
LEMMA ServiceAddresses ==
  /\ AddressesOf(None) = {} /\ AddressesOf(Touch) = {}
  /\ \A o \in Service : /\ o \notin {None, Touch} /\ o.ips \in Seq(IPs)
                        /\ AddressesOf(o) = RangeOf(o.ips) /\ AddressesOf(o) \subseteq IPs
<1>1. AddressesOf(None) = {} /\ AddressesOf(Touch) = {}
  BY DEF AddressesOf
<1>2. ASSUME NEW o \in Service
      PROVE  /\ o \notin {None, Touch} /\ o.ips \in Seq(IPs)
             /\ AddressesOf(o) = RangeOf(o.ips) /\ AddressesOf(o) \subseteq IPs
  <2>1. o \notin {None, Touch}
    BY <1>2, ObjectsAssumption, PlanAssumption
  <2>2. o.ips \in Seq(IPs)
    BY DEF Service
  <2>3. RangeOf(o.ips) \subseteq IPs
    BY <2>2 DEF RangeOf
  <2> QED BY <2>1, <2>2, <2>3 DEF AddressesOf
<1> QED BY <1>1, <1>2

-----------------------------------------------------------------------------
(* A user changes a service: what comes to be in place was to come, and    *)
(* what is taken away is over.                                             *)
LEMMA UserStages ==
  ASSUME TypeInv, NEW home \in Homes, PlansFit(home), ObjectsFit(home),
         NEW s \in Services, UserChange(s)
  PROVE  /\ PlansFit(home)' /\ Onward(home)
         /\ GivenOf(home, services[s]) \subseteq AddressesOf(services'[s]) \cup Over(home)'
         /\ services'[s] # None => Fits(home, s, services'[s])
         /\ Head(plan[s]) = None => services'[s] = None
<1> DEFINE head == Head(plan[s])
           tail == Tail(plan[s])
<1>1. /\ plan[s] # <<>> /\ plan[s] \in Seq(Service \cup {None, Touch})
      /\ services' = [services EXCEPT ![s] = NewSpec(s)] /\ plan' = [plan EXCEPT ![s] = tail]
      /\ services \in [Services -> Service \cup {None}]
      /\ plan \in [Services -> Seq(Service \cup {None, Touch})]
  BY DEF UserChange, TypeInv, TypeOK, TypeOKState
<1>2. /\ services'[s] = NewSpec(s) /\ plan'[s] = tail
      /\ \A t \in Services \ {s} : services'[t] = services[t] /\ plan'[t] = plan[t]
  BY <1>1
<1>3. /\ 1 \in DOMAIN plan[s] /\ plan[s][1] = head
      /\ \A k \in DOMAIN tail : k + 1 \in DOMAIN plan[s] /\ tail[k] = plan[s][k + 1] /\ k \in Nat \ {0}
      /\ \A k \in DOMAIN plan[s] : k \in Nat \ {0} /\ (k # 1 => k - 1 \in DOMAIN tail /\ plan[s][k] = tail[k - 1])
  BY <1>1
<1>4. Planned(home, s, services[s], plan[s])
  BY DEF PlansFit
<1>5. services'[s] = IF head = Touch THEN services[s] ELSE head
  BY <1>2 DEF NewSpec
<1>6. services'[s] # None => Fits(home, s, services'[s])
  <2>1. CASE head = Touch
    BY <1>5, <2>1 DEF ObjectsFit, ObjectsFitOf
  <2>2. CASE head # Touch
    BY <1>3, <1>4, <1>5, <2>2 DEF Planned
  <2> QED BY <2>1, <2>2
<1>7. ASSUME NEW ip \in AddressesOf(services'[s])
      PROVE  ip \in AddressesOf(services[s]) \/ ip \in AddressesOf(head)
  BY <1>5, <1>7
<1> HIDE DEF head, tail
\* What the change takes away does not come again.
<1>8. ASSUME NEW ip \in AddressesOf(services[s]), ip \notin AddressesOf(services'[s]),
             NEW k \in DOMAIN tail
      PROVE  ip \notin AddressesOf(tail[k])
  <2>1. head # Touch /\ ip \notin AddressesOf(plan[s][1])
    BY <1>3, <1>5, <1>8
  <2>2. 1 < k + 1 /\ k + 1 \in DOMAIN plan[s] /\ tail[k] = plan[s][k + 1]
    BY <1>3
  <2>3. ip \notin AddressesOf(plan[s][k + 1])
    BY <1>3, <1>4, <1>8, <2>1, <2>2 DEF Planned, Lasting
  <2> QED BY <2>2, <2>3
<1>9. Lasting(services'[s], tail)
  <2> SUFFICES ASSUME NEW j \in DOMAIN tail, NEW k \in DOMAIN tail, j < k, tail[j] # Touch,
                      NEW ip \in AddressesOf(tail[k]),
                      \/ ip \in AddressesOf(services'[s])
                      \/ \E i \in 1..(j - 1) : ip \in AddressesOf(tail[i])
               PROVE  ip \in AddressesOf(tail[j])
    BY DEF Lasting
  <2>1. /\ j + 1 \in DOMAIN plan[s] /\ k + 1 \in DOMAIN plan[s] /\ j + 1 < k + 1
        /\ plan[s][j + 1] = tail[j] /\ plan[s][k + 1] = tail[k] /\ j \in Nat \ {0}
    BY <1>3
  <2>2. ip \in AddressesOf(services[s]) \cup UNION {AddressesOf(plan[s][i]) : i \in 1..j}
    <3>1. CASE ip \in AddressesOf(services'[s])
      <4>1. CASE ip \in AddressesOf(services[s])
        BY <4>1
      <4>2. CASE ip \in AddressesOf(plan[s][1])
        BY <2>1, <4>2
      <4> QED BY <1>3, <1>7, <3>1, <4>1, <4>2
    <3>2. ASSUME NEW i \in 1..(j - 1), ip \in AddressesOf(tail[i]) PROVE ip \in AddressesOf(plan[s][i + 1]) /\ i + 1 \in 1..j
      <4>1. i \in DOMAIN tail
        BY <1>1, <2>1, <3>2 DEF tail
      <4> QED BY <1>3, <2>1, <3>2, <4>1
    <3> QED BY <3>1, <3>2
  <2>3. (j + 1) - 1 = j
    BY <2>1
  <2>4. ip \in AddressesOf(plan[s][j + 1])
    BY <1>4, <2>1, <2>2, <2>3 DEF Planned, Lasting
  <2> QED BY <2>1, <2>4
<1>10. Planned(home, s, services'[s], plan'[s])
  BY <1>2, <1>3, <1>4, <1>9 DEF Planned
<1>11. PlansFit(home)'
  <2> SUFFICES ASSUME NEW t \in Services PROVE Planned(home, t, services'[t], plan'[t])
    BY DEF PlansFit, Planned, Lasting, Fits, GivenOf, AddressesOf, Apart
  <2>1. Planned(home, t, services[t], plan[t])
    BY DEF PlansFit
  <2> QED BY <1>2, <1>10, <2>1
\* Every address takes its steps in order.
<1>12. ASSUME NEW ip \in DOMAIN home
       PROVE  /\ ip \in Coming(home)' => ip \in Coming(home)
              /\ ip \in Placed(home)' => ip \in Placed(home) \/ ip \in Coming(home)
              /\ ip \in Placed(home) /\ ip \in Coming(home)' => ip \in Placed(home)'
  <2>1. home[ip] \in Services
    BY DEF Homes
  <2>2. CASE home[ip] # s
    BY <1>2, <2>1, <2>2 DEF Placed, Coming, AddressesOf
  <2>3. CASE home[ip] = s
    <3>1. /\ ip \in Placed(home) <=> ip \in AddressesOf(services[s])
          /\ ip \in Placed(home)' <=> ip \in AddressesOf(services'[s])
          /\ ip \in Coming(home) <=> \E k \in DOMAIN plan[s] : ip \in AddressesOf(plan[s][k])
          /\ ip \in Coming(home)' <=> \E k \in DOMAIN tail : ip \in AddressesOf(tail[k])
      BY <1>2, <2>3 DEF Placed, Coming, AddressesOf
    <3> QED BY <1>3, <1>7, <1>8, <3>1
  <2> QED BY <2>2, <2>3
<1>13. Onward(home)
  BY <1>12 DEF Onward, Over, Started, Placed
<1>14. GivenOf(home, services[s]) \subseteq AddressesOf(services'[s]) \cup Over(home)'
  <2> SUFFICES ASSUME NEW ip \in GivenOf(home, services[s]), ip \notin AddressesOf(services'[s])
               PROVE  ip \in Over(home)'
    OBVIOUS
  <2>1. ip \in DOMAIN home /\ ip \in AddressesOf(services[s])
    BY DEF GivenOf
  <2>2. home[ip] = s
    BY <2>1, ServiceAddresses DEF ObjectsFit, ObjectsFitOf, Fits, GivenOf
  <2>3. \A k \in DOMAIN tail : ip \notin AddressesOf(tail[k])
    BY <1>8, <2>1
  <2>4. ip \notin Placed(home)' /\ ip \notin Coming(home)'
    BY <1>2, <2>2, <2>3 DEF Placed, Coming, AddressesOf
  <2> QED BY <2>1, <2>4 DEF Over
<1>15. head = None => services'[s] = None
  BY <1>5, PlanAssumption
<1> QED BY <1>6, <1>11, <1>13, <1>14, <1>15 DEF head

-----------------------------------------------------------------------------
(* What happens to the events of one service.                              *)

\* Nothing, as far as the given addresses go.
LEMMA FeedStays ==
  ASSUME NEW home, NEW over, NEW now, NEW cached, NEW feed \in Seq(Event),
         FeedFitsOf(home, over, now, cached, feed),
         NEW over1, NEW now1, NEW cached1, over \subseteq over1,
         GivenOf(home, cached1) = GivenOf(home, cached), GivenOf(home, now1) = GivenOf(home, now)
  PROVE  FeedFitsOf(home, over1, now1, cached1, feed)
<1>1. \A k : Known(home, cached1, feed, k) = Known(home, cached, feed, k)
  BY DEF Known
<1> QED BY <1>1 DEF FeedFitsOf

\* What the watcher knows is still so, or over.
LEMMA KnownStays ==
  ASSUME NEW home, NEW over, NEW now, NEW cached, NEW feed \in Seq(Event),
         FeedFitsOf(home, over, now, cached, feed)
  PROVE  GivenOf(home, cached) \subseteq GivenOf(home, now) \cup over
<1>1. Len(feed) \in Nat
  OBVIOUS
<1>2. CASE Len(feed) = 0
  BY <1>2 DEF FeedFitsOf, Known
<1>3. CASE Len(feed) > 0
  <2>1. 0 \in 0..Len(feed) /\ Len(feed) \in 0..Len(feed)
    BY <1>1
  <2>2. Known(home, cached, feed, 0) \subseteq Known(home, cached, feed, Len(feed)) \cup over
    BY <1>3, <2>1 DEF FeedFitsOf
  <2> QED BY <2>2 DEF FeedFitsOf, Known
<1> QED BY <1>1, <1>2, <1>3

\* One more event, after which the service is as it tells.
LEMMA FeedGrows ==
  ASSUME NEW home, NEW over, NEW now, NEW cached, NEW feed \in Seq(Event),
         FeedFitsOf(home, over, now, cached, feed),
         NEW over1, NEW now1, NEW e \in Event, over \subseteq over1,
         Tells(home, e) = GivenOf(home, now1),
         GivenOf(home, now) \subseteq GivenOf(home, now1) \cup over1,
         e.gone => GivenOf(home, e.obj) \subseteq over1
  PROVE  FeedFitsOf(home, over1, now1, cached, Append(feed, e))
<1> DEFINE n == Len(feed)
           more == Append(feed, e)
<1>1. /\ n \in Nat /\ Len(more) = n + 1 /\ DOMAIN feed = 1..n /\ DOMAIN more = 1..(n + 1)
      /\ \A k \in 1..n : more[k] = feed[k]
      /\ more[n + 1] = e
  OBVIOUS
<1> HIDE DEF more
<1>2. /\ \A k \in 0..n : Known(home, cached, more, k) = Known(home, cached, feed, k)
      /\ Known(home, cached, more, n + 1) = GivenOf(home, now1)
  BY <1>1 DEF Known
<1>3. ASSUME NEW j \in 0..(n + 1), NEW k \in 0..(n + 1), j < k
      PROVE  Known(home, cached, more, j) \subseteq Known(home, cached, more, k) \cup over1
  <2>1. j \in 0..n /\ n \in 0..n /\ (k = n + 1 \/ k \in 0..n)
    BY <1>1, <1>3
  <2>2. CASE k \in 0..n
    BY <1>2, <1>3, <2>1, <2>2 DEF FeedFitsOf
  <2>3. CASE k = n + 1
    <3>1. Known(home, cached, feed, j) \subseteq Known(home, cached, feed, n) \cup over
      BY <2>1 DEF FeedFitsOf
    <3>2. Known(home, cached, feed, j) \subseteq GivenOf(home, now1) \cup over1
      BY <3>1 DEF FeedFitsOf
    <3> QED BY <1>2, <2>1, <2>3, <3>2
  <2> QED BY <2>1, <2>2, <2>3
<1>4. ASSUME NEW k \in 1..(n + 1), more[k].gone
      PROVE  GivenOf(home, more[k].obj) \subseteq over1
  <2>1. CASE k = n + 1
    BY <1>1, <1>4, <2>1
  <2>2. CASE k \in 1..n
    BY <1>1, <1>4, <2>2 DEF FeedFitsOf
  <2> QED BY <1>1, <2>1, <2>2
<1>5. FeedFitsOf(home, over1, now1, cached, more)
  BY <1>1, <1>2, <1>3, <1>4 DEF FeedFitsOf
<1> QED BY <1>5 DEF more

\* The first event is delivered.
LEMMA FeedShrinks ==
  ASSUME NEW home, NEW over, NEW now, NEW cached, NEW feed \in Seq(Event),
         FeedFitsOf(home, over, now, cached, feed), feed # <<>>,
         NEW cached1, GivenOf(home, cached1) = Tells(home, Head(feed))
  PROVE  FeedFitsOf(home, over, now, cached1, Tail(feed))
<1> DEFINE n == Len(feed)
           rest == Tail(feed)
<1>1. /\ n \in Nat \ {0} /\ Len(rest) = n - 1 /\ DOMAIN feed = 1..n /\ DOMAIN rest = 1..(n - 1)
      /\ \A k \in 1..(n - 1) : rest[k] = feed[k + 1]
      /\ Head(feed) = feed[1]
  OBVIOUS
<1> HIDE DEF rest
<1>2. ASSUME NEW k \in 0..(n - 1)
      PROVE  k + 1 \in 0..n /\ Known(home, cached1, rest, k) = Known(home, cached, feed, k + 1)
  <2>1. k + 1 \in 0..n /\ k + 1 # 0
    BY <1>1
  <2>2. CASE k = 0
    BY <1>1, <2>1, <2>2 DEF Known
  <2>3. CASE k # 0
    <3>1. k \in 1..(n - 1)
      BY <1>1, <2>3
    <3> QED BY <1>1, <2>1, <2>3, <3>1 DEF Known
  <2> QED BY <2>1, <2>2, <2>3
<1>3. Known(home, cached1, rest, n - 1) = GivenOf(home, now)
  <2>1. n - 1 \in 0..(n - 1) /\ (n - 1) + 1 = n
    BY <1>1
  <2>2. Known(home, cached1, rest, n - 1) = Known(home, cached, feed, n)
    BY <1>2, <2>1
  <2> QED BY <2>2 DEF FeedFitsOf
<1>4. ASSUME NEW j \in 0..(n - 1), NEW k \in 0..(n - 1), j < k
      PROVE  Known(home, cached1, rest, j) \subseteq Known(home, cached1, rest, k) \cup over
  <2>1. j + 1 < k + 1 /\ j + 1 \in 0..n /\ k + 1 \in 0..n
    BY <1>1, <1>4
  <2>2. Known(home, cached, feed, j + 1) \subseteq Known(home, cached, feed, k + 1) \cup over
    BY <2>1 DEF FeedFitsOf
  <2> QED BY <1>2, <2>2
<1>5. ASSUME NEW k \in 1..(n - 1), rest[k].gone
      PROVE  GivenOf(home, rest[k].obj) \subseteq over
  <2>1. k + 1 \in 1..n
    BY <1>1
  <2> QED BY <1>1, <1>5, <2>1 DEF FeedFitsOf
<1>6. FeedFitsOf(home, over, now, cached1, rest)
  BY <1>1, <1>3, <1>4, <1>5 DEF FeedFitsOf
<1> QED BY <1>6 DEF rest

\* The service is listed: there is one event if it exists, and none if not.
LEMMA FeedListed ==
  ASSUME NEW home, NEW over, NEW now, NEW cached,
         GivenOf(home, cached) \subseteq GivenOf(home, now) \cup over
  PROVE  /\ now = cached => FeedFitsOf(home, over, now, cached, <<>>)
         /\ FeedFitsOf(home, over, now, cached, <<[obj |-> now, gone |-> FALSE]>>)
<1>1. now = cached => FeedFitsOf(home, over, now, cached, <<>>)
  BY DEF FeedFitsOf, Known
<1> DEFINE e == [obj |-> now, gone |-> FALSE]
           feed == <<e>>
<1>2. Len(feed) = 1 /\ DOMAIN feed = {1} /\ feed[1] = e /\ ~e.gone /\ e.obj = now
  OBVIOUS
<1> HIDE DEF feed, e
<1>3. Known(home, cached, feed, 0) = GivenOf(home, cached) /\ Known(home, cached, feed, 1) = GivenOf(home, now)
  BY <1>2 DEF Known, Tells
<1>4. \A j, k \in 0..1 : j < k => j = 0 /\ k = 1
  OBVIOUS
<1>5. FeedFitsOf(home, over, now, cached, feed)
  BY <1>2, <1>3, <1>4 DEF FeedFitsOf
<1> QED BY <1>1, <1>5 DEF feed, e

-----------------------------------------------------------------------------
(* Every step keeps what the services' side relies on.                     *)
ServicesKept(home) == ServicesFit(home)' /\ Onward(home)

\* To be shown of a step, one service at a time.
LEMMA ServicesFitNext ==
  ASSUME NEW home \in Homes, phase' = "running", PlansFit(home)', Onward(home),
         \A s \in Services :
           /\ ObjectsFitOf(home, s, services'[s], svcCache'[s], svcFeed'[s])
           /\ FeedFitsOf(home, Over(home)', services'[s], svcCache'[s], svcFeed'[s]),
         HandlerFitsOf(home, Over(home)', svc', svcCache')
  PROVE  ServicesKept(home)
<1>1. ObjectsFit(home)'
  BY DEF ObjectsFit
<1>2. FeedFits(home)'
  BY DEF FeedFits
<1>3. HandlerFits(home)'
  BY DEF HandlerFits
<1> QED BY <1>1, <1>2, <1>3 DEF ServicesKept, ServicesFit

LEMMA HandlerStays ==
  ASSUME NEW home, NEW over, NEW over1, NEW task, NEW cache, over \subseteq over1,
         HandlerFitsOf(home, over, task, cache)
  PROVE  HandlerFitsOf(home, over1, task, cache)
BY DEF HandlerFitsOf

\* The handler goes on with the same arguments, or is done.
LEMMA HandlerGoesOn ==
  ASSUME NEW home, NEW over, NEW task, NEW cache, HandlerFitsOf(home, over, task, cache), NEW next,
         \/ next = NoTask
         \/ /\ next.name = task.name /\ next.old = task.old /\ next.todo = task.todo
            /\ next.pc \in {"pool", "service"} =>
                 task.pc \in {"pool", "service"} \/ cache[task.name].want # "none"
  PROVE  HandlerFitsOf(home, over, next, cache)
<1>1. CASE next = NoTask
  BY <1>1 DEF HandlerFitsOf, NoTask, RangeOf
<1>2. CASE next # NoTask
  BY <1>2 DEF HandlerFitsOf
<1> QED BY <1>1, <1>2

\* The step is about something else, or is the handler's own.
LEMMA ServicesUntouched ==
  ASSUME NEW home \in Homes, ServicesFit(home),
         UNCHANGED <<services, plan, svcFeed, svcCache, phase>>,
         HandlerFitsOf(home, Over(home), svc', svcCache)
  PROVE  ServicesKept(home)
<1>1. SameGiven(home)
  BY DEF SameGiven
<1>2. Over(home)' = Over(home) /\ Onward(home) /\ PlansFit(home)'
  BY <1>1, SameStages, SamePlansFit DEF ServicesFit
<1>3. ObjectsFit(home)'
  BY DEF ServicesFit, ObjectsFit
<1>4. FeedFits(home)'
  BY <1>2 DEF ServicesFit, FeedFits
<1>5. HandlerFits(home)'
  BY <1>2 DEF HandlerFits
<1> QED BY <1>2, <1>3, <1>4, <1>5 DEF ServicesKept, ServicesFit

LEMMA UserKeeps ==
  ASSUME TypeInv, NEW home \in Homes, ServicesFit(home), NEW s \in Services, UserChange(s)
  PROVE  ServicesKept(home)
<1> DEFINE e == IF Head(plan[s]) = None THEN [obj |-> services[s], gone |-> TRUE]
                ELSE [obj |-> NewSpec(s), gone |-> FALSE]
<1>1. /\ PlansFit(home)' /\ Onward(home)
      /\ GivenOf(home, services[s]) \subseteq AddressesOf(services'[s]) \cup Over(home)'
      /\ services'[s] # None => Fits(home, s, services'[s])
      /\ Head(plan[s]) = None => services'[s] = None
  BY UserStages DEF ServicesFit
<1>2. /\ services \in [Services -> Service \cup {None}] /\ svcFeed \in [Services -> Seq(Event)]
      /\ services' = [services EXCEPT ![s] = NewSpec(s)]
      /\ svcFeed' = [svcFeed EXCEPT ![s] = Append(@, e)]
      /\ UNCHANGED <<svcCache, svc, phase>>
      /\ Head(plan[s]) \in {None, Touch} => services[s] # None
      /\ plan[s] # <<>> /\ plan[s] \in Seq(Service \cup {None, Touch})
  BY DEF UserChange, TypeInv, TypeOK, TypeOKState
<1>3. services'[s] = NewSpec(s) /\ svcFeed'[s] = Append(svcFeed[s], e)
      /\ \A t \in Services \ {s} : services'[t] = services[t] /\ svcFeed'[t] = svcFeed[t]
  BY <1>2
<1>4. e \in Event /\ (Head(plan[s]) # None => services'[s] # None)
  <2>1. Head(plan[s]) \in Service \cup {None, Touch} /\ services[s] \in Service \cup {None}
    BY <1>2
  <2>2. Head(plan[s]) # None => NewSpec(s) \in Service
    BY <1>2, <2>1 DEF NewSpec
  <2> QED BY <1>2, <1>3, <2>1, <2>2, ServiceAddresses DEF Event
<1>5. ObjectsFitOf(home, s, services[s], svcCache[s], svcFeed[s])
  BY DEF ServicesFit, ObjectsFit
<1>6. Fits(home, s, e.obj)
  <2>1. CASE Head(plan[s]) = None
    BY <1>2, <1>5, <2>1 DEF ObjectsFitOf
  <2>2. CASE Head(plan[s]) # None
    BY <1>1, <1>3, <1>4, <2>2
  <2> QED BY <2>1, <2>2
<1>7. ObjectsFit(home)'
  <2> SUFFICES ASSUME NEW t \in Services
               PROVE  ObjectsFitOf(home, t, services'[t], svcCache'[t], svcFeed'[t])
    BY DEF ObjectsFit
  <2>1. CASE t # s
    BY <1>2, <1>3, <2>1 DEF ServicesFit, ObjectsFit
  <2>2. CASE t = s
    <3> HIDE DEF e
    <3>1. svcFeed[s] \in Seq(Event)
      BY <1>2
    <3>2. \A k \in DOMAIN Append(svcFeed[s], e) :
            (k \in DOMAIN svcFeed[s] /\ Append(svcFeed[s], e)[k] = svcFeed[s][k]) \/ Append(svcFeed[s], e)[k] = e
      BY <1>4, <3>1
    <3> QED BY <1>1, <1>2, <1>3, <1>5, <1>6, <2>2, <3>2 DEF ObjectsFitOf
  <2> QED BY <2>1, <2>2
<1>8. HandlerFits(home)'
  <2>1. Over(home) \subseteq Over(home)' /\ HandlerFitsOf(home, Over(home), svc, svcCache)
    BY <1>1 DEF Onward, ServicesFit, HandlerFits
  <2>2. HandlerFitsOf(home, Over(home)', svc, svcCache)
    BY <2>1, HandlerStays
  <2> QED BY <1>2, <2>2 DEF HandlerFits
<1>9. ASSUME phase # "waiting", NEW t \in Services
      PROVE  FeedFitsOf(home, Over(home)', services'[t], svcCache[t], svcFeed'[t])
  <2>1. FeedFitsOf(home, Over(home), services[t], svcCache[t], svcFeed[t])
    BY <1>9 DEF ServicesFit, FeedFits
  <2>2. Over(home) \subseteq Over(home)' /\ svcFeed[t] \in Seq(Event)
    BY <1>1, <1>2 DEF Onward
  <2>3. CASE t # s
    BY <1>3, <2>1, <2>2, <2>3, FeedStays
  <2>4. CASE t = s
    <3>1. Tells(home, e) = GivenOf(home, services'[s])
      BY <1>1, <1>3, ServiceAddresses DEF Tells, GivenOf
    <3>2. GivenOf(home, services[s]) \subseteq GivenOf(home, services'[s]) \cup Over(home)'
      BY <1>1 DEF GivenOf
    <3>3. e.gone => GivenOf(home, e.obj) \subseteq Over(home)'
      BY <1>1, ServiceAddresses
    <3> HIDE DEF e
    <3>4. /\ Over(home) \subseteq Over(home)' /\ svcFeed[s] \in Seq(Event) /\ e \in Event
          /\ FeedFitsOf(home, Over(home), services[s], svcCache[s], svcFeed[s])
      BY <1>2, <1>4, <2>1, <2>2, <2>4
    <3>5. FeedFitsOf(home, Over(home)', services'[s], svcCache[s], Append(svcFeed[s], e))
      BY <3>1, <3>2, <3>3, <3>4, FeedGrows, Zenon
    <3> QED BY <1>3, <2>4, <3>5
  <2> QED BY <2>3, <2>4
<1>10. FeedFits(home)'
  BY <1>2, <1>9 DEF FeedFits, ServicesFit
<1> QED BY <1>1, <1>7, <1>8, <1>10 DEF ServicesKept, ServicesFit

\* The process is gone: nothing is cached.
LEMMA RestartKeeps ==
  ASSUME TypeInv, NEW home \in Homes, ServicesFit(home), Restarted
  PROVE  ServicesKept(home)
<1>1. /\ UNCHANGED <<services, plan>> /\ phase' = "waiting" /\ svc' = NoTask
      /\ svcCache' = NoServices /\ svcFeed' = NoEvents
  BY DEF Restarted
<1>2. SameGiven(home)
  BY <1>1 DEF SameGiven
<1>3. PlansFit(home)' /\ Onward(home)
  BY <1>2, SameStages, SamePlansFit DEF ServicesFit
<1>4. ObjectsFit(home)'
  <2> SUFFICES ASSUME NEW s \in Services
               PROVE  ObjectsFitOf(home, s, services[s], None, <<>>)
    BY <1>1 DEF ObjectsFit, NoServices, NoEvents
  <2> QED BY DEF ServicesFit, ObjectsFit, ObjectsFitOf
<1>5. HandlerFits(home)'
  BY <1>1 DEF HandlerFits, HandlerFitsOf, NoTask, RangeOf
<1>6. FeedFits(home)'
  BY <1>1 DEF FeedFits
<1> QED BY <1>3, <1>4, <1>5, <1>6 DEF ServicesKept, ServicesFit

\* The services are listed, for the first time or again.
LEMMA ListingKeeps ==
  ASSUME TypeInv, NEW home \in Homes, ServicesFit(home),
         UNCHANGED <<services, plan, svcCache, svc>>, svcFeed' = ListedServices,
         phase' = "running",
         phase = "waiting" \/ \A s \in Services : services[s] = None => svcCache[s] = None
  PROVE  ServicesKept(home)
<1>1. SameGiven(home)
  BY DEF SameGiven
<1>2. PlansFit(home)' /\ Onward(home) /\ Over(home)' = Over(home)
  BY <1>1, SameStages, SamePlansFit DEF ServicesFit
<1>3. HandlerFitsOf(home, Over(home)', svc', svcCache')
  BY <1>2 DEF ServicesFit, HandlerFits
<1>4. ASSUME NEW s \in Services
      PROVE  /\ ObjectsFitOf(home, s, services[s], svcCache[s], ListedServices[s])
             /\ FeedFitsOf(home, Over(home), services[s], svcCache[s], ListedServices[s])
  <2> DEFINE e == [obj |-> services[s], gone |-> FALSE]
  <2>1. ListedServices[s] = IF services[s] = None THEN <<>> ELSE <<e>>
    BY DEF ListedServices
  <2>2. ObjectsFitOf(home, s, services[s], svcCache[s], svcFeed[s])
    BY DEF ServicesFit, ObjectsFit
  <2>3. ObjectsFitOf(home, s, services[s], svcCache[s], ListedServices[s])
    BY <2>1, <2>2 DEF ObjectsFitOf
  <2>4. /\ GivenOf(home, svcCache[s]) \subseteq GivenOf(home, services[s]) \cup Over(home)
        /\ services[s] = None => svcCache[s] = None
    <3>1. CASE phase = "waiting"
      BY <3>1, ServiceAddresses DEF ServicesFit, FeedFits, NoServices, GivenOf
    <3>2. CASE phase # "waiting"
      <4>1. FeedFitsOf(home, Over(home), services[s], svcCache[s], svcFeed[s])
        BY <3>2 DEF ServicesFit, FeedFits
      <4>2. svcFeed[s] \in Seq(Event)
        BY DEF TypeInv, TypeOK, TypeOKState
      <4> QED BY <3>2, <4>1, <4>2, KnownStays
    <3> QED BY <3>1, <3>2
  <2>5. FeedFitsOf(home, Over(home), services[s], svcCache[s], ListedServices[s])
    <3>1. CASE services[s] = None
      BY <2>1, <2>4, <3>1, FeedListed
    <3>2. CASE services[s] # None
      BY <2>1, <2>4, <3>2, FeedListed
    <3> QED BY <3>1, <3>2
  <2> QED BY <2>3, <2>5
<1> QED BY <1>2, <1>3, <1>4, ServicesFitNext

\* The watch breaks: the services are listed again, or the process ends.
LEMMA WatchKeeps ==
  ASSUME TypeInv, NEW home \in Homes, ServicesFit(home), WatchBreaks
  PROVE  ServicesKept(home)
<1>1. CASE Restarted
  BY <1>1, RestartKeeps
<1>2. CASE ~Restarted
  <2>1. /\ \A s \in Services : services[s] = None => svcCache[s] = None
        /\ svcFeed' = ListedServices /\ phase = "running"
        /\ UNCHANGED <<services, plan, svcCache, svc, phase>>
    BY <1>2 DEF WatchBreaks
  <2> QED BY <2>1, ListingKeeps
<1> QED BY <1>1, <1>2

-----------------------------------------------------------------------------
(* serviceWatcher.                                                         *)
LEMMA DeliverKeeps ==
  ASSUME TypeInv, NEW home \in Homes, ServicesFit(home), phase = "running",
         UNCHANGED <<phase, plan>>, NEW s \in Services, Deliver(s)
  PROVE  ServicesKept(home)
<1> DEFINE event == Head(svcFeed[s])
           rest == Tail(svcFeed[s])
<1>1. /\ svcFeed \in [Services -> Seq(Event)] /\ svcCache \in [Services -> Service \cup {None}]
      /\ svcFeed[s] \in Seq(Event) /\ svcFeed[s] # <<>> /\ UNCHANGED services
      /\ svcFeed' = [svcFeed EXCEPT ![s] = rest]
      /\ svcCache' = [svcCache EXCEPT ![s] = IF event.gone THEN None ELSE event.obj]
      /\ svc' = IF event.gone
                  THEN [NoTask EXCEPT !.pc = "old", !.name = s, !.old = event.obj]
                  ELSE [NoTask EXCEPT !.pc = "list", !.name = s, !.old = svcCache[s]]
  BY DEF Deliver, TypeInv, TypeOK, TypeOKState
<1>2. /\ event \in Event /\ 1 \in DOMAIN svcFeed[s] /\ svcFeed[s][1] = event
      /\ 1 \in 0..Len(svcFeed[s]) /\ 0 \in 0..Len(svcFeed[s])
      /\ \A k \in DOMAIN rest : k + 1 \in DOMAIN svcFeed[s] /\ rest[k] = svcFeed[s][k + 1]
  BY <1>1
<1>3. event.obj \in Service /\ event.obj # None /\ event.gone \in BOOLEAN
  BY <1>2, ServiceAddresses, ObjectsAssumption DEF Event
<1>4. /\ ObjectsFitOf(home, s, services[s], svcCache[s], svcFeed[s])
      /\ \A t \in Services : /\ ObjectsFitOf(home, t, services[t], svcCache[t], svcFeed[t])
                             /\ FeedFitsOf(home, Over(home), services[t], svcCache[t], svcFeed[t])
  BY DEF ServicesFit, ObjectsFit, FeedFits
<1> HIDE DEF event, rest
<1>5. /\ svcFeed'[s] = rest /\ svcCache'[s] = IF event.gone THEN None ELSE event.obj
      /\ \A t \in Services \ {s} : svcFeed'[t] = svcFeed[t] /\ svcCache'[t] = svcCache[t]
  BY <1>1
<1>6. SameGiven(home)
  BY <1>1 DEF SameGiven
<1>7. Over(home)' = Over(home) /\ Onward(home) /\ PlansFit(home)'
  BY <1>6, SameStages, SamePlansFit DEF ServicesFit
<1>8. ObjectsFitOf(home, s, services[s], svcCache'[s], rest)
  BY <1>2, <1>4, <1>5 DEF ObjectsFitOf
<1>9. FeedFitsOf(home, Over(home), services[s], svcCache'[s], rest)
  <2>1. GivenOf(home, svcCache'[s]) = Tells(home, event)
    BY <1>5, ServiceAddresses DEF Tells, GivenOf
  <2>2. GivenOf(home, svcCache'[s]) = Tells(home, Head(svcFeed[s]))
    BY <2>1 DEF event
  <2>3. FeedFitsOf(home, Over(home), services[s], svcCache'[s], Tail(svcFeed[s]))
    BY <1>1, <1>4, <2>2, FeedShrinks
  <2> QED BY <2>3 DEF rest
<1>10. ASSUME NEW t \in Services
       PROVE  /\ ObjectsFitOf(home, t, services'[t], svcCache'[t], svcFeed'[t])
              /\ FeedFitsOf(home, Over(home)', services'[t], svcCache'[t], svcFeed'[t])
  BY <1>1, <1>4, <1>5, <1>7, <1>8, <1>9
<1>11. HandlerFitsOf(home, Over(home), svc', svcCache')
  <2>1. FeedFitsOf(home, Over(home), services[s], svcCache[s], svcFeed[s])
    BY <1>4
  <2>2. CASE event.gone
    <3>1. GivenOf(home, event.obj) \subseteq Over(home)
      BY <1>2, <2>1, <2>2 DEF FeedFitsOf
    <3>2. svc'.old = event.obj /\ svc'.todo = <<>> /\ svc'.pc = "old"
      BY <1>1, <2>2 DEF NoTask
    <3> QED BY <3>1, <3>2 DEF HandlerFitsOf, RangeOf
  <2>3. CASE ~event.gone
    <3>1. Known(home, svcCache[s], svcFeed[s], 0) \subseteq Known(home, svcCache[s], svcFeed[s], 1) \cup Over(home)
      BY <1>2, <2>1 DEF FeedFitsOf
    <3>2. GivenOf(home, svcCache[s]) \subseteq GivenOf(home, event.obj) \cup Over(home)
      BY <1>2, <2>3, <3>1 DEF Known, Tells
    <3>3. svc'.old = svcCache[s] /\ svc'.todo = <<>> /\ svc'.pc = "list" /\ svc'.name = s
      BY <1>1, <2>3 DEF NoTask
    <3>4. GivenOf(home, svcCache[s]) \subseteq Over(home) \cup AddressesOf(svcCache'[s])
      BY <1>5, <2>3, <3>2 DEF GivenOf
    <3> QED BY <3>3, <3>4 DEF HandlerFitsOf, RangeOf
  <2> QED BY <2>2, <2>3
<1> QED BY <1>7, <1>10, <1>11, ServicesFitNext

LEMMA ListForNewKeeps ==
  ASSUME TypeInv, NEW home \in Homes, ServicesFit(home), UNCHANGED <<phase, plan>>,
         NEW copy, ListForNew(copy)
  PROVE  ServicesKept(home)
<1>1. /\ UNCHANGED <<services, svcFeed, svcCache>> /\ svc \in ServiceTask
      /\ \/ svc' = AfterNew(svc)
         \/ /\ svcCache[svc.name].want # "none"
            /\ svc' = [svc EXCEPT !.pc = "pool", !.ip = FreeIP(copy), !.pool = FreePool(copy),
                                  !.copy = copy]
  BY DEF ListForNew, TypeInv, TypeOK
<1>2. \/ svc' = NoTask
      \/ /\ svc'.name = svc.name /\ svc'.old = svc.old /\ svc'.todo = svc.todo
         /\ svc'.pc = "old" \/ svcCache[svc.name].want # "none"
  BY <1>1 DEF AfterNew, ServiceTask
<1>3. HandlerFitsOf(home, Over(home), svc', svcCache)
  BY <1>2, HandlerGoesOn DEF ServicesFit, HandlerFits
<1> QED BY <1>1, <1>3, ServicesUntouched

\* What a pool offers is no address given by hand: some service asks.
LEMMA AllocateKeeps ==
  ASSUME TypeInv, NEW home \in Homes, ServicesFit(home), phase = "running",
         UNCHANGED <<phase, plan>>, NEW reached, AllocateInPool(reached)
  PROVE  ServicesKept(home)
<1> DEFINE s == svc.name
           old == svcCache[s]
           new == [old EXCEPT !.ips = Append(@, svc.ip)]
<1>1. /\ UNCHANGED <<services, svcFeed>> /\ svc.pc = "pool" /\ svc \in ServiceTask
      /\ svc' = [svc EXCEPT !.pc = "service", !.copy = NoPools]
      /\ svcCache' = [svcCache EXCEPT ![s] = new]
      /\ svcCache \in [Services -> Service \cup {None}]
      /\ s \in Services /\ old \in Service /\ old # None
      /\ svc.pool \in Pools /\ svc.ip \in OfferedBy(svc.pool) /\ svc.ip \in IPs
  BY OfferAssumption DEF AllocateInPool, TypeInv, TypeOK, TypeOKState, ServiceTaskOK
<1>2. old.want # "none" /\ HandlerFitsOf(home, Over(home), svc, svcCache)
  BY <1>1 DEF ServicesFit, HandlerFits, HandlerFitsOf
<1>3. /\ \A t \in Services : /\ ObjectsFitOf(home, t, services[t], svcCache[t], svcFeed[t])
                             /\ FeedFitsOf(home, Over(home), services[t], svcCache[t], svcFeed[t])
      /\ \A t \in Services : svcFeed[t] \in Seq(Event)
  BY DEF ServicesFit, ObjectsFit, FeedFits, TypeInv, TypeOK, TypeOKState
<1>4. Fits(home, s, old)
  BY <1>1, <1>3 DEF ObjectsFitOf
<1>5. svc.ip \notin DOMAIN home
  BY <1>1, <1>2, <1>4 DEF Fits, Apart
<1>6. /\ new \in Service /\ new.want = old.want /\ new.ips = Append(old.ips, svc.ip)
      /\ old.ips \in Seq(IPs)
  <2>1. /\ old.ips \in Seq(IPs) /\ new.ips = Append(old.ips, svc.ip) /\ new.want = old.want
        /\ new = [old EXCEPT !.ips = new.ips]
    BY <1>1 DEF Service
  <2>2. Append(old.ips, svc.ip) \in Seq(IPs)
    BY <1>1, <2>1
  <2> HIDE DEF new
  <2>3. new \in Service
    BY <1>1, <2>1, <2>2 DEF Service
  <2> QED BY <2>1, <2>3
<1> HIDE DEF new
<1>7. AddressesOf(new) = AddressesOf(old) \cup {svc.ip}
  <2>1. RangeOf(new.ips) = RangeOf(old.ips) \cup {svc.ip}
    BY <1>1, <1>6, AppendRange
  <2> QED BY <1>1, <1>6, <2>1, ServiceAddresses
<1>8. GivenOf(home, new) = GivenOf(home, old)
  BY <1>5, <1>7 DEF GivenOf
<1>9. Fits(home, s, new)
  BY <1>2, <1>4, <1>6, <1>8 DEF Fits
<1>10. svcCache'[s] = new /\ \A t \in Services \ {s} : svcCache'[t] = svcCache[t]
  BY <1>1
<1>11. SameGiven(home)
  BY <1>1 DEF SameGiven
<1>12. Over(home)' = Over(home) /\ Onward(home) /\ PlansFit(home)'
  BY <1>11, SameStages, SamePlansFit DEF ServicesFit
<1>13. ASSUME NEW t \in Services
       PROVE  /\ ObjectsFitOf(home, t, services'[t], svcCache'[t], svcFeed'[t])
              /\ FeedFitsOf(home, Over(home)', services'[t], svcCache'[t], svcFeed'[t])
  <2>1. ObjectsFitOf(home, t, services[t], svcCache'[t], svcFeed[t])
    BY <1>3, <1>9, <1>10 DEF ObjectsFitOf
  <2>2. GivenOf(home, svcCache'[t]) = GivenOf(home, svcCache[t])
    BY <1>8, <1>10
  <2>3. FeedFitsOf(home, Over(home), services[t], svcCache'[t], svcFeed[t])
    BY <1>3, <2>2, FeedStays
  <2> QED BY <1>1, <1>12, <2>1, <2>3
<1>14. HandlerFitsOf(home, Over(home)', svc', svcCache')
  <2>1. svc'.name = s /\ svc'.old = svc.old /\ svc'.todo = svc.todo
    BY <1>1 DEF ServiceTask
  <2> QED BY <1>2, <1>6, <1>7, <1>10, <1>12, <2>1 DEF HandlerFitsOf
<1> QED BY <1>12, <1>13, <1>14, ServicesFitNext

\* The object in the cache is sent: its given addresses are the service's.
LEMMA UpdateServiceKeeps ==
  ASSUME TypeInv, NEW home \in Homes, ServicesFit(home), phase = "running",
         UNCHANGED <<phase, plan>>, NEW reached, UpdateService(reached)
  PROVE  ServicesKept(home)
<1> DEFINE s == svc.name
           obj == svcCache[s]
           one == <<[obj |-> obj, gone |-> FALSE]>>
           current == reached /\ svcFeed[s] = <<>>
<1>1. /\ UNCHANGED svcCache /\ svc.pc = "service" /\ svc \in ServiceTask
      /\ svc' = AfterUpdate(svc, current)
      /\ \/ /\ svcFeed[s] = <<>> /\ services' = [services EXCEPT ![s] = obj]
            /\ svcFeed' = [svcFeed EXCEPT ![s] = one]
         \/ UNCHANGED <<services, svcFeed>>
  BY DEF UpdateService, TypeInv, TypeOK
<1>2. /\ s \in Services /\ obj \in Service
      /\ services \in [Services -> Service \cup {None}] /\ svcFeed \in [Services -> Seq(Event)]
  BY <1>1 DEF TypeInv, TypeOK, TypeOKState, ServiceTaskOK
<1> HIDE DEF current
<1>3. HandlerFitsOf(home, Over(home), svc', svcCache)
  <2>1. \/ svc' = NoTask
        \/ /\ svc'.name = svc.name /\ svc'.old = svc.old /\ svc'.todo = svc.todo
           /\ svc'.pc \in {"old", "status"}
    BY <1>1 DEF AfterUpdate, AfterNew, ServiceTask
  <2> QED BY <2>1, HandlerGoesOn DEF ServicesFit, HandlerFits
<1>4. CASE UNCHANGED <<services, svcFeed>>
  BY <1>1, <1>3, <1>4, ServicesUntouched
<1>5. CASE /\ svcFeed[s] = <<>> /\ services' = [services EXCEPT ![s] = obj]
           /\ svcFeed' = [svcFeed EXCEPT ![s] = one]
  <2>1. /\ services'[s] = obj /\ svcFeed'[s] = one
        /\ \A t \in Services \ {s} : services'[t] = services[t] /\ svcFeed'[t] = svcFeed[t]
    BY <1>2, <1>5
  <2>2. \A t \in Services : /\ ObjectsFitOf(home, t, services[t], svcCache[t], svcFeed[t])
                            /\ FeedFitsOf(home, Over(home), services[t], svcCache[t], svcFeed[t])
    BY DEF ServicesFit, ObjectsFit, FeedFits
  <2>3. GivenOf(home, obj) = GivenOf(home, services[s])
    BY <1>2, <1>5, <2>2 DEF FeedFitsOf, Known
  <2>4. SameGiven(home)
    BY <2>1, <2>3 DEF SameGiven
  <2>5. Over(home)' = Over(home) /\ Onward(home) /\ PlansFit(home)'
    BY <2>4, SameStages, SamePlansFit DEF ServicesFit
  <2>6. ObjectsFitOf(home, s, obj, obj, one)
    <3>1. Fits(home, s, obj)
      BY <1>2, <2>2, ServiceAddresses, ObjectsAssumption DEF ObjectsFitOf
    <3> QED BY <3>1 DEF ObjectsFitOf
  <2>7. FeedFitsOf(home, Over(home), obj, obj, one)
    BY FeedListed
  <2>8. ASSUME NEW t \in Services
        PROVE  /\ ObjectsFitOf(home, t, services'[t], svcCache'[t], svcFeed'[t])
               /\ FeedFitsOf(home, Over(home)', services'[t], svcCache'[t], svcFeed'[t])
    BY <1>1, <2>1, <2>2, <2>5, <2>6, <2>7
  <2> QED BY <1>1, <1>3, <2>5, <2>8, ServicesFitNext
<1> QED BY <1>1, <1>4, <1>5

LEMMA UpdateStatusKeeps ==
  ASSUME TypeInv, NEW home \in Homes, ServicesFit(home), phase = "running",
         UNCHANGED <<phase, plan>>, NEW reached, UpdateStatus(reached)
  PROVE  ServicesKept(home)
<1> DEFINE s == svc.name
           e == [obj |-> services[s], gone |-> FALSE]
<1>1. /\ UNCHANGED <<services, svcCache>> /\ svc.pc = "status" /\ svc \in ServiceTask
      /\ svc' = AfterNew(svc)
      /\ svcFeed' = IF reached /\ Len(svcFeed[s]) = 1
                      THEN [svcFeed EXCEPT ![s] = Append(@, e)] ELSE svcFeed
      /\ s \in Services /\ svcFeed \in [Services -> Seq(Event)]
      /\ Len(svcFeed[s]) = 1 => services[s] # None
      /\ services \in [Services -> Service \cup {None}]
  BY DEF UpdateStatus, TypeInv, TypeOK, TypeOKState, ServiceTaskOK
<1>2. HandlerFitsOf(home, Over(home), svc', svcCache)
  <2>1. \/ svc' = NoTask
        \/ /\ svc'.name = svc.name /\ svc'.old = svc.old /\ svc'.todo = svc.todo
           /\ svc'.pc = "old"
    BY <1>1 DEF AfterNew, ServiceTask
  <2> QED BY <2>1, HandlerGoesOn DEF ServicesFit, HandlerFits
<1>3. CASE ~(reached /\ Len(svcFeed[s]) = 1)
  BY <1>1, <1>2, <1>3, ServicesUntouched
<1>4. CASE reached /\ Len(svcFeed[s]) = 1
  <2>1. /\ services[s] \in Service /\ services[s] # None /\ e \in Event /\ svcFeed[s] \in Seq(Event)
        /\ svcFeed'[s] = Append(svcFeed[s], e)
        /\ \A t \in Services \ {s} : svcFeed'[t] = svcFeed[t]
    BY <1>1, <1>4 DEF Event
  <2>2. \A t \in Services : /\ ObjectsFitOf(home, t, services[t], svcCache[t], svcFeed[t])
                            /\ FeedFitsOf(home, Over(home), services[t], svcCache[t], svcFeed[t])
    BY DEF ServicesFit, ObjectsFit, FeedFits
  <2>3. SameGiven(home)
    BY <1>1 DEF SameGiven
  <2>4. Over(home)' = Over(home) /\ Onward(home) /\ PlansFit(home)'
    BY <2>3, SameStages, SamePlansFit DEF ServicesFit
  <2>5. Tells(home, e) = GivenOf(home, services[s]) /\ e.obj = services[s] /\ e.gone = FALSE
    BY DEF Tells
  <2> HIDE DEF e
  <2>6. FeedFitsOf(home, Over(home), services[s], svcCache[s], Append(svcFeed[s], e))
    <3>1. FeedFitsOf(home, Over(home), services[s], svcCache[s], svcFeed[s])
      BY <1>1, <2>2
    <3>2. /\ GivenOf(home, services[s]) \subseteq GivenOf(home, services[s]) \cup Over(home)
          /\ e.gone => GivenOf(home, e.obj) \subseteq Over(home)
      BY <2>5
    <3> QED BY <2>1, <2>5, <3>1, <3>2, FeedGrows
  <2>7. ObjectsFitOf(home, s, services[s], svcCache[s], Append(svcFeed[s], e))
    <3>1. \A k \in DOMAIN Append(svcFeed[s], e) :
            (k \in DOMAIN svcFeed[s] /\ Append(svcFeed[s], e)[k] = svcFeed[s][k]) \/ Append(svcFeed[s], e)[k] = e
      BY <2>1
    <3>2. ObjectsFitOf(home, s, services[s], svcCache[s], svcFeed[s])
      BY <1>1, <2>2
    <3> QED BY <2>1, <2>5, <3>1, <3>2 DEF ObjectsFitOf
  <2>8. ASSUME NEW t \in Services
        PROVE  /\ ObjectsFitOf(home, t, services'[t], svcCache'[t], svcFeed'[t])
               /\ FeedFitsOf(home, Over(home)', services'[t], svcCache'[t], svcFeed'[t])
    BY <1>1, <2>1, <2>2, <2>4, <2>6, <2>7
  <2> QED BY <1>1, <1>2, <2>4, <2>8, ServicesFitNext
<1> QED BY <1>3, <1>4

\* No address is freed that the cached service still has.
LEMMA ListForOldKeeps ==
  ASSUME TypeInv, NEW home \in Homes, ServicesFit(home), UNCHANGED <<phase, plan>>,
         NEW copy, ListForOld(copy)
  PROVE  ServicesKept(home)
<1> DEFINE left == Among(svc.old.ips, IPs \ Referenced)
<1>1. /\ UNCHANGED <<services, svcFeed, svcCache>> /\ svc.pc = "old" /\ svc \in ServiceTask
      /\ svc' = Freeing([svc EXCEPT !.copy = copy, !.todo = left])
      /\ svc.old \in Service /\ svc.old # None /\ svc.name \in Services
      /\ svcCache \in [Services -> Service \cup {None}]
  BY DEF ListForOld, TypeInv, TypeOK, TypeOKState, ServiceTaskOK, ServiceTask
<1>2. /\ svc.old.ips \in Seq(IPs) /\ AddressesOf(svc.old) = RangeOf(svc.old.ips)
      /\ RangeOf(svc.old.ips) \subseteq IPs
  BY <1>1, ServiceAddresses
<1>3. RangeOf(left) = RangeOf(svc.old.ips) \cap (IPs \ Referenced)
  BY <1>2, AmongKeeps
<1> HIDE DEF left
<1>4. AddressesOf(svcCache[svc.name]) \subseteq Referenced
  <2>1. CASE svcCache[svc.name] = None
    BY <2>1, ServiceAddresses
  <2>2. CASE svcCache[svc.name] # None
    <3>1. AddressesOf(svcCache[svc.name]) = RangeOf(svcCache[svc.name].ips)
      BY <1>1, <2>2, ServiceAddresses
    <3> QED BY <1>1, <2>2, <3>1 DEF Referenced
  <2> QED BY <2>1, <2>2
<1>5. HandlerFitsOf(home, Over(home), svc, svcCache)
  BY DEF ServicesFit, HandlerFits
<1>6. RangeOf(left) \cap DOMAIN home \subseteq Over(home)
  BY <1>1, <1>2, <1>3, <1>4, <1>5 DEF HandlerFitsOf, GivenOf
<1>7. \/ svc' = NoTask
      \/ svc'.name = svc.name /\ svc'.old = svc.old /\ svc'.todo = left /\ svc'.pc = "free"
  BY <1>1 DEF Freeing, ServiceTask
<1>8. HandlerFitsOf(home, Over(home), svc', svcCache)
  BY <1>5, <1>6, <1>7 DEF HandlerFitsOf, NoTask, RangeOf
<1> QED BY <1>1, <1>8, ServicesUntouched

LEMMA FreeAddressKeeps ==
  ASSUME TypeInv, NEW home \in Homes, ServicesFit(home), UNCHANGED <<phase, plan>>,
         NEW reached, FreeAddress(reached)
  PROVE  ServicesKept(home)
<1>1. /\ UNCHANGED <<services, svcFeed, svcCache>> /\ svc.pc = "free" /\ svc \in ServiceTask
      /\ svc.todo \in Seq(IPs) /\ svc.todo # <<>>
  BY DEF FreeAddress, TypeInv, TypeOK, ServiceTaskOK, ServiceTask
<1>2. \E copy : svc' = Freeing([svc EXCEPT !.todo = Tail(@), !.copy = copy])
  <2>1. [svc EXCEPT !.todo = Tail(@)] = [svc EXCEPT !.todo = Tail(@), !.copy = svc.copy]
    BY <1>1 DEF ServiceTask
  <2>2. \/ svc' = Freeing([svc EXCEPT !.todo = Tail(@)])
        \/ \E copy : svc' = Freeing([svc EXCEPT !.todo = Tail(@), !.copy = copy])
    BY DEF FreeAddress
  <2> QED BY <2>1, <2>2
<1>3. \/ svc' = NoTask
      \/ svc'.name = svc.name /\ svc'.old = svc.old /\ svc'.todo = Tail(svc.todo) /\ svc'.pc = "free"
  BY <1>1, <1>2 DEF Freeing, ServiceTask
<1>4. RangeOf(Tail(svc.todo)) \subseteq RangeOf(svc.todo)
  BY <1>1 DEF RangeOf
<1>5. HandlerFitsOf(home, Over(home), svc, svcCache)
  BY DEF ServicesFit, HandlerFits
<1>6. HandlerFitsOf(home, Over(home), svc', svcCache)
  <2>1. CASE svc' = NoTask
    BY <1>5, <2>1, HandlerGoesOn
  <2>2. CASE svc'.name = svc.name /\ svc'.old = svc.old /\ svc'.todo = Tail(svc.todo) /\ svc'.pc = "free"
    BY <1>4, <1>5, <2>2 DEF HandlerFitsOf
  <2> QED BY <1>3, <2>1, <2>2
<1> QED BY <1>1, <1>6, ServicesUntouched

LEMMA WatcherKeeps ==
  ASSUME TypeInv, NEW home \in Homes, ServicesFit(home), phase = "running",
         UNCHANGED <<phase, plan>>, ServiceStep \/ ServiceFault
  PROVE  ServicesKept(home)
BY DeliverKeeps, ListForNewKeeps, AllocateKeeps, UpdateServiceKeeps, UpdateStatusKeeps,
   ListForOldKeeps, FreeAddressKeeps DEF ServiceStep, ServiceFault

\* The others leave the services and what waits of them alone.
LEMMA OthersKeep ==
  ASSUME TypeInv, NEW home \in Homes, ServicesFit(home), UNCHANGED <<phase, plan>>,
         \/ ClaimStep \/ ClaimFault \/ ChangeStep \/ ChangeFault \/ ClaimsUnlisted
         \/ \E c \in Claim : DeliverClaim(c)
         \/ ResyncClaims \/ Tick \/ MarkNode
  PROVE  ServicesKept(home)
<1>1. /\ UNCHANGED <<services, svcFeed, svcCache>>
      /\ UNCHANGED svc \/ \E p : svc' = [svc EXCEPT !.copy = Spoil(@, p)]
  <2>1. CASE ClaimStep \/ ClaimFault
    BY <2>1 DEF ClaimStep, ClaimFault, TakeClaim, VerifyClaim, DropOrphan, FreeOrphanAddress,
                AssignNode, NodesUnread
  <2>2. CASE ChangeStep \/ ChangeFault \/ ClaimsUnlisted
    BY <2>2 DEF ChangeStep, ChangeFault, CreateClaim, AddOwner, UpdateClaim, DeleteClaim,
                CallFails, GetFails, ClaimsUnlisted
  <2>3. CASE (\E c \in Claim : DeliverClaim(c)) \/ ResyncClaims \/ Tick \/ MarkNode
    BY <2>3 DEF DeliverClaim, ResyncClaims, Tick, MarkNode
  <2> QED BY <2>1, <2>2, <2>3
<1>2. svc \in ServiceTask
  BY DEF TypeInv, TypeOK
<1>3. svc'.pc = svc.pc /\ svc'.name = svc.name /\ svc'.old = svc.old /\ svc'.todo = svc.todo
  BY <1>1, <1>2 DEF ServiceTask
<1>4. HandlerFitsOf(home, Over(home), svc', svcCache)
  BY <1>3, HandlerGoesOn DEF ServicesFit, HandlerFits
<1> QED BY <1>1, <1>4, ServicesUntouched

LEMMA ServicesStep ==
  ASSUME TypeInv, NEW home \in Homes, ServicesFit(home), [Next]_vars
  PROVE  ServicesKept(home)
<1>1. ASSUME UNCHANGED <<services, plan, svcFeed, svcCache, svc, phase>> PROVE ServicesKept(home)
  BY <1>1, ServicesUntouched DEF ServicesFit, HandlerFits
<1>2. CASE UNCHANGED vars
  BY <1>1, <1>2 DEF vars, schedVars, envVars
<1>3. CASE \E s \in Services : UserChange(s)
  BY <1>3, UserKeeps
<1>4. CASE \E n \in Nodes : Heartbeat(n) \/ NodeFails(n) \/ NodeStarts(n)
  BY <1>1, <1>4 DEF Heartbeat, NodeFails, NodeStarts, schedVars
<1>5. CASE StartWorkers
  BY <1>5, ListingKeeps DEF StartWorkers
<1>6. CASE SchedulerFails \/ WatchBreaks
  BY <1>6, RestartKeeps, WatchKeeps DEF SchedulerFails
<1>7. CASE Goroutines
  BY <1>7, WatcherKeeps, OthersKeep DEF Goroutines, envVars
<1>8. CASE CallFault
  BY <1>8, WatcherKeeps, OthersKeep DEF CallFault
<1>9. CASE (\E c \in Claim : ClaimEvent(c)) \/ MonitorTick \/ Monitor \/ Resync
  BY <1>9, OthersKeep DEF ClaimEvent, MonitorTick, Monitor, Resync, envVars
<1> QED BY <1>2, <1>3, <1>4, <1>5, <1>6, <1>7, <1>8, <1>9 DEF Next

-----------------------------------------------------------------------------
(* What the cache of the services says is late, but not ahead.             *)
LEMMA KnownIsStarted ==
  ASSUME TypeInv, NEW home \in Homes, ServicesFit(home),
         NEW s \in Services, NEW ip \in GivenOf(home, svcCache[s])
  PROVE  home[ip] = s /\ ip \in Started(home)
<1>1. ObjectsFitOf(home, s, services[s], svcCache[s], svcFeed[s])
  BY DEF ServicesFit, ObjectsFit
<1>2. svcCache[s] # None
  BY ServiceAddresses DEF GivenOf
<1>3. home[ip] = s /\ ip \in DOMAIN home
  BY <1>1, <1>2 DEF ObjectsFitOf, Fits, GivenOf
<1>4. phase # "waiting"
  BY <1>2 DEF ServicesFit, FeedFits, NoServices
<1>5. FeedFitsOf(home, Over(home), services[s], svcCache[s], svcFeed[s]) /\ svcFeed[s] \in Seq(Event)
  BY <1>4 DEF ServicesFit, FeedFits, TypeInv, TypeOK, TypeOKState
<1>6. ip \in GivenOf(home, services[s]) \cup Over(home)
  BY <1>5, KnownStays
<1> QED BY <1>3, <1>6 DEF Started, Placed, Over, GivenOf

\* While a service asks for an address, users give none that a pool offers.
LEMMA AskersApart ==
  ASSUME NEW home \in Homes, ServicesFit(home), NEW s \in Services, svcCache[s] # None,
         svcCache[s].want # "none"
  PROVE  Apart(home)
BY DEF ServicesFit, ObjectsFit, ObjectsFitOf, Fits

-----------------------------------------------------------------------------
(* Who may own a claim.  own: claim -> the sets of owners that it, a copy  *)
(* of it or an object that was read may have; gone: the addresses whose    *)
(* claims one may ask to delete; orphans: those whose claims the worker    *)
(* may find without an owner.                                              *)
ObjectFits(own, c, o) == o # None => o.owners \in own[c]

StoreFits(own, store) == \A c \in Claim : ObjectFits(own, c, store[c])

RequestFits(own, gone, r) ==
  /\ r.type = "Added" => {r.owner} \in own[r.claim]
  /\ r.type = "Updated" /\ r.obj \notin {TheCached, Outdated} => ObjectFits(own, r.claim, r.obj)
  /\ r.type = "Deleted" => r.claim[1] \in gone

RequestsFit(own, gone, queue) == \A k \in DOMAIN queue : RequestFits(own, gone, queue[k])

OrphanFits(orphans, task) == task.pc = "orphan" => task.key[1] \in orphans

OwnersFit(own, gone, orphans) ==
  /\ StoreFits(own, claims) /\ StoreFits(own, claimCache)
  /\ RequestsFit(own, gone, changeQueue)
  /\ cw # None => RequestFits(own, gone, cw)
  /\ OrphanFits(orphans, wk)

\* An owner may be added to a claim.
Joins(own) == \A c \in Claim : \A these, those \in own[c] : these \cup those \in own[c]

\* What the services' side tells the other goroutines.
Told(own, gone, orphans) ==
  /\ orphans \subseteq gone /\ RangeOf(svc.todo) \subseteq gone
  /\ \A c \in Claim : \A owners \in own[c] :
       IF Alive(owners) = {} THEN c[1] \in orphans ELSE Alive(owners) \in own[c]
  /\ svc.pc = "list" => \A c \in Claim :
       \/ c[1] \in AddressesOf(svcCache[svc.name])
       \/ svcCache[svc.name].want # "none" /\ \E p \in Pools : c[1] \in OfferedBy(p)
       => {svc.name} \in own[c]

LEMMA FitLater ==
  ASSUME NEW own, NEW gone, NEW own1, NEW gone1,
         \A c \in Claim : own[c] \subseteq own1[c], gone \subseteq gone1
  PROVE  /\ \A store : StoreFits(own, store) => StoreFits(own1, store)
         /\ \A r \in Request : RequestFits(own, gone, r) => RequestFits(own1, gone1, r)
         /\ \A queue \in Seq(Request) :
              RequestsFit(own, gone, queue) => RequestsFit(own1, gone1, queue)
<1>1. \A store : StoreFits(own, store) => StoreFits(own1, store)
  BY DEF StoreFits, ObjectFits
<1>2. ASSUME NEW r \in Request, RequestFits(own, gone, r) PROVE RequestFits(own1, gone1, r)
  <2>1. r.claim \in Claim
    BY DEF Request
  <2> QED BY <1>2, <2>1 DEF RequestFits, ObjectFits
<1>3. \A queue \in Seq(Request) : RequestsFit(own, gone, queue) => RequestsFit(own1, gone1, queue)
  BY <1>2 DEF RequestsFit
<1> QED BY <1>1, <1>2, <1>3

-----------------------------------------------------------------------------
(* What becomes of the queue.                                              *)
LEMMA TailFits ==
  ASSUME NEW own, NEW gone, NEW queue \in Seq(Request), queue # <<>>,
         RequestsFit(own, gone, queue)
  PROVE  RequestsFit(own, gone, Tail(queue)) /\ RequestFits(own, gone, Head(queue))
<1>1. \A k \in DOMAIN Tail(queue) : k + 1 \in DOMAIN queue /\ Tail(queue)[k] = queue[k + 1]
  OBVIOUS
<1>2. 1 \in DOMAIN queue /\ Head(queue) = queue[1]
  OBVIOUS
<1> QED BY <1>1, <1>2 DEF RequestsFit

LEMMA ConcatFits ==
  ASSUME NEW own, NEW gone, NEW queue \in Seq(Request), NEW new \in Seq(Request),
         RequestsFit(own, gone, queue), RequestsFit(own, gone, new)
  PROVE  RequestsFit(own, gone, queue \o new)
<1>1. ASSUME NEW k \in DOMAIN (queue \o new)
      PROVE  \/ k \in DOMAIN queue /\ (queue \o new)[k] = queue[k]
             \/ k - Len(queue) \in DOMAIN new /\ (queue \o new)[k] = new[k - Len(queue)]
  <2>1. CASE k <= Len(queue)
    BY <1>1, <2>1
  <2>2. CASE ~(k <= Len(queue))
    BY <1>1, <2>2
  <2> QED BY <2>1, <2>2
<1> QED BY <1>1 DEF RequestsFit

LEMMA AppendFits ==
  ASSUME NEW own, NEW gone, NEW queue \in Seq(Request), NEW r \in Request,
         RequestsFit(own, gone, queue), RequestFits(own, gone, r)
  PROVE  RequestsFit(own, gone, Append(queue, r))
<1>1. \A k \in DOMAIN Append(queue, r) :
        (k \in DOMAIN queue /\ Append(queue, r)[k] = queue[k]) \/ Append(queue, r)[k] = r
  OBVIOUS
<1> QED BY <1>1 DEF RequestsFit

LEMMA OutdateFits ==
  ASSUME NEW own, NEW gone, NEW queue \in Seq(Request), NEW c, NEW cached,
         RequestsFit(own, gone, queue)
  PROVE  RequestsFit(own, gone, Outdate(queue, c, cached))
<1> SUFFICES ASSUME NEW k \in DOMAIN queue
             PROVE  RequestFits(own, gone, Outdate(queue, c, cached)[k])
  BY OutdateEffect DEF RequestsFit
<1>1. RequestFits(own, gone, queue[k]) /\ queue[k] \in Request
  BY DEF RequestsFit
<1>2. CASE Outdate(queue, c, cached)[k] = queue[k]
  BY <1>1, <1>2
<1>3. CASE queue[k].type = "Updated" /\ Outdate(queue, c, cached)[k] = [queue[k] EXCEPT !.obj = Outdated]
  <2>1. /\ Outdate(queue, c, cached)[k].type = "Updated"
        /\ Outdate(queue, c, cached)[k].obj = Outdated
    BY <1>1, <1>3 DEF Request
  <2> QED BY <2>1 DEF RequestFits
<1> QED BY <1>2, <1>3, OutdateEffect

\* A request to update a claim with what the cache will hold.
LEMMA CachedRequest ==
  ASSUME NEW own, NEW gone, NEW c \in Claim, NEW o \in {TheCached, Outdated}
  PROVE  UpdatedReq(c, o) \in Request /\ RequestFits(own, gone, UpdatedReq(c, o))
<1>1. /\ UpdatedReq(c, o) \in Request /\ UpdatedReq(c, o).type = "Updated"
      /\ UpdatedReq(c, o).obj = o
  BY DEF UpdatedReq, Request
<1> QED BY <1>1 DEF RequestFits

\* An object is stored that fits.
LEMMA StoringFits ==
  ASSUME TypeInv, NEW own, NEW gone, StoreFits(own, claims), StoreFits(own, claimCache),
         NEW c \in Claim, NEW obj \in ClaimObject \cup {None}, NEW queue \in Seq(Request),
         ObjectFits(own, c, obj), RequestsFit(own, gone, queue), Store(c, obj, queue)
  PROVE  /\ StoreFits(own, claims') /\ StoreFits(own, claimCache')
         /\ RequestsFit(own, gone, changeQueue')
<1>1. /\ claims \in [Claim -> ClaimObject \cup {None}]
      /\ claimCache \in [Claim -> CachedClaim \cup {None}]
  BY DEF TypeInv, TypeOK, TypeOKState
<1>2. CASE claims[c] = obj
  BY <1>2 DEF Store
<1>3. CASE claims[c] # obj
  <2>1. /\ claims' = [claims EXCEPT ![c] = obj]
        /\ claimCache' = IF claimCache[c] = None THEN claimCache
                         ELSE [claimCache EXCEPT ![c].fresh = FALSE]
        /\ changeQueue' = Outdate(queue, c, FALSE)
    BY <1>3 DEF Store
  <2>2. StoreFits(own, claims')
    BY <1>1, <2>1 DEF StoreFits
  <2>3. ASSUME NEW d \in Claim
        PROVE  /\ claimCache'[d] = None <=> claimCache[d] = None
               /\ claimCache[d] # None => claimCache'[d].owners = claimCache[d].owners
    <3>1. CASE claimCache[c] = None \/ d # c
      BY <1>1, <2>1, <3>1
    <3>2. CASE claimCache[c] # None /\ d = c
      <4> DEFINE new == [claimCache[c] EXCEPT !.fresh = FALSE]
      <4>1. new \in CachedClaim /\ new.owners = claimCache[c].owners /\ new # None
        BY <1>1, <3>2, ObjectsAssumption DEF CachedClaim
      <4>2. claimCache'[c] = new
        BY <1>1, <2>1, <3>2
      <4> HIDE DEF new
      <4> QED BY <3>2, <4>1, <4>2
    <3> QED BY <3>1, <3>2
  <2>4. StoreFits(own, claimCache')
    BY <2>3 DEF StoreFits, ObjectFits
  <2>5. RequestsFit(own, gone, changeQueue')
    BY <2>1, OutdateFits
  <2> QED BY <2>2, <2>4, <2>5
<1> QED BY <1>2, <1>3

-----------------------------------------------------------------------------
(* claimChangeWorker.                                                      *)
LEMMA ChangesFit ==
  ASSUME TypeInv, RequestsOK, NEW own, NEW gone, NEW orphans, Joins(own),
         OwnersFit(own, gone, orphans), ChangeStep \/ ChangeFault
  PROVE  OwnersFit(own, gone, orphans)'
<1> DEFINE r == Head(changeQueue)
           rest == Tail(changeQueue)
           c == r.claim
<1>1. /\ changeQueue \in Seq(Request) /\ cw \in Request \cup {None} /\ (cw # None => cw.type = "Added")
      /\ claims \in [Claim -> ClaimObject \cup {None}]
      /\ claimCache \in [Claim -> CachedClaim \cup {None}]
  BY DEF TypeInv, TypeOK, TypeOKState
<1>2. UNCHANGED wk
  BY DEF ChangeStep, ChangeFault, CreateClaim, AddOwner, UpdateClaim, DeleteClaim, CallFails,
         GetFails
<1>3. ASSUME StoreFits(own, claims'), StoreFits(own, claimCache'),
             RequestsFit(own, gone, changeQueue'), cw' # None => RequestFits(own, gone, cw')
      PROVE  OwnersFit(own, gone, orphans)'
  BY <1>2, <1>3 DEF OwnersFit
<1>4. changeQueue # <<>> => /\ r \in Request /\ rest \in Seq(Request) /\ c \in Claim
                            /\ RequestsFit(own, gone, rest) /\ RequestFits(own, gone, r)
  BY <1>1, HeadTypes, TailFits DEF OwnersFit
<1>5. StoreFits(own, claims) /\ StoreFits(own, claimCache)
      /\ RequestsFit(own, gone, changeQueue) /\ (cw # None => RequestFits(own, gone, cw))
  BY DEF OwnersFit
<1> HIDE DEF r, rest
<1>6. ASSUME changeQueue # <<>>, NEW obj \in ClaimObject \cup {None}, Store(c, obj, rest),
             ObjectFits(own, c, obj), UNCHANGED cw
      PROVE  OwnersFit(own, gone, orphans)'
  BY <1>3, <1>4, <1>5, <1>6, StoringFits
<1>7. CASE CreateClaim
  <2>1. /\ changeQueue # <<>> /\ r.type = "Added"
        /\ \/ Store(c, NewClaim(r.owner), rest) /\ UNCHANGED cw
           \/ cw' = r /\ changeQueue' = rest /\ UNCHANGED <<claims, claimCache>>
    BY <1>7 DEF CreateClaim, r, rest
  <2>2. CASE Store(c, NewClaim(r.owner), rest) /\ UNCHANGED cw
    <3>1. NewClaim(r.owner) \in ClaimObject /\ NewClaim(r.owner).owners = {r.owner}
      BY <1>1, <2>1, HeadTypes DEF NewClaim, ClaimObject, r
    <3>2. ObjectFits(own, c, NewClaim(r.owner))
      BY <1>4, <2>1, <3>1 DEF RequestFits, ObjectFits
    <3> QED BY <1>6, <2>1, <2>2, <3>1, <3>2
  <2>3. CASE cw' = r /\ changeQueue' = rest /\ UNCHANGED <<claims, claimCache>>
    BY <1>3, <1>4, <1>5, <2>1, <2>3
  <2> QED BY <2>1, <2>2, <2>3
<1>8. CASE AddOwner
  <2> DEFINE d == cw.claim
             new == WithOwner(claims[d], cw.owner)
  <2>1. /\ cw # None /\ claims[d] # None /\ cw' = None /\ UNCHANGED <<claims, claimCache>>
        /\ UNCHANGED changeQueue \/ changeQueue' = Append(changeQueue, UpdatedReq(d, new))
    BY <1>8 DEF AddOwner, Enqueue
  <2>2. /\ d \in Claim /\ cw.owner \in Services /\ claims[d] \in ClaimObject
        /\ {cw.owner} \in own[d]
    <3>1. cw \in Request /\ cw.type = "Added"
      BY <1>1, <2>1
    <3>2. d \in Claim /\ cw.owner \in Services
      BY <3>1 DEF Request
    <3> QED BY <1>1, <1>5, <2>1, <3>1, <3>2 DEF RequestFits
  <2>3. CASE UNCHANGED changeQueue
    BY <1>3, <1>5, <2>1, <2>3
  <2>4. CASE changeQueue' = Append(changeQueue, UpdatedReq(d, new))
    <3>1. new \in ClaimObject /\ new.owners = claims[d].owners \cup {cw.owner}
      BY <2>2 DEF WithOwner, ClaimObject
    <3>2. claims[d].owners \in own[d]
      BY <1>5, <2>1, <2>2 DEF StoreFits, ObjectFits
    <3>3. ObjectFits(own, d, new)
      BY <2>2, <3>1, <3>2 DEF Joins, ObjectFits
    <3>4. /\ UpdatedReq(d, new) \in Request /\ UpdatedReq(d, new).type = "Updated"
          /\ UpdatedReq(d, new).claim = d /\ UpdatedReq(d, new).obj = new
      BY <2>2, <3>1 DEF UpdatedReq, Request
    <3> HIDE DEF d, new
    <3>5. RequestsFit(own, gone, changeQueue')
      BY <1>1, <1>5, <2>4, <3>3, <3>4, AppendFits DEF RequestFits
    <3> QED BY <1>3, <1>5, <2>1, <3>5
  <2> QED BY <2>1, <2>3, <2>4
<1>9. CASE UpdateClaim
  <2>1. /\ changeQueue # <<>> /\ r.type = "Updated" /\ UNCHANGED cw
        /\ \/ changeQueue' = rest /\ UNCHANGED <<claims, claimCache>>
           \/ Current(r) # None /\ Store(c, Current(r), rest)
    BY <1>9 DEF UpdateClaim, r, rest
  <2>2. CASE changeQueue' = rest /\ UNCHANGED <<claims, claimCache>>
    BY <1>3, <1>4, <1>5, <2>1, <2>2
  <2>3. CASE Current(r) # None /\ Store(c, Current(r), rest)
    <3>1. Current(r) \in ClaimObject \cup {None}
      BY <1>9, CurrentTypes DEF UpdateClaim, r
    <3>2. ObjectFits(own, c, Current(r))
      <4>1. CASE r.obj = TheCached
        <5>1. 1 \in DOMAIN changeQueue /\ r = changeQueue[1]
          BY <1>1, <2>1 DEF r
        <5>2. claimCache[c] # None
          BY <2>1, <4>1, <5>1 DEF RequestsOK
        <5>3. Current(r).owners = claimCache[c].owners
          BY <2>3, <4>1, ObjectsAssumption DEF Current
        <5> QED BY <1>4, <1>5, <2>1, <5>2, <5>3 DEF StoreFits, ObjectFits
      <4>2. CASE r.obj # TheCached
        <5>1. Current(r) = r.obj /\ r.obj # Outdated
          BY <2>3, <4>2 DEF Current
        <5> QED BY <1>4, <2>1, <4>2, <5>1 DEF RequestFits
      <4> QED BY <4>1, <4>2
    <3> QED BY <1>6, <2>1, <2>3, <3>1, <3>2
  <2> QED BY <2>1, <2>2, <2>3
<1>10. CASE DeleteClaim
  <2>1. changeQueue # <<>> /\ Store(c, None, rest) /\ UNCHANGED cw
    BY <1>10 DEF DeleteClaim, r, rest
  <2> QED BY <1>6, <2>1 DEF ObjectFits
<1>11. CASE CallFails
  <2>1. changeQueue # <<>> /\ changeQueue' = rest /\ UNCHANGED <<claims, claimCache, cw>>
    BY <1>11 DEF CallFails, rest
  <2> QED BY <1>3, <1>4, <1>5, <2>1
<1>12. CASE GetFails
  <2>1. /\ cw \in Request /\ RequestFits(own, gone, cw) /\ cw' = None
        /\ changeQueue' = Append(changeQueue, cw) /\ UNCHANGED <<claims, claimCache>>
    BY <1>1, <1>5, <1>12 DEF GetFails, Enqueue
  <2>2. RequestsFit(own, gone, changeQueue')
    BY <1>1, <1>5, <2>1, AppendFits
  <2> QED BY <1>3, <1>5, <2>1, <2>2
<1> QED BY <1>7, <1>8, <1>9, <1>10, <1>11, <1>12 DEF ChangeStep, ChangeFault

-----------------------------------------------------------------------------
(* claimWatcher and worker.                                                *)
LEMMA DeliveryFits ==
  ASSUME TypeInv, NEW own, NEW gone, NEW orphans, OwnersFit(own, gone, orphans),
         NEW c \in Claim, DeliverClaim(c)
  PROVE  OwnersFit(own, gone, orphans)'
<1> DEFINE obj == IF claims[c] = None THEN None
                  ELSE [owners |-> claims[c].owners, node |-> claims[c].node, fresh |-> TRUE]
<1>1. /\ claimCache' = [claimCache EXCEPT ![c] = obj] /\ UNCHANGED <<claims, cw>>
      /\ changeQueue' = Outdate(changeQueue, c, TRUE)
      /\ UNCHANGED wk \/ wk' = [wk EXCEPT !.apart = TRUE]
      /\ wk \in WorkerTask /\ changeQueue \in Seq(Request)
      /\ claimCache \in [Claim -> CachedClaim \cup {None}]
  BY DEF DeliverClaim, TypeInv, TypeOK, TypeOKState
<1>2. ObjectFits(own, c, obj)
  BY DEF OwnersFit, StoreFits, ObjectFits
<1> HIDE DEF obj
<1>3. StoreFits(own, claimCache')
  BY <1>1, <1>2 DEF OwnersFit, StoreFits
<1>4. RequestsFit(own, gone, changeQueue')
  BY <1>1, OutdateFits DEF OwnersFit
<1>5. wk'.pc = wk.pc /\ wk'.key = wk.key
  BY <1>1 DEF WorkerTask
<1> QED BY <1>1, <1>3, <1>4, <1>5 DEF OwnersFit, OrphanFits

\* The owners that are alive stay; a claim that has none left is an orphan.
LEMMA VerifyFits ==
  ASSUME TypeInv, NEW own, NEW gone, NEW orphans, OwnersFit(own, gone, orphans),
         Told(own, gone, orphans), NEW asked, VerifyClaim(asked)
  PROVE  OwnersFit(own, gone, orphans)'
<1> DEFINE c == wk.key
           obj == claimCache[c]
           owners == IF asked THEN Alive(obj.owners) ELSE obj.owners
           new == [claimCache[c] EXCEPT !.owners = owners]
<1>1. /\ wk.pc = "verify" /\ UNCHANGED <<claims, cw>> /\ c \in Claim /\ wk \in WorkerTask
      /\ changeQueue \in Seq(Request) /\ claimCache \in [Claim -> CachedClaim \cup {None}]
      /\ \/ UNCHANGED <<claimCache, changeQueue>>
         \/ /\ obj # None /\ owners # {}
            /\ claimCache' = [claimCache EXCEPT ![c] = new]
            /\ changeQueue' = Append(changeQueue, UpdatedReq(c, TheCached))
      /\ \/ wk' = IdleWorker
         \/ wk' = [wk EXCEPT !.pc = "orphan"] /\ obj # None /\ owners = {}
         \/ wk' = [wk EXCEPT !.pc = "assign"]
  BY DEF VerifyClaim, Finished, Enqueue, TypeInv, TypeOK, TypeOKState, WorkerTaskOK
<1>2. obj # None => obj.owners \in own[c]
  BY <1>1 DEF OwnersFit, StoreFits, ObjectFits
<1>3. obj # None => IF owners = {} THEN c[1] \in orphans ELSE owners \in own[c]
  <2>1. obj.owners = {} => Alive(obj.owners) = {}
    BY DEF Alive
  <2> QED BY <1>1, <1>2, <2>1 DEF Told
<1> HIDE DEF owners
<1>4. OrphanFits(orphans, wk')
  <2>1. CASE wk' = [wk EXCEPT !.pc = "orphan"] /\ obj # None /\ owners = {}
    <3>1. wk'.key = c
      BY <1>1, <2>1 DEF WorkerTask
    <3> QED BY <1>3, <2>1, <3>1 DEF OrphanFits
  <2>2. CASE wk' = IdleWorker \/ wk' = [wk EXCEPT !.pc = "assign"]
    <3>1. wk'.pc # "orphan"
      BY <1>1, <2>2 DEF IdleWorker, WorkerTask
    <3> QED BY <3>1 DEF OrphanFits
  <2> QED BY <1>1, <2>1, <2>2
<1>5. CASE UNCHANGED <<claimCache, changeQueue>>
  BY <1>1, <1>4, <1>5 DEF OwnersFit
<1>6. CASE /\ obj # None /\ owners # {}
           /\ claimCache' = [claimCache EXCEPT ![c] = new]
           /\ changeQueue' = Append(changeQueue, UpdatedReq(c, TheCached))
  <2>1. ObjectFits(own, c, new)
    <3>1. obj \in CachedClaim
      BY <1>1, <1>6
    <3>2. new.owners = owners
      BY <3>1 DEF CachedClaim
    <3> QED BY <1>3, <1>6, <3>2 DEF ObjectFits
  <2> HIDE DEF new
  <2>2. StoreFits(own, claimCache')
    BY <1>1, <1>6, <2>1 DEF OwnersFit, StoreFits
  <2>3. RequestsFit(own, gone, changeQueue')
    BY <1>1, <1>6, CachedRequest, AppendFits DEF OwnersFit
  <2> QED BY <1>1, <1>4, <2>2, <2>3 DEF OwnersFit
<1> QED BY <1>1, <1>5, <1>6

LEMMA AssignFits ==
  ASSUME TypeInv, NEW own, NEW gone, NEW orphans, OwnersFit(own, gone, orphans), AssignNode
  PROVE  OwnersFit(own, gone, orphans)'
<1> DEFINE c == wk.key
           new == [claimCache[c] EXCEPT !.node = GetNode(Listed \cap live)]
<1>1. /\ wk.pc = "assign" /\ UNCHANGED <<claims, cw>> /\ wk' = IdleWorker
      /\ changeQueue \in Seq(Request) /\ claimCache \in [Claim -> CachedClaim \cup {None}]
      /\ \/ UNCHANGED <<claimCache, changeQueue>>
         \/ UNCHANGED claimCache /\ changeQueue' = Append(changeQueue, UpdatedReq(c, Outdated))
         \/ /\ ~wk.apart /\ claimCache' = [claimCache EXCEPT ![c] = new]
            /\ changeQueue' = Append(changeQueue, UpdatedReq(c, TheCached))
      /\ c \in Claim /\ (~wk.apart => claimCache[c] # None)
  BY DEF AssignNode, Finished, Enqueue, TypeInv, TypeOK, TypeOKState, WorkerTaskOK
<1>2. ASSUME NEW o \in {TheCached, Outdated}, changeQueue' = Append(changeQueue, UpdatedReq(c, o))
      PROVE  RequestsFit(own, gone, changeQueue')
  BY <1>1, <1>2, CachedRequest, AppendFits DEF OwnersFit
<1>3. OrphanFits(orphans, wk')
  BY <1>1 DEF OrphanFits, IdleWorker
<1>4. CASE UNCHANGED <<claimCache, changeQueue>>
  BY <1>1, <1>3, <1>4 DEF OwnersFit
<1>5. CASE UNCHANGED claimCache /\ changeQueue' = Append(changeQueue, UpdatedReq(c, Outdated))
  BY <1>1, <1>2, <1>3, <1>5 DEF OwnersFit
<1>6. CASE /\ ~wk.apart /\ claimCache' = [claimCache EXCEPT ![c] = new]
           /\ changeQueue' = Append(changeQueue, UpdatedReq(c, TheCached))
  <2>1. claimCache[c] \in CachedClaim /\ claimCache[c] # None
    BY <1>1, <1>6
  <2>2. new.owners = claimCache[c].owners
    BY <2>1 DEF CachedClaim
  <2> HIDE DEF new
  <2>3. StoreFits(own, claimCache')
    BY <1>1, <1>6, <2>1, <2>2 DEF OwnersFit, StoreFits, ObjectFits
  <2> QED BY <1>1, <1>2, <1>3, <1>6, <2>3 DEF OwnersFit
<1> QED BY <1>1, <1>4, <1>5, <1>6

LEMMA WorkerFits ==
  ASSUME TypeInv, NEW own, NEW gone, NEW orphans, OwnersFit(own, gone, orphans),
         Told(own, gone, orphans), ClaimStep \/ ClaimFault
  PROVE  OwnersFit(own, gone, orphans)'
<1>1. CASE TakeClaim \/ FreeOrphanAddress(TRUE) \/ FreeOrphanAddress(FALSE) \/ NodesUnread
  <2>1. UNCHANGED <<claims, claimCache, changeQueue, cw>>
    BY <1>1 DEF TakeClaim, FreeOrphanAddress, NodesUnread
  <2>2. wk' = IdleWorker \/ wk' = [IdleWorker EXCEPT !.pc = "verify", !.key = NextItem(claimQueue)]
    BY <1>1 DEF TakeClaim, FreeOrphanAddress, NodesUnread, Finished
  <2>3. IdleWorker.pc = "idle" /\ [IdleWorker EXCEPT !.pc = "verify", !.key = NextItem(claimQueue)].pc = "verify"
    BY DEF IdleWorker
  <2>4. wk'.pc # "orphan"
    BY <2>2, <2>3
  <2> QED BY <2>1, <2>4 DEF OwnersFit, OrphanFits
<1>2. CASE VerifyClaim(TRUE) \/ VerifyClaim(FALSE)
  BY <1>2, VerifyFits
<1>3. ASSUME NEW copy \in PoolCopy, DropOrphan(copy) PROVE OwnersFit(own, gone, orphans)'
  <2> DEFINE r == DeletedReq(<<wk.key[1], MaskOf(copy, wk.key[1])>>)
  <2>1. /\ wk.pc = "orphan" /\ UNCHANGED <<claims, claimCache, cw>>
        /\ changeQueue' = Append(changeQueue, r)
        /\ wk' = IdleWorker \/ wk' = [wk EXCEPT !.pc = "free", !.copy = copy]
        /\ wk.key \in Claim /\ wk \in WorkerTask /\ changeQueue \in Seq(Request)
    BY <1>3 DEF DropOrphan, Finished, Enqueue, TypeInv, TypeOK, TypeOKState, WorkerTaskOK
  <2>2. wk.key[1] \in IPs
    BY <2>1 DEF Claim
  <2>3. r \in Request /\ r.type = "Deleted" /\ r.claim[1] = wk.key[1]
    <3>1. <<wk.key[1], MaskOf(copy, wk.key[1])>> \in Claim
      BY <2>2, MaskType
    <3> QED BY <3>1 DEF DeletedReq, Request
  <2> HIDE DEF r
  <2>4. RequestFits(own, gone, r)
    BY <2>1, <2>3 DEF RequestFits, OwnersFit, OrphanFits, Told
  <2>5. RequestsFit(own, gone, changeQueue')
    BY <2>1, <2>3, <2>4, AppendFits DEF OwnersFit
  <2>6. wk'.pc # "orphan"
    <3>1. CASE wk' = IdleWorker
      BY <3>1 DEF IdleWorker
    <3>2. CASE wk' = [wk EXCEPT !.pc = "free", !.copy = copy]
      BY <2>1, <3>2 DEF WorkerTask
    <3> QED BY <2>1, <3>1, <3>2
  <2> QED BY <2>1, <2>5, <2>6 DEF OwnersFit, OrphanFits
<1>4. CASE AssignNode
  BY <1>4, AssignFits
<1>5. PoolsRead \in PoolCopy /\ NoPools \in PoolCopy
  BY PoolCopies DEF TypeInv, TypeOK, TypeOKState
<1> QED BY <1>1, <1>2, <1>3, <1>4, <1>5 DEF ClaimStep, ClaimFault


(* The requests of serviceWatcher.                                         *)

\* Requests that claims be made, for the addresses of the service and for
\* the one it is offered; none of its own that no pool allocated is left out.
LEMMA NewRequests ==
  ASSUME TypeInv, NEW copy \in PoolCopy, ListForNew(copy)
  PROVE  \E new \in Seq(Request) :
           /\ changeQueue' = changeQueue \o new
           /\ \A k \in DOMAIN new :
                /\ new[k].type = "Added" /\ new[k].owner = svc.name
                /\ \/ new[k].claim[1] \in AddressesOf(svcCache[svc.name])
                   \/ /\ svcCache[svc.name].want # "none"
                      /\ \E p \in Pools : new[k].claim[1] \in OfferedBy(p)
           /\ \A ip \in AddressesOf(svcCache[svc.name]) : PoolsOf(copy, ip) = {} =>
                \E k \in DOMAIN new : new[k].claim = <<ip, DefaultMask>>
<1> DEFINE obj == svcCache[svc.name]
           unpooled == {ip \in IPs : PoolsOf(copy, ip) = {}}
           given == Among(obj.ips, unpooled)
           requests == [k \in DOMAIN given |-> AddedReq(<<given[k], DefaultMask>>, svc.name)]
           auto == AddedReq(<<FreeIP(copy), PoolMask[FreePool(copy)]>>, svc.name)
<1>1. /\ svc.pc = "list" /\ changeQueue \in Seq(Request)
      /\ \/ changeQueue' = changeQueue \o requests
         \/ /\ PoolsWithFree(copy) # {} /\ obj.want # "none"
            /\ changeQueue' = Append(changeQueue \o requests, auto)
  <2> HIDE DEF requests
  <2> QED BY DEF ListForNew, requests, TypeInv, TypeOK, TypeOKState
<1>2. svc.name \in Services /\ obj \in Service
  BY <1>1 DEF TypeInv, TypeOK, TypeOKState, ServiceTaskOK
<1>3. obj.ips \in Seq(IPs) /\ AddressesOf(obj) = RangeOf(obj.ips) /\ AddressesOf(obj) \subseteq IPs
  BY <1>2, ServiceAddresses
<1> HIDE DEF unpooled, obj
<1>4. given \in Seq(IPs) /\ RangeOf(given) = AddressesOf(obj) \cap unpooled
  BY <1>3, AmongType, AmongKeeps
<1> HIDE DEF given
<1>5. /\ requests \in Seq(Request) /\ DOMAIN requests = DOMAIN given
      /\ \A k \in DOMAIN given : /\ requests[k].type = "Added" /\ requests[k].owner = svc.name
                                 /\ requests[k].claim = <<given[k], DefaultMask>>
                                 /\ given[k] \in AddressesOf(obj)
  <2>1. ASSUME NEW k \in DOMAIN given
        PROVE  AddedReq(<<given[k], DefaultMask>>, svc.name) \in Request /\ given[k] \in AddressesOf(obj)
    <3>1. given[k] \in IPs /\ given[k] \in AddressesOf(obj)
      BY <1>4 DEF RangeOf
    <3> QED BY <1>2, <3>1 DEF AddedReq, Request, Claim, Masks
  <2>2. DOMAIN given = 1..Len(given) /\ Len(given) \in Nat
    BY <1>4
  <2>3. requests \in Seq(Request)
    BY <2>1, <2>2
  <2> QED BY <2>1, <2>3 DEF AddedReq
<1> HIDE DEF requests
<1>6. \A ip \in AddressesOf(obj) : PoolsOf(copy, ip) = {} =>
        \E k \in DOMAIN requests : requests[k].claim = <<ip, DefaultMask>>
  <2> SUFFICES ASSUME NEW ip \in AddressesOf(obj), PoolsOf(copy, ip) = {}
               PROVE  \E k \in DOMAIN requests : requests[k].claim = <<ip, DefaultMask>>
    OBVIOUS
  <2>1. ip \in RangeOf(given)
    BY <1>3, <1>4 DEF unpooled
  <2>2. PICK k \in DOMAIN given : ip = given[k]
    BY <2>1 DEF RangeOf
  <2> QED BY <1>5, <2>2
<1>7. CASE changeQueue' = changeQueue \o requests
  <2>1. \A k \in DOMAIN requests :
          /\ requests[k].type = "Added" /\ requests[k].owner = svc.name
          /\ requests[k].claim[1] \in AddressesOf(obj)
    BY <1>5
  <2> QED BY <1>5, <1>6, <1>7, <2>1 DEF obj
<1>8. CASE /\ PoolsWithFree(copy) # {} /\ obj.want # "none"
           /\ changeQueue' = Append(changeQueue \o requests, auto)
  <2> DEFINE new == Append(requests, auto)
  <2>1. /\ FreePool(copy) \in Pools /\ FreeIP(copy) \in OfferedBy(FreePool(copy))
        /\ FreeIP(copy) \in IPs
    BY <1>8, OfferIsFree
  <2>2. /\ auto \in Request /\ auto.type = "Added" /\ auto.owner = svc.name
        /\ auto.claim[1] = FreeIP(copy)
    BY <1>2, <2>1 DEF AddedReq, Request, Claim, Masks
  <2> HIDE DEF auto
  <2>3. new \in Seq(Request) /\ changeQueue' = changeQueue \o new
    <3>1. Append(requests, auto) \in Seq(Request)
      BY <1>5, <2>2
    <3>2. changeQueue' = changeQueue \o Append(requests, auto)
      BY <1>1, <1>5, <1>8, <2>2, <3>1, AppendBehind
    <3> QED BY <3>1, <3>2
  <2>4. /\ \A k \in DOMAIN new : (k \in DOMAIN requests /\ new[k] = requests[k]) \/ new[k] = auto
        /\ \A k \in DOMAIN requests : k \in DOMAIN new /\ new[k] = requests[k]
    BY <1>5, <2>2
  <2> HIDE DEF new
  <2>5. ASSUME NEW k \in DOMAIN new
        PROVE  /\ new[k].type = "Added" /\ new[k].owner = svc.name
               /\ \/ new[k].claim[1] \in AddressesOf(obj)
                  \/ obj.want # "none" /\ \E p \in Pools : new[k].claim[1] \in OfferedBy(p)
    <3>1. CASE k \in DOMAIN requests /\ new[k] = requests[k]
      BY <1>5, <3>1
    <3>2. CASE new[k] = auto
      BY <1>8, <2>1, <2>2, <3>2
    <3> QED BY <2>4, <3>1, <3>2
  <2>6. \A ip \in AddressesOf(obj) : PoolsOf(copy, ip) = {} =>
          \E k \in DOMAIN new : new[k].claim = <<ip, DefaultMask>>
    BY <1>6, <2>4
  <2> QED BY <2>3, <2>5, <2>6 DEF obj
<1> QED BY <1>1, <1>7, <1>8

LEMMA WatcherFits ==
  ASSUME TypeInv, NEW own, NEW gone, NEW orphans, OwnersFit(own, gone, orphans),
         Told(own, gone, orphans), ServiceStep \/ ServiceFault
  PROVE  OwnersFit(own, gone, orphans)'
<1>1. wk \in WorkerTask /\ changeQueue \in Seq(Request)
  BY DEF TypeInv, TypeOK, TypeOKState
<1>2. ASSUME UNCHANGED <<claims, claimCache, cw>>,
             UNCHANGED wk \/ (\E p : wk' = [wk EXCEPT !.copy = Spoil(@, p)]),
             RequestsFit(own, gone, changeQueue')
      PROVE  OwnersFit(own, gone, orphans)'
  <2>1. wk'.pc = wk.pc /\ wk'.key = wk.key
    BY <1>1, <1>2 DEF WorkerTask
  <2> QED BY <1>2, <2>1 DEF OwnersFit, OrphanFits
<1>3. CASE \/ \E s \in Services : Deliver(s)
           \/ AllocateInPool(TRUE) \/ AllocateInPool(FALSE)
           \/ UpdateService(TRUE) \/ UpdateService(FALSE) \/ UpdateStatus(TRUE) \/ UpdateStatus(FALSE)
           \/ ListForOld(PoolsRead) \/ ListForOld(NoPools)
  <2>1. /\ UNCHANGED <<claims, claimCache, cw, changeQueue>>
        /\ UNCHANGED wk \/ \E p : wk' = [wk EXCEPT !.copy = Spoil(@, p)]
    BY <1>3 DEF Deliver, AllocateInPool, UpdateService, UpdateStatus, ListForOld
  <2> QED BY <1>2, <2>1 DEF OwnersFit
<1>4. ASSUME NEW copy \in PoolCopy, ListForNew(copy) PROVE OwnersFit(own, gone, orphans)'
  <2>1. svc.pc = "list" /\ UNCHANGED <<claims, claimCache, cw, wk>>
    BY <1>4 DEF ListForNew
  <2>2. PICK new \in Seq(Request) :
          /\ changeQueue' = changeQueue \o new
          /\ \A k \in DOMAIN new :
               /\ new[k].type = "Added" /\ new[k].owner = svc.name
               /\ \/ new[k].claim[1] \in AddressesOf(svcCache[svc.name])
                  \/ /\ svcCache[svc.name].want # "none"
                     /\ \E p \in Pools : new[k].claim[1] \in OfferedBy(p)
    BY <1>4, NewRequests
  <2>3. ASSUME NEW k \in DOMAIN new PROVE RequestFits(own, gone, new[k])
    <3>1. new[k].claim \in Claim
      BY DEF Request
    <3>2. {svc.name} \in own[new[k].claim]
      BY <2>1, <2>2, <3>1 DEF Told
    <3> QED BY <2>2, <3>2 DEF RequestFits
  <2>4. RequestsFit(own, gone, changeQueue')
    BY <1>1, <2>2, <2>3, ConcatFits DEF OwnersFit, RequestsFit
  <2> QED BY <1>2, <2>1, <2>4
<1>5. ASSUME NEW reached, FreeAddress(reached) PROVE OwnersFit(own, gone, orphans)'
  <2> DEFINE ip == Head(svc.todo)
             r == DeletedReq(<<ip, MaskOf(svc.copy, ip)>>)
  <2>1. /\ svc.pc = "free" /\ UNCHANGED <<claims, claimCache, cw>>
        /\ changeQueue' = Append(changeQueue, r)
        /\ UNCHANGED wk \/ \E p : wk' = [wk EXCEPT !.copy = Spoil(@, p)]
    BY <1>5 DEF FreeAddress, Enqueue
  <2>2. svc.todo \in Seq(IPs) /\ svc.todo # <<>> /\ svc.copy \in PoolCopy
    BY <2>1 DEF TypeInv, TypeOK, ServiceTaskOK, ServiceTask
  <2>3. ip \in IPs /\ ip \in RangeOf(svc.todo)
    BY <2>2 DEF RangeOf
  <2>4. r \in Request /\ r.type = "Deleted" /\ r.claim[1] = ip
    <3>1. <<ip, MaskOf(svc.copy, ip)>> \in Claim
      BY <2>2, <2>3, MaskType
    <3> QED BY <3>1 DEF DeletedReq, Request
  <2> HIDE DEF r, ip
  <2>5. RequestFits(own, gone, r)
    BY <2>3, <2>4 DEF RequestFits, Told
  <2>6. RequestsFit(own, gone, changeQueue')
    BY <1>1, <2>1, <2>4, <2>5, AppendFits DEF OwnersFit
  <2> QED BY <1>2, <2>1, <2>6
<1>6. PoolsRead \in PoolCopy /\ NoPools \in PoolCopy
  BY PoolCopies DEF TypeInv, TypeOK, TypeOKState
<1> QED BY <1>3, <1>4, <1>5, <1>6 DEF ServiceStep, ServiceFault

LEMMA OwnersFitStep ==
  ASSUME TypeInv, RequestsOK, NEW own, NEW gone, NEW orphans, Joins(own),
         OwnersFit(own, gone, orphans), Told(own, gone, orphans), [Next]_vars
  PROVE  OwnersFit(own, gone, orphans)'
<1>1. ASSUME UNCHANGED <<claims, claimCache, changeQueue, cw, wk>>
      PROVE  OwnersFit(own, gone, orphans)'
  BY <1>1 DEF OwnersFit
<1>2. ASSUME Restarted PROVE OwnersFit(own, gone, orphans)'
  <2>1. /\ UNCHANGED claims /\ claimCache' = NoClaims /\ changeQueue' = <<>> /\ cw' = None
        /\ wk' = IdleWorker
    BY <1>2 DEF Restarted
  <2>2. StoreFits(own, claimCache')
    BY <2>1 DEF StoreFits, ObjectFits, NoClaims
  <2> QED BY <2>1, <2>2 DEF OwnersFit, RequestsFit, OrphanFits, IdleWorker
<1>3. CASE UNCHANGED vars
  BY <1>1, <1>3 DEF vars, schedVars
<1>4. CASE \E s \in Services : UserChange(s)
  BY <1>1, <1>4 DEF UserChange
<1>5. CASE \E n \in Nodes : Heartbeat(n) \/ NodeFails(n) \/ NodeStarts(n)
  BY <1>1, <1>5 DEF Heartbeat, NodeFails, NodeStarts, schedVars
<1>6. CASE StartWorkers \/ SchedulerFails \/ WatchBreaks
  BY <1>1, <1>2, <1>6 DEF StartWorkers, SchedulerFails, WatchBreaks
<1>7. CASE Goroutines
  BY <1>7, WatcherFits, WorkerFits, ChangesFit DEF Goroutines
<1>8. CASE CallFault
  <2>1. ClaimsUnlisted => OwnersFit(own, gone, orphans)'
    BY <1>1 DEF ClaimsUnlisted
  <2> QED BY <1>8, <2>1, WatcherFits, WorkerFits, ChangesFit DEF CallFault
<1>9. CASE \E c \in Claim : ClaimEvent(c)
  BY <1>9, DeliveryFits DEF ClaimEvent
<1>10. CASE MonitorTick \/ Monitor \/ Resync
  BY <1>1, <1>10 DEF MonitorTick, Monitor, Resync, Tick, MarkNode, ResyncClaims
<1> QED BY <1>3, <1>4, <1>5, <1>6, <1>7, <1>8, <1>9, <1>10 DEF Next

\* Whatever fits fits where more is allowed.
LEMMA OwnersFitLater ==
  ASSUME TypeInv', NEW own, NEW gone, NEW orphans, OwnersFit(own, gone, orphans)',
         NEW own1, NEW gone1, NEW orphans1,
         \A c \in Claim : own[c] \subseteq own1[c], gone \subseteq gone1, orphans \subseteq orphans1
  PROVE  /\ StoreFits(own1, claims') /\ StoreFits(own1, claimCache')
         /\ RequestsFit(own1, gone1, changeQueue')
         /\ cw' # None => RequestFits(own1, gone1, cw')
         /\ OrphanFits(orphans1, wk')
<1>1. changeQueue' \in Seq(Request) /\ cw' \in Request \cup {None}
  BY DEF TypeInv, TypeOK, TypeOKState
<1> QED BY <1>1, FitLater DEF OwnersFit, OrphanFits

-----------------------------------------------------------------------------
(* The claims of the given addresses.  A claim, a copy of it or an object  *)
(* that was read has the one owner, and the address has been in place; the *)
(* deletion is asked for once it is over.                                  *)
OwnersOf(home, started) ==
  [c \in Claim |-> IF c[1] \notin DOMAIN home THEN SUBSET Services
                   ELSE IF c[1] \in started THEN {{home[c[1]]}} ELSE {}]
Gone(home, over) == IPs \ (DOMAIN home \ over)
ClaimsFit(home) ==
  OwnersFit(OwnersOf(home, Started(home)), Gone(home, Over(home)), Gone(home, Over(home)))

LEMMA ServicesTell ==
  ASSUME TypeInv, NEW home \in Homes, ServicesFit(home),
         NEW own, own = OwnersOf(home, Started(home)), NEW gone, gone = Gone(home, Over(home))
  PROVE  Told(own, gone, gone) /\ Joins(own)
<1>1. \A ip \in DOMAIN home : home[ip] \in Services
  BY DEF Homes
<1>2. ASSUME NEW s \in Services, NEW ip \in GivenOf(home, svcCache[s])
      PROVE  home[ip] = s /\ ip \in Started(home)
  BY <1>2, KnownIsStarted
<1>3. ASSUME NEW ip \in Started(home), services[home[ip]] = None PROVE ip \in Over(home)
  <2>1. ip \in DOMAIN home /\ ip \notin Placed(home)
    BY <1>3, ServiceAddresses DEF Started, Placed
  <2> QED BY <2>1 DEF Started, Over
<1>4. Joins(own)
  BY DEF Joins, OwnersOf
<1>5. RangeOf(svc.todo) \subseteq gone
  <2>1. svc.todo \in Seq(IPs)
    BY DEF TypeInv, TypeOK, ServiceTask
  <2>2. RangeOf(svc.todo) \subseteq IPs
    BY <2>1 DEF RangeOf
  <2>3. RangeOf(svc.todo) \cap DOMAIN home \subseteq Over(home)
    BY DEF ServicesFit, HandlerFits, HandlerFitsOf
  <2> QED BY <2>2, <2>3 DEF Gone
<1>6. ASSUME NEW c \in Claim, NEW owners \in own[c]
      PROVE  IF Alive(owners) = {} THEN c[1] \in gone ELSE Alive(owners) \in own[c]
  <2>1. c[1] \in IPs /\ Alive(owners) \subseteq owners
    BY DEF Claim, Alive
  <2>2. CASE c[1] \notin DOMAIN home
    BY <1>6, <2>1, <2>2 DEF OwnersOf, Gone
  <2>3. CASE c[1] \in DOMAIN home
    <3>1. c[1] \in Started(home) /\ owners = {home[c[1]]}
      BY <1>6, <2>3 DEF OwnersOf
    <3>2. CASE Alive(owners) = {}
      <4>1. services[home[c[1]]] = None
        BY <3>1, <3>2 DEF Alive
      <4> QED BY <1>3, <2>1, <3>1, <3>2, <4>1 DEF Gone
    <3>3. CASE Alive(owners) # {}
      BY <1>6, <2>1, <3>1, <3>3
    <3> QED BY <3>2, <3>3
  <2> QED BY <2>2, <2>3
<1>7. ASSUME svc.pc = "list", NEW c \in Claim,
             \/ c[1] \in AddressesOf(svcCache[svc.name])
             \/ svcCache[svc.name].want # "none" /\ \E p \in Pools : c[1] \in OfferedBy(p)
      PROVE  {svc.name} \in own[c]
  <2>1. svc.name \in Services /\ svcCache[svc.name] # None
    BY <1>7 DEF TypeInv, ServiceTaskOK
  <2>2. CASE c[1] \notin DOMAIN home
    BY <2>1, <2>2 DEF OwnersOf
  <2>3. CASE c[1] \in DOMAIN home
    <3>1. c[1] \in GivenOf(home, svcCache[svc.name])
      <4>1. svcCache[svc.name].want # "none" => Apart(home)
        BY <2>1, AskersApart
      <4> QED BY <1>7, <2>3, <4>1 DEF GivenOf, Apart
    <3>2. home[c[1]] = svc.name /\ c[1] \in Started(home)
      BY <1>2, <2>1, <3>1
    <3> QED BY <2>3, <3>2 DEF OwnersOf
  <2> QED BY <2>2, <2>3
<1> QED BY <1>4, <1>5, <1>6, <1>7 DEF Told

-----------------------------------------------------------------------------
(* The invariant.  home does not change: the users' plans say whose every  *)
(* address is.                                                             *)
GivenFits(home) == ServicesFit(home) /\ ClaimsFit(home)

LEMMA GivenFitsStep ==
  ASSUME TypeInv, RequestsOK, NEW home \in Homes, GivenFits(home), [Next]_vars
  PROVE  GivenFits(home)' /\ Onward(home)
<1>1. ServicesFit(home)' /\ Onward(home)
  BY ServicesStep DEF GivenFits, ServicesKept
<1>2. \E own, gone : own = OwnersOf(home, Started(home)) /\ gone = Gone(home, Over(home))
  OBVIOUS
<1>3. PICK own, gone : own = OwnersOf(home, Started(home)) /\ gone = Gone(home, Over(home))
  BY <1>2
<1>4. OwnersFit(own, gone, gone) /\ Told(own, gone, gone) /\ Joins(own)
  BY <1>3, ServicesTell DEF GivenFits, ClaimsFit
<1>5. OwnersFit(own, gone, gone)'
  BY <1>4, OwnersFitStep
<1>6. /\ \A c \in Claim : own[c] \subseteq OwnersOf(home, Started(home)')[c]
      /\ gone \subseteq Gone(home, Over(home)')
  BY <1>1, <1>3 DEF Onward, OwnersOf, Gone
<1>7. ClaimsFit(home)'
  <2>1. TypeInv'
    BY StepTypes
  <2> DEFINE own1 == OwnersOf(home, Started(home)')
             gone1 == Gone(home, Over(home)')
  <2> HIDE DEF own1, gone1
  <2>2. /\ StoreFits(own1, claims') /\ StoreFits(own1, claimCache')
        /\ RequestsFit(own1, gone1, changeQueue')
        /\ cw' # None => RequestFits(own1, gone1, cw')
        /\ OrphanFits(gone1, wk')
    BY <1>5, <1>6, <2>1, OwnersFitLater DEF own1, gone1
  <2> QED BY <2>2 DEF ClaimsFit, OwnersFit, own1, gone1
<1> QED BY <1>1, <1>7 DEF GivenFits

LEMMA InitFits ==
  ASSUME \A scenario \in Scenarios : GivenForGood(scenario.plan), Init
  PROVE  \E home \in Homes : GivenFits(home)
<1>1. PICK home \in Homes : \A s \in Services : Planned(home, s, None, plan[s])
  BY DEF Init, GivenForGood
<1>2. /\ services = NoServices /\ svcFeed = NoEvents /\ svcCache = NoServices /\ svc = NoTask
      /\ claims = NoClaims /\ claimCache = NoClaims /\ wk = IdleWorker
      /\ changeQueue = <<>> /\ cw = None /\ phase = "waiting"
  BY DEF Init
<1>3. PlansFit(home)
  BY <1>1, <1>2 DEF PlansFit, NoServices
<1>4. ObjectsFit(home) /\ FeedFits(home)
  BY <1>2 DEF ObjectsFit, ObjectsFitOf, FeedFits, NoServices, NoEvents
<1>5. HandlerFits(home)
  BY <1>2 DEF HandlerFits, HandlerFitsOf, NoTask, RangeOf
<1>6. ClaimsFit(home)
  BY <1>2 DEF ClaimsFit, OwnersFit, StoreFits, ObjectFits, RequestsFit, OrphanFits, NoClaims,
              IdleWorker
<1> QED BY <1>3, <1>4, <1>5, <1>6 DEF GivenFits, ServicesFit

LEMMA GivenFitsAlways ==
  ASSUME \A scenario \in Scenarios : GivenForGood(scenario.plan)
  PROVE  Spec => [](\E home \in Homes : GivenFits(home))
<1> DEFINE Inv == \E home \in Homes : GivenFits(home)
<1>1. Init => Inv
  BY InitFits
<1>2. TypeInv /\ Consistent /\ Inv /\ [Next]_vars => Inv'
  <2> SUFFICES ASSUME TypeInv, Consistent, Inv, [Next]_vars PROVE Inv'
    OBVIOUS
  <2>1. PICK home \in Homes : GivenFits(home)
    OBVIOUS
  <2>2. GivenFits(home)'
    BY <2>1, GivenFitsStep DEF Consistent
  <2>3. home \in Homes'
    BY DEF Homes
  <2> QED BY <2>2, <2>3
<1> HIDE DEF Inv
<1>3. Spec => []Inv
  BY <1>1, <1>2, InvIsInvariant, PTL DEF Spec
<1> QED BY <1>3 DEF Inv

\* The deletion of a claim was asked for, and carried out by DeleteClaim.
LEMMA Deletion ==
  ASSUME TypeInv, RequestsOK, [Next]_vars, NEW c \in Claim, claims[c] # None, claims'[c] = None
  PROVE  /\ UNCHANGED services /\ changeQueue # <<>>
         /\ Head(changeQueue).type = "Deleted" /\ Head(changeQueue).claim = c
<1> DEFINE r == Head(changeQueue)
<1>1. claims \in [Claim -> ClaimObject \cup {None}]
  BY DEF TypeInv, TypeOK, TypeOKState
<1>2. claims' # claims
  OBVIOUS
<1>3. ~UNCHANGED vars
  BY <1>2 DEF vars, schedVars
<1>4. ~(\E s \in Services : UserChange(s))
  BY <1>2 DEF UserChange
<1>5. ~(\E n \in Nodes : Heartbeat(n) \/ NodeFails(n) \/ NodeStarts(n))
  BY <1>2 DEF Heartbeat, NodeFails, NodeStarts, schedVars
<1>6. ~(StartWorkers \/ SchedulerFails \/ WatchBreaks)
  BY <1>2 DEF StartWorkers, SchedulerFails, WatchBreaks, Restarted
<1>7. ~(ServiceStep \/ ServiceFault)
  BY <1>2 DEF ServiceStep, ServiceFault, Deliver, ListForNew, AllocateInPool, UpdateService,
              UpdateStatus, ListForOld, FreeAddress
<1>8. ~(ClaimStep \/ ClaimFault)
  BY <1>2 DEF ClaimStep, ClaimFault, TakeClaim, VerifyClaim, DropOrphan, FreeOrphanAddress,
              AssignNode, NodesUnread
<1>9. ~(\E d \in Claim : ClaimEvent(d)) /\ ~(MonitorTick \/ Monitor \/ Resync) /\ ~ClaimsUnlisted
  BY <1>2 DEF ClaimEvent, DeliverClaim, MonitorTick, Monitor, Resync, Tick, MarkNode,
              ResyncClaims, ClaimsUnlisted
<1>10. ~ChangeFault /\ ~AddOwner
  BY <1>2 DEF ChangeFault, CallFails, GetFails, AddOwner
<1>11. CreateClaim \/ UpdateClaim \/ DeleteClaim
  BY <1>3, <1>4, <1>5, <1>6, <1>7, <1>8, <1>9, <1>10 DEF Next, Goroutines, CallFault, ChangeStep
<1>12. changeQueue # <<>> /\ UNCHANGED services /\ changeQueue \in Seq(Request)
  BY <1>11 DEF CreateClaim, UpdateClaim, DeleteClaim, TypeInv, TypeOK, TypeOKState
<1>13. r.claim \in Claim
  BY <1>12, HeadTypes
\* Only a store of None takes a claim away.
<1>14. ASSUME NEW obj, NEW queue, Store(r.claim, obj, queue) PROVE r.claim = c /\ obj = None
  BY <1>1, <1>2, <1>13, <1>14 DEF Store
<1>15. ~CreateClaim
  <2> SUFFICES ASSUME CreateClaim PROVE FALSE
    OBVIOUS
  <2>1. Store(r.claim, NewClaim(r.owner), Tail(changeQueue)) /\ r.type = "Added"
    BY <1>2 DEF CreateClaim
  <2>2. NewClaim(r.owner) \in ClaimObject
    BY <1>12, <2>1, HeadTypes DEF NewClaim, ClaimObject
  <2> QED BY <1>14, <2>1, <2>2, ObjectsAssumption
<1>16. ~UpdateClaim
  BY <1>2, <1>14 DEF UpdateClaim
<1> QED BY <1>11, <1>12, <1>14, <1>15, <1>16 DEF DeleteClaim

-----------------------------------------------------------------------------
(* The addresses of the services that users give all their addresses.      *)
GivenInUse == UNION {Uses(s) : s \in {t \in Services : services[t] # None /\ services[t].want = "none"}}

LEMMA GivenStays ==
  ASSUME TypeInv, RequestsOK, NEW home \in Homes, GivenFits(home), [Next]_vars,
         NEW c \in Claim, claims[c] # None, claims'[c] = None
  PROVE  c[1] \notin GivenInUse
<1> SUFFICES ASSUME NEW s \in Services, services[s] # None, services[s].want = "none",
                    c[1] \in RangeOf(services[s].ips)
             PROVE  FALSE
  BY DEF GivenInUse, Uses
<1>1. changeQueue # <<>> /\ Head(changeQueue).type = "Deleted" /\ Head(changeQueue).claim = c
  BY Deletion
<1>2. \A k \in DOMAIN changeQueue :
        changeQueue[k].type = "Deleted" => changeQueue[k].claim[1] \in Gone(home, Over(home))
  BY DEF GivenFits, ClaimsFit, OwnersFit, RequestsFit, RequestFits
<1>3. changeQueue \in Seq(Request) /\ services \in [Services -> Service \cup {None}]
  BY DEF TypeInv, TypeOK, TypeOKState
<1>4. 1 \in DOMAIN changeQueue /\ Head(changeQueue) = changeQueue[1]
  BY <1>1, <1>3
<1>5. c[1] \in DOMAIN home => c[1] \in Over(home)
  BY <1>1, <1>2, <1>4 DEF Gone
<1>6. c[1] \in AddressesOf(services[s])
  BY <1>3, ServiceAddresses
<1>7. Fits(home, s, services[s])
  BY DEF GivenFits, ServicesFit, ObjectsFit, ObjectsFitOf
<1>8. c[1] \in DOMAIN home /\ home[c[1]] = s
  BY <1>6, <1>7 DEF Fits, GivenOf
<1> QED BY <1>5, <1>6, <1>8 DEF Over, Placed

(* The claim of an address that its service's users gave it is not deleted *)
(* while the service has it: not by the claim worker, which starts with an *)
(* empty cache after a crash and finds no owner in it, not by the service  *)
(* watcher, which works on events that are late, and not by a request that *)
(* has waited in the queue or a restart, whatever calls fail.              *)
THEOREM GivenClaimsStay ==
  ASSUME \A scenario \in Scenarios : GivenForGood(scenario.plan)
  PROVE  Spec => [][\A c \in Claim :
                      claims[c] # None /\ claims'[c] = None => c[1] \notin GivenInUse]_vars
<1>1. TypeInv /\ Consistent /\ (\E home \in Homes : GivenFits(home)) /\ [Next]_vars =>
        [\A c \in Claim : claims[c] # None /\ claims'[c] = None => c[1] \notin GivenInUse]_vars
  BY GivenStays DEF Consistent
<1> QED BY <1>1, GivenFitsAlways, InvIsInvariant, PTL DEF Spec

-----------------------------------------------------------------------------
(* While no service asks for an automatic address these are all that there *)
(* are.                                                                    *)
GivesAll(o) == o \in {None, Touch} \/ o.want = "none"

NoneAsks ==
  \A s \in Services :
    /\ GivesAll(services[s]) /\ GivesAll(svcCache[s])
    /\ \A k \in DOMAIN plan[s] : GivesAll(plan[s][k])
    /\ \A k \in DOMAIN svcFeed[s] : GivesAll(svcFeed[s][k].obj)

LEMMA NoneAsksUser ==
  ASSUME TypeInv, NoneAsks, NEW s \in Services, UserChange(s)
  PROVE  NoneAsks'
<1> DEFINE event == IF Head(plan[s]) = None THEN [obj |-> services[s], gone |-> TRUE]
                                            ELSE [obj |-> NewSpec(s), gone |-> FALSE]
<1>1. /\ plan[s] # <<>> /\ UNCHANGED svcCache
      /\ services' = [services EXCEPT ![s] = NewSpec(s)] /\ plan' = [plan EXCEPT ![s] = Tail(plan[s])]
      /\ svcFeed' = [svcFeed EXCEPT ![s] = Append(svcFeed[s], event)]
      /\ services \in [Services -> Service \cup {None}] /\ svcFeed \in [Services -> Seq(Event)]
      /\ plan \in [Services -> Seq(Service \cup {None, Touch})]
  BY DEF UserChange, TypeInv, TypeOK, TypeOKState
<1>2. /\ 1 \in DOMAIN plan[s] /\ Head(plan[s]) = plan[s][1]
      /\ \A k \in DOMAIN Tail(plan[s]) : k + 1 \in DOMAIN plan[s] /\ Tail(plan[s])[k] = plan[s][k + 1]
  BY <1>1
<1>3. GivesAll(NewSpec(s)) /\ GivesAll(event.obj)
  BY <1>2 DEF NoneAsks, NewSpec
<1> HIDE DEF event
<1>4. \A k \in DOMAIN Append(svcFeed[s], event) :
        \/ k \in DOMAIN svcFeed[s] /\ Append(svcFeed[s], event)[k] = svcFeed[s][k]
        \/ Append(svcFeed[s], event)[k] = event
  BY <1>1
<1> SUFFICES ASSUME NEW t \in Services
             PROVE  /\ GivesAll(services'[t]) /\ GivesAll(svcCache'[t])
                    /\ \A k \in DOMAIN plan'[t] : GivesAll(plan'[t][k])
                    /\ \A k \in DOMAIN svcFeed'[t] : GivesAll(svcFeed'[t][k].obj)
  BY DEF NoneAsks, GivesAll
<1>5. CASE t # s
  BY <1>1, <1>5 DEF NoneAsks
<1>6. CASE t = s
  BY <1>1, <1>2, <1>3, <1>4, <1>6 DEF NoneAsks
<1> QED BY <1>5, <1>6

LEMMA NoneAsksWatcher ==
  ASSUME TypeInv, NoneAsks, NEW home, HandlerFits(home), ServiceStep \/ ServiceFault, UNCHANGED plan
  PROVE  NoneAsks'
<1>1. /\ svcCache \in [Services -> Service \cup {None}] /\ svcFeed \in [Services -> Seq(Event)]
  BY DEF TypeInv, TypeOK, TypeOKState
<1>2. UNCHANGED <<services, svcCache, svcFeed>> => NoneAsks'
  BY DEF NoneAsks, GivesAll
<1>3. svc.pc \notin {"pool", "service"}
  <2> SUFFICES ASSUME svc.pc \in {"pool", "service"} PROVE FALSE
    OBVIOUS
  <2>1. svc.name \in Services /\ svcCache[svc.name] \in Service /\ svcCache[svc.name].want # "none"
    BY <1>1 DEF TypeInv, ServiceTaskOK, HandlerFits, HandlerFitsOf
  <2> QED BY <2>1, ServiceAddresses DEF NoneAsks, GivesAll
<1>4. ASSUME NEW s \in Services, Deliver(s) PROVE NoneAsks'
  <2> DEFINE event == Head(svcFeed[s])
  <2>1. /\ svcFeed[s] # <<>> /\ UNCHANGED services
        /\ svcFeed' = [svcFeed EXCEPT ![s] = Tail(svcFeed[s])]
        /\ svcCache' = [svcCache EXCEPT ![s] = IF event.gone THEN None ELSE event.obj]
    BY <1>4 DEF Deliver
  <2>2. /\ 1 \in DOMAIN svcFeed[s] /\ event = svcFeed[s][1]
        /\ \A k \in DOMAIN Tail(svcFeed[s]) :
             k + 1 \in DOMAIN svcFeed[s] /\ Tail(svcFeed[s])[k] = svcFeed[s][k + 1]
    BY <1>1, <2>1
  <2>3. GivesAll(IF event.gone THEN None ELSE event.obj)
    BY <2>2 DEF NoneAsks, GivesAll
  <2> HIDE DEF event
  <2> SUFFICES ASSUME NEW t \in Services
               PROVE  /\ GivesAll(services'[t]) /\ GivesAll(svcCache'[t])
                      /\ \A k \in DOMAIN plan'[t] : GivesAll(plan'[t][k])
                      /\ \A k \in DOMAIN svcFeed'[t] : GivesAll(svcFeed'[t][k].obj)
    BY DEF NoneAsks, GivesAll
  <2>4. CASE t # s
    BY <1>1, <2>1, <2>4 DEF NoneAsks
  <2>5. CASE t = s
    BY <1>1, <2>1, <2>2, <2>3, <2>5 DEF NoneAsks
  <2> QED BY <2>4, <2>5
<1>5. CASE UpdateStatus(TRUE) \/ UpdateStatus(FALSE)
  <2> DEFINE s == svc.name
             event == [obj |-> services[s], gone |-> FALSE]
  <2>1. /\ UNCHANGED <<services, svcCache>> /\ s \in Services
        /\ \/ UNCHANGED svcFeed
           \/ svcFeed' = [svcFeed EXCEPT ![s] = Append(svcFeed[s], event)]
    BY <1>5 DEF UpdateStatus, TypeInv, ServiceTaskOK
  <2>2. GivesAll(event.obj)
    BY <2>1 DEF NoneAsks
  <2> HIDE DEF event, s
  <2>3. \A k \in DOMAIN Append(svcFeed[s], event) :
          \/ k \in DOMAIN svcFeed[s] /\ Append(svcFeed[s], event)[k] = svcFeed[s][k]
          \/ Append(svcFeed[s], event)[k] = event
    BY <1>1, <2>1
  <2>4. ASSUME NEW t \in Services, svcFeed' = [svcFeed EXCEPT ![s] = Append(svcFeed[s], event)]
        PROVE  \A k \in DOMAIN svcFeed'[t] : GivesAll(svcFeed'[t][k].obj)
    <3>1. CASE t # s
      BY <1>1, <2>4, <3>1 DEF NoneAsks
    <3>2. CASE t = s
      BY <1>1, <2>2, <2>3, <2>4, <3>2 DEF NoneAsks
    <3> QED BY <3>1, <3>2
  <2> QED BY <1>2, <2>1, <2>4 DEF NoneAsks, GivesAll
<1>6. CASE \/ ListForNew(PoolsRead) \/ ListForNew(NoPools) \/ ListForOld(PoolsRead)
           \/ ListForOld(NoPools) \/ FreeAddress(TRUE) \/ FreeAddress(FALSE)
  BY <1>2, <1>6 DEF ListForNew, ListForOld, FreeAddress
<1>7. ~(AllocateInPool(TRUE) \/ AllocateInPool(FALSE) \/ UpdateService(TRUE) \/ UpdateService(FALSE))
  BY <1>3 DEF AllocateInPool, UpdateService
<1> QED BY <1>4, <1>5, <1>6, <1>7 DEF ServiceStep, ServiceFault

LEMMA NoneAsksStep ==
  ASSUME TypeInv, NoneAsks, NEW home, HandlerFits(home), [Next]_vars
  PROVE  NoneAsks'
<1>1. UNCHANGED <<services, svcCache, svcFeed, plan>> => NoneAsks'
  BY DEF NoneAsks, GivesAll
<1>2. Restarted => NoneAsks'
  BY DEF Restarted, NoneAsks, GivesAll, NoEvents, NoServices
<1>3. svcFeed' = ListedServices /\ UNCHANGED <<services, svcCache, plan>> => NoneAsks'
  BY DEF NoneAsks, GivesAll, ListedServices
<1>4. CASE UNCHANGED vars
  BY <1>1, <1>4 DEF vars, schedVars, envVars
<1>5. CASE \E s \in Services : UserChange(s)
  BY <1>5, NoneAsksUser
<1>6. CASE \E n \in Nodes : Heartbeat(n) \/ NodeFails(n) \/ NodeStarts(n)
  BY <1>1, <1>6 DEF Heartbeat, NodeFails, NodeStarts, schedVars
<1>7. CASE StartWorkers \/ SchedulerFails \/ WatchBreaks
  BY <1>2, <1>3, <1>7 DEF StartWorkers, SchedulerFails, WatchBreaks
<1>8. UNCHANGED plan /\ (ServiceStep \/ ServiceFault) => NoneAsks'
  BY NoneAsksWatcher
<1>9. UNCHANGED plan /\ (ClaimStep \/ ClaimFault \/ ClaimsUnlisted) => NoneAsks'
  BY <1>1 DEF ClaimStep, ClaimFault, TakeClaim, VerifyClaim, DropOrphan, FreeOrphanAddress,
              AssignNode, NodesUnread, ClaimsUnlisted
<1>10. UNCHANGED plan /\ (ChangeStep \/ ChangeFault) => NoneAsks'
  BY <1>1 DEF ChangeStep, ChangeFault, CreateClaim, AddOwner, UpdateClaim, DeleteClaim, CallFails,
              GetFails
<1>11. CASE Goroutines \/ CallFault
  BY <1>8, <1>9, <1>10, <1>11 DEF Goroutines, CallFault, envVars
<1>12. CASE (\E c \in Claim : ClaimEvent(c)) \/ MonitorTick \/ Monitor \/ Resync
  BY <1>1, <1>12 DEF ClaimEvent, DeliverClaim, MonitorTick, Monitor, Resync, Tick, MarkNode,
                     ResyncClaims, envVars
<1> QED BY <1>4, <1>5, <1>6, <1>7, <1>11, <1>12 DEF Next

(* As long as all addresses are given by hand, no claim at all is deleted  *)
(* while a service has its address.                                        *)
THEOREM NeverRevokedWhenGiven ==
  ASSUME \A scenario \in Scenarios :
           /\ GivenForGood(scenario.plan)
           /\ \A s \in Services : \A k \in DOMAIN scenario.plan[s] : GivesAll(scenario.plan[s][k])
  PROVE  Spec => NeverRevoked
<1>1. Init => NoneAsks
  BY DEF Init, NoneAsks, GivesAll, NoServices, NoEvents
<1>2. (\E home \in Homes : GivenFits(home)) /\ TypeInv /\ NoneAsks /\ [Next]_vars => NoneAsks'
  BY NoneAsksStep DEF GivenFits, ServicesFit
<1>3. TypeInv /\ NoneAsks => InUse = GivenInUse
  <2> SUFFICES ASSUME TypeInv, NoneAsks PROVE InUse = GivenInUse
    OBVIOUS
  <2>1. ASSUME NEW s \in Services
        PROVE  Uses(s) = {} \/ (services[s] # None /\ services[s].want = "none")
    <3>1. services[s] = None \/ services[s] \in Service
      BY DEF TypeInv, TypeOK, TypeOKState
    <3>2. services[s] \in Service => services[s] \notin {None, Touch} /\ GivesAll(services[s])
      BY ServiceAddresses DEF NoneAsks
    <3>3. services[s] = None => Uses(s) = {}
      BY DEF Uses
    <3>4. services[s] \in Service => services[s] # None /\ services[s].want = "none"
      BY <3>2 DEF GivesAll
    <3> QED BY <3>1, <3>3, <3>4
  <2> QED BY <2>1 DEF InUse, GivenInUse
<1>4. TypeInv /\ Consistent /\ NoneAsks /\ (\E home \in Homes : GivenFits(home)) /\ [Next]_vars =>
        [\A c \in Claim : claims[c] # None /\ claims'[c] = None => c[1] \notin InUse]_vars
  BY <1>3, GivenStays DEF Consistent
<1>5. Spec => [](\E home \in Homes : GivenFits(home))
  BY GivenFitsAlways
<1> QED BY <1>1, <1>2, <1>4, <1>5, InvIsInvariant, PTL DEF Spec, NeverRevoked

-----------------------------------------------------------------------------
(* No pool has a given address allocated while a service asks for one, and *)
(* neither has a copy a goroutine holds: claims of given addresses are     *)
(* named after the mask the scheduler has by default.                      *)
Elsewhere(home) == [p \in Pools |-> IPs \ DOMAIN home]
PoolsFit(home) == CopiesWithin(Elsewhere(home))

LEMMA AllocatesElsewhere ==
  ASSUME TypeInv, NEW home \in Homes, ServicesFit(home)
  PROVE  AllocatesWithin(Elsewhere(home)) /\ (svc.pc = "pool" => svc.ip \notin DOMAIN home)
<1> SUFFICES ASSUME svc.pc = "pool" PROVE svc.pool \in Pools /\ svc.ip \in IPs \ DOMAIN home
  BY DEF AllocatesWithin, Elsewhere
<1>1. svc.pool \in Pools /\ svc.ip \in OfferedBy(svc.pool)
  BY DEF TypeInv, ServiceTaskOK
<1>2. svcCache[svc.name].want # "none"
  BY DEF ServicesFit, HandlerFits, HandlerFitsOf
<1>3. svc.name \in Services /\ svcCache[svc.name] # None
  BY DEF TypeInv, ServiceTaskOK
<1>4. Apart(home)
  BY <1>2, <1>3, AskersApart
<1> QED BY <1>1, <1>4, OfferAssumption DEF Apart

LEMMA PoolsFitStep ==
  ASSUME TypeInv, NEW home \in Homes, ServicesFit(home), PoolsFit(home), [Next]_vars
  PROVE  PoolsFit(home)'
<1> DEFINE B == Elsewhere(home)
<1>1. CopiesWithin(B) /\ AllocatesWithin(B)
  BY AllocatesElsewhere DEF PoolsFit
<1>2. CopiesWithin(B)' => PoolsFit(home)'
  BY DEF PoolsFit, Elsewhere
<1> HIDE DEF B
<1> QED BY <1>1, <1>2, StepCopies

-----------------------------------------------------------------------------
(* While no call fails, a claim is asked for from the time its address was *)
(* seen until it is over.                                                  *)
AddedIn(queue, c) == \E k \in DOMAIN queue : queue[k].type = "Added" /\ queue[k].claim = c
Asked(c) == claims[c] # None \/ AddedIn(changeQueue, c) \/ (cw # None /\ cw.claim = c)

AllAsked(home) ==
  failures["call"] = 0 =>
    \A s \in Services : ~(svc.pc = "list" /\ svc.name = s) =>
      \A ip \in AddressesOf(svcCache[s]) \cap Placed(home) : Asked(<<ip, DefaultMask>>)

LEMMA AddedStays ==
  ASSUME NEW queue \in Seq(Request), NEW c, AddedIn(queue, c)
  PROVE  /\ \A new \in Seq(Request) : AddedIn(queue \o new, c)
         /\ \A r \in Request : AddedIn(Append(queue, r), c)
         /\ \A d, cached : AddedIn(Outdate(queue, d, cached), c)
         /\ /\ queue # <<>>
            /\ (Head(queue).type = "Added" /\ Head(queue).claim = c) \/ AddedIn(Tail(queue), c)
<1>1. PICK k \in DOMAIN queue : queue[k].type = "Added" /\ queue[k].claim = c
  BY DEF AddedIn
<1>2. ASSUME NEW new \in Seq(Request) PROVE AddedIn(queue \o new, c)
  <2>1. k \in DOMAIN (queue \o new) /\ (queue \o new)[k] = queue[k]
    OBVIOUS
  <2> QED BY <1>1, <2>1 DEF AddedIn
<1>3. ASSUME NEW r \in Request PROVE AddedIn(Append(queue, r), c)
  <2>1. k \in DOMAIN Append(queue, r) /\ Append(queue, r)[k] = queue[k]
    OBVIOUS
  <2> QED BY <1>1, <2>1 DEF AddedIn
<1>4. ASSUME NEW d, NEW cached PROVE AddedIn(Outdate(queue, d, cached), c)
  <2>1. k \in DOMAIN Outdate(queue, d, cached) /\ Outdate(queue, d, cached)[k] = queue[k]
    <3>1. DOMAIN Outdate(queue, d, cached) = DOMAIN queue
      BY OutdateEffect
    <3>2. \/ Outdate(queue, d, cached)[k] = queue[k]
          \/ queue[k].type = "Updated" /\ Outdate(queue, d, cached)[k] = [queue[k] EXCEPT !.obj = Outdated]
      BY OutdateEffect
    <3> QED BY <1>1, <3>1, <3>2
  <2> QED BY <1>1, <2>1 DEF AddedIn
<1>5. CASE k = 1
  BY <1>1, <1>2, <1>3, <1>4, <1>5
<1>6. CASE k # 1
  <2>1. queue # <<>> /\ k - 1 \in DOMAIN Tail(queue) /\ Tail(queue)[k - 1] = queue[k]
    BY <1>6
  <2>2. AddedIn(Tail(queue), c)
    BY <1>1, <2>1 DEF AddedIn
  <2> QED BY <1>2, <1>3, <1>4, <2>1, <2>2
<1> QED BY <1>5, <1>6

\* A request for a claim is carried out; only a deletion takes the claim away.
LEMMA ChangesKeepAsked ==
  ASSUME TypeInv, RequestsOK, NEW home \in Homes, ClaimsFit(home),
         NEW c \in Claim, c[1] \in DOMAIN home, c[1] \notin Over(home), Asked(c), ChangeStep
  PROVE  Asked(c)'
<1> DEFINE r == Head(changeQueue)
           rest == Tail(changeQueue)
<1>1. /\ changeQueue \in Seq(Request) /\ cw \in Request \cup {None}
      /\ claims \in [Claim -> ClaimObject \cup {None}]
  BY DEF TypeInv, TypeOK, TypeOKState
<1>2. changeQueue # <<>> =>
        /\ r \in Request /\ rest \in Seq(Request) /\ r.claim \in Claim
        /\ r.type = "Deleted" => r.claim[1] \in Gone(home, Over(home))
  BY <1>1, HeadTypes, TailFits DEF ClaimsFit, OwnersFit, RequestFits
<1>3. AddedIn(changeQueue, c) =>
        changeQueue # <<>> /\ ((r.type = "Added" /\ r.claim = c) \/ AddedIn(rest, c))
  BY <1>1, AddedStays
<1> HIDE DEF r, rest
\* What Store makes of the claims and the rest of the queue.
<1>4. ASSUME changeQueue # <<>>, NEW obj \in ClaimObject \cup {None}, Store(r.claim, obj, rest)
      PROVE  /\ claims'[r.claim] = obj /\ (r.claim # c => claims'[c] = claims[c])
             /\ AddedIn(rest, c) => AddedIn(changeQueue', c)
  <2>1. CASE claims[r.claim] = obj
    BY <2>1, <1>4 DEF Store
  <2>2. CASE claims[r.claim] # obj
    <3>1. claims' = [claims EXCEPT ![r.claim] = obj] /\ changeQueue' = Outdate(rest, r.claim, FALSE)
      BY <1>4, <2>2 DEF Store
    <3>2. AddedIn(rest, c) => AddedIn(changeQueue', c)
      BY <1>2, <1>4, <3>1, AddedStays
    <3> QED BY <1>1, <1>2, <1>4, <3>1, <3>2
  <2> QED BY <2>1, <2>2
<1>5. CASE CreateClaim
  <2>1. /\ cw = None /\ changeQueue # <<>> /\ r.type = "Added"
        /\ \/ Store(r.claim, NewClaim(r.owner), rest) /\ UNCHANGED cw
           \/ cw' = r /\ changeQueue' = rest /\ UNCHANGED claims
    BY <1>5 DEF CreateClaim, r, rest
  <2>2. CASE Store(r.claim, NewClaim(r.owner), rest) /\ UNCHANGED cw
    <3>1. NewClaim(r.owner) \in ClaimObject
      BY <1>1, <2>1, HeadTypes DEF NewClaim, ClaimObject, r
    <3>2. /\ claims'[r.claim] # None /\ (r.claim # c => claims'[c] = claims[c])
          /\ AddedIn(rest, c) => AddedIn(changeQueue', c)
      BY <1>4, <2>1, <2>2, <3>1, ObjectsAssumption
    <3> QED BY <1>3, <2>1, <3>2 DEF Asked
  <2>3. CASE cw' = r /\ changeQueue' = rest /\ UNCHANGED claims
    <3>1. r # None
      BY <1>2, <2>1, NoRequestAssumption
    <3> QED BY <1>3, <2>1, <2>3, <3>1 DEF Asked
  <2> QED BY <2>1, <2>2, <2>3
<1>6. CASE AddOwner
  <2>1. /\ cw # None /\ claims[cw.claim] # None /\ UNCHANGED claims
        /\ \/ UNCHANGED changeQueue
           \/ changeQueue' = Append(changeQueue, UpdatedReq(cw.claim, WithOwner(claims[cw.claim], cw.owner)))
    BY <1>6 DEF AddOwner, Enqueue
  <2>2. AddedIn(changeQueue, c) => AddedIn(changeQueue', c)
    <3> DEFINE new == UpdatedReq(cw.claim, WithOwner(claims[cw.claim], cw.owner))
    <3>1. cw.claim \in Claim /\ cw.owner \in Services
      <4>1. cw \in Request /\ cw.type = "Added"
        BY <1>1, <2>1 DEF TypeInv
      <4> QED BY <4>1 DEF Request
    <3>2. claims[cw.claim] \in ClaimObject
      BY <1>1, <2>1, <3>1
    <3>3. new \in Request
      BY <3>1, <3>2 DEF UpdatedReq, Request, WithOwner, ClaimObject
    <3> HIDE DEF new
    <3>4. changeQueue' = changeQueue \/ changeQueue' = Append(changeQueue, new)
      BY <2>1 DEF new
    <3> QED BY <1>1, <3>3, <3>4, AddedStays
  <2> QED BY <2>1, <2>2 DEF Asked
<1>7. CASE UpdateClaim
  <2>1. /\ changeQueue # <<>> /\ r.type = "Updated" /\ UNCHANGED cw
        /\ \/ changeQueue' = rest /\ UNCHANGED claims
           \/ Current(r) # None /\ Store(r.claim, Current(r), rest)
    BY <1>7 DEF UpdateClaim, r, rest
  <2>2. Current(r) \in ClaimObject \cup {None}
    BY <2>1, CurrentTypes DEF r
  <2>3. \/ changeQueue' = rest /\ UNCHANGED claims
        \/ /\ claims'[r.claim] # None /\ (r.claim # c => claims'[c] = claims[c])
           /\ AddedIn(rest, c) => AddedIn(changeQueue', c)
    BY <1>4, <2>1, <2>2
  <2> QED BY <1>3, <2>1, <2>3 DEF Asked
<1>8. CASE DeleteClaim
  <2>1. changeQueue # <<>> /\ r.type = "Deleted" /\ UNCHANGED cw /\ Store(r.claim, None, rest)
    BY <1>8 DEF DeleteClaim, r, rest
  <2>2. r.claim # c
    BY <1>2, <2>1 DEF Gone
  <2>3. claims'[c] = claims[c] /\ (AddedIn(rest, c) => AddedIn(changeQueue', c))
    BY <1>4, <2>1, <2>2
  <2> QED BY <1>3, <2>1, <2>3 DEF Asked
<1> QED BY <1>5, <1>6, <1>7, <1>8 DEF ChangeStep

\* No other step takes a request back, as long as no call fails and the
\* process lives.
LEMMA AskedStays ==
  ASSUME TypeInv, RequestsOK, NEW home \in Homes, ClaimsFit(home),
         NEW c \in Claim, c[1] \in DOMAIN home, c[1] \notin Over(home), Asked(c),
         [Next]_vars, ~Restarted, ~CallFault
  PROVE  Asked(c)'
<1>1. changeQueue \in Seq(Request) /\ (AddedIn(changeQueue, c) => AddedIn(changeQueue, c)')
        /\ UNCHANGED <<claims, cw>> => Asked(c)'
  BY DEF Asked
<1>2. changeQueue \in Seq(Request)
  BY DEF TypeInv, TypeOK, TypeOKState
<1>3. UNCHANGED <<claims, changeQueue, cw>> => Asked(c)'
  BY <1>1, <1>2 DEF AddedIn
<1>4. ASSUME NEW r \in Request, UNCHANGED <<claims, cw>>, changeQueue' = Append(changeQueue, r)
      PROVE  Asked(c)'
  <2>1. AddedIn(changeQueue, c) => AddedIn(changeQueue', c)
    BY <1>2, <1>4, AddedStays
  <2> QED BY <1>1, <1>2, <1>4, <2>1
<1>5. CASE UNCHANGED vars
  BY <1>3, <1>5 DEF vars, schedVars
<1>6. CASE \E s \in Services : UserChange(s)
  BY <1>3, <1>6 DEF UserChange
<1>7. CASE \E n \in Nodes : Heartbeat(n) \/ NodeFails(n) \/ NodeStarts(n)
  BY <1>3, <1>7 DEF Heartbeat, NodeFails, NodeStarts, schedVars
<1>8. CASE StartWorkers \/ SchedulerFails \/ WatchBreaks
  BY <1>3, <1>8 DEF StartWorkers, SchedulerFails, WatchBreaks
<1>9. ASSUME ServiceStep PROVE Asked(c)'
  <2>1. CASE \/ \E s \in Services : Deliver(s)
             \/ AllocateInPool(TRUE) \/ UpdateService(TRUE) \/ UpdateStatus(TRUE) \/ ListForOld(PoolsRead)
    BY <1>3, <2>1 DEF Deliver, AllocateInPool, UpdateService, UpdateStatus, ListForOld
  <2>2. CASE ListForNew(PoolsRead)
    <3>1. PoolsRead \in PoolCopy
      BY PoolCopies DEF TypeInv, TypeOK, TypeOKState
    <3>2. PICK new \in Seq(Request) : changeQueue' = changeQueue \o new
      BY <2>2, <3>1, NewRequests
    <3>3. AddedIn(changeQueue, c) => AddedIn(changeQueue', c)
      BY <1>2, <3>2, AddedStays
    <3> QED BY <1>1, <1>2, <2>2, <3>3 DEF ListForNew
  <2>3. CASE FreeAddress(TRUE)
    <3> DEFINE ip == Head(svc.todo)
    <3>1. /\ svc.pc = "free" /\ UNCHANGED <<claims, cw>>
          /\ changeQueue' = Append(changeQueue, DeletedReq(<<ip, MaskOf(svc.copy, ip)>>))
      BY <2>3 DEF FreeAddress, Enqueue
    <3>2. svc.todo \in Seq(IPs) /\ svc.todo # <<>> /\ svc.copy \in PoolCopy
      BY <3>1 DEF TypeInv, TypeOK, ServiceTaskOK, ServiceTask
    <3>3. ip \in IPs
      BY <3>2
    <3>4. DeletedReq(<<ip, MaskOf(svc.copy, ip)>>) \in Request
      BY <3>2, <3>3, MaskType DEF DeletedReq, Request
    <3> QED BY <1>4, <3>1, <3>4
  <2> QED BY <1>9, <2>1, <2>2, <2>3 DEF ServiceStep
<1>10. ASSUME ClaimStep PROVE Asked(c)'
  <2>1. CASE TakeClaim \/ FreeOrphanAddress(TRUE)
    BY <1>3, <2>1 DEF TakeClaim, FreeOrphanAddress
  <2>2. CASE VerifyClaim(TRUE) \/ AssignNode
    <3>1. /\ UNCHANGED <<claims, cw>> /\ wk.pc \in {"verify", "assign"}
          /\ \/ UNCHANGED changeQueue
             \/ \E obj \in {TheCached, Outdated} :
                  changeQueue' = Append(changeQueue, UpdatedReq(wk.key, obj))
      BY <2>2 DEF VerifyClaim, AssignNode, Enqueue
    <3>2. wk.key \in Claim
      BY <3>1 DEF TypeInv, WorkerTaskOK
    <3>3. \A obj \in {TheCached, Outdated} : UpdatedReq(wk.key, obj) \in Request
      BY <3>2 DEF UpdatedReq, Request
    <3> QED BY <1>3, <1>4, <3>1, <3>3
  <2>3. CASE DropOrphan(PoolsRead)
    <3> DEFINE ip == wk.key[1]
    <3>1. /\ wk.pc = "orphan" /\ UNCHANGED <<claims, cw>>
          /\ changeQueue' = Append(changeQueue, DeletedReq(<<ip, MaskOf(PoolsRead, ip)>>))
      BY <2>3 DEF DropOrphan, Enqueue
    <3>2. ip \in IPs
      BY <3>1 DEF TypeInv, WorkerTaskOK, Claim
    <3>3. PoolsRead \in PoolCopy
      BY PoolCopies DEF TypeInv, TypeOK, TypeOKState
    <3>4. DeletedReq(<<ip, MaskOf(PoolsRead, ip)>>) \in Request
      BY <3>2, <3>3, MaskType DEF DeletedReq, Request
    <3> QED BY <1>4, <3>1, <3>4
  <2> QED BY <1>10, <2>1, <2>2, <2>3 DEF ClaimStep
<1>11. CASE Goroutines
  BY <1>9, <1>10, <1>11, ChangesKeepAsked DEF Goroutines
<1>12. ASSUME NEW d \in Claim, ClaimEvent(d) PROVE Asked(c)'
  <2>1. UNCHANGED <<claims, cw>> /\ changeQueue' = Outdate(changeQueue, d, TRUE)
    BY <1>12 DEF ClaimEvent, DeliverClaim
  <2>2. AddedIn(changeQueue, c) => AddedIn(changeQueue', c)
    BY <1>2, <2>1, AddedStays
  <2> QED BY <1>1, <1>2, <2>1, <2>2
<1>13. CASE MonitorTick \/ Monitor \/ Resync
  BY <1>3, <1>13 DEF MonitorTick, Monitor, Resync, Tick, MarkNode, ResyncClaims
<1> QED BY <1>5, <1>6, <1>7, <1>8, <1>11, <1>12, <1>13 DEF Next

-----------------------------------------------------------------------------
(* A given address comes into the cache when its event is delivered, and   *)
(* the handler's first step asks for the claims of those that are there.   *)
ToList(s) == svc.pc = "list" /\ svc.name = s

LEMMA ServiceKeepsCache ==
  ASSUME TypeInv, NEW home \in Homes, ServicesFit(home), ServiceStep,
         NEW s \in Services, ~ToList(s)',
         NEW ip \in DOMAIN home, ip \in AddressesOf(svcCache'[s])
  PROVE  /\ ip \in AddressesOf(svcCache[s])
         /\ ToList(s) => ListForNew(PoolsRead)
<1>1. svcCache \in [Services -> Service \cup {None}] /\ svc \in ServiceTask
  BY DEF TypeInv, TypeOK, TypeOKState
<1>2. CASE \/ ListForNew(PoolsRead) \/ UpdateService(TRUE) \/ UpdateStatus(TRUE)
           \/ ListForOld(PoolsRead) \/ FreeAddress(TRUE)
  <2>1. /\ UNCHANGED svcCache
        /\ ListForNew(PoolsRead) \/ svc.pc # "list"
    BY <1>2 DEF ListForNew, UpdateService, UpdateStatus, ListForOld, FreeAddress
  <2> QED BY <2>1 DEF ToList
<1>3. ASSUME NEW t \in Services, Deliver(t)
      PROVE  ip \in AddressesOf(svcCache[s]) /\ ~ToList(s)
  <2> DEFINE event == Head(svcFeed[t])
             new == [NoTask EXCEPT !.pc = "list", !.name = t, !.old = svcCache[t]]
  <2>1. /\ svc.pc = "idle"
        /\ svcCache' = [svcCache EXCEPT ![t] = IF event.gone THEN None ELSE event.obj]
        /\ event.gone \/ svc' = new
    BY <1>3 DEF Deliver
  <2>2. new.pc = "list" /\ new.name = t
    BY DEF NoTask
  <2> HIDE DEF event, new
  <2>3. CASE s # t
    BY <1>1, <2>1, <2>3 DEF ToList
  <2>4. CASE s = t
    <3>1. event.gone
      BY <2>1, <2>2, <2>4 DEF ToList
    <3>2. svcCache'[s] = None
      BY <1>1, <2>1, <2>4, <3>1
    <3> QED BY <3>2, ServiceAddresses
  <2> QED BY <2>3, <2>4
<1>4. ASSUME AllocateInPool(TRUE) PROVE ip \in AddressesOf(svcCache[s]) /\ ~ToList(s)
  <2> DEFINE t == svc.name
             new == [svcCache[t] EXCEPT !.ips = Append(svcCache[t].ips, svc.ip)]
  <2>1. svc.pc = "pool" /\ svcCache' = [svcCache EXCEPT ![t] = new]
    BY <1>4 DEF AllocateInPool
  <2>2. t \in Services /\ svcCache[t] \in Service /\ svc.ip \in IPs
    BY <1>1, <2>1, OfferAssumption DEF TypeInv, ServiceTaskOK
  <2>3. svc.ip \notin DOMAIN home
    BY <2>1, AllocatesElsewhere
  <2>4. AddressesOf(new) = AddressesOf(svcCache[t]) \cup {svc.ip}
    <3>1. svcCache[t].ips \in Seq(IPs) /\ AddressesOf(svcCache[t]) = RangeOf(svcCache[t].ips)
      BY <2>2, ServiceAddresses
    <3>2. new.ips = Append(svcCache[t].ips, svc.ip) /\ new.ips \in Seq(IPs) /\ new \in Service
      <4>1. Append(svcCache[t].ips, svc.ip) \in Seq(IPs)
        BY <2>2, <3>1
      <4> QED BY <2>2, <4>1 DEF Service
    <3>3. RangeOf(new.ips) = RangeOf(svcCache[t].ips) \cup {svc.ip}
      BY <2>2, <3>1, <3>2, AppendRange
    <3> HIDE DEF new
    <3>4. AddressesOf(new) = RangeOf(new.ips)
      BY <3>2, ServiceAddresses
    <3> QED BY <3>1, <3>3, <3>4
  <2> HIDE DEF new
  <2>5. CASE s # t
    BY <1>1, <2>1, <2>5 DEF ToList
  <2>6. CASE s = t
    <3>1. svcCache'[s] = new
      BY <1>1, <2>1, <2>6
    <3> QED BY <2>1, <2>3, <2>4, <2>6, <3>1 DEF ToList
  <2> QED BY <2>5, <2>6
<1> QED BY <1>2, <1>3, <1>4 DEF ServiceStep

LEMMA KeepsCache ==
  ASSUME TypeInv, NEW home \in Homes, ServicesFit(home), [Next]_vars, ~Restarted, ~CallFault,
         NEW s \in Services, ~ToList(s)',
         NEW ip \in DOMAIN home, ip \in AddressesOf(svcCache'[s])
  PROVE  /\ ip \in AddressesOf(svcCache[s])
         /\ ToList(s) => ListForNew(PoolsRead)
<1>1. ASSUME UNCHANGED svcCache, svc'.pc = svc.pc, svc'.name = svc.name
      PROVE  ip \in AddressesOf(svcCache[s]) /\ ~ToList(s)
  BY <1>1 DEF ToList
<1>2. CASE UNCHANGED vars
  BY <1>1, <1>2 DEF vars, schedVars
<1>3. CASE \E t \in Services : UserChange(t)
  BY <1>1, <1>3 DEF UserChange
<1>4. CASE \E n \in Nodes : Heartbeat(n) \/ NodeFails(n) \/ NodeStarts(n)
  BY <1>1, <1>4 DEF Heartbeat, NodeFails, NodeStarts, schedVars
<1>5. CASE StartWorkers \/ SchedulerFails \/ WatchBreaks
  BY <1>1, <1>5 DEF StartWorkers, SchedulerFails, WatchBreaks
<1>6. CASE Goroutines
  <2>1. ASSUME ClaimStep PROVE UNCHANGED svcCache /\ svc'.pc = svc.pc /\ svc'.name = svc.name
    <3>1. UNCHANGED svcCache /\ (UNCHANGED svc \/ \E p : svc' = [svc EXCEPT !.copy = Spoil(@, p)])
      BY <2>1 DEF ClaimStep, TakeClaim, VerifyClaim, DropOrphan, FreeOrphanAddress, AssignNode
    <3>2. svc \in ServiceTask
      BY DEF TypeInv, TypeOK
    <3> QED BY <3>1, <3>2 DEF ServiceTask
  <2>2. ASSUME ChangeStep PROVE UNCHANGED <<svcCache, svc>>
    BY <2>2 DEF ChangeStep, CreateClaim, AddOwner, UpdateClaim, DeleteClaim
  <2> QED BY <1>1, <1>6, <2>1, <2>2, ServiceKeepsCache DEF Goroutines
<1>7. CASE (\E c \in Claim : ClaimEvent(c)) \/ MonitorTick \/ Monitor \/ Resync
  BY <1>1, <1>7 DEF ClaimEvent, DeliverClaim, MonitorTick, Monitor, Resync, Tick, MarkNode,
                    ResyncClaims
<1> QED BY <1>2, <1>3, <1>4, <1>5, <1>6, <1>7 DEF Next

LEMMA NoCallFailed ==
  ASSUME TypeInv, [Next]_vars, failures'["call"] = 0
  PROVE  failures["call"] = 0 /\ ~CallFault
<1>1. failures \in [Kind -> Nat] /\ Kind = {"node", "call", "scheduler", "watch"}
  BY DEF TypeInv, TypeOK, Kind
<1>2. ASSUME NEW kind \in Kind, Fails(kind)
      PROVE  /\ kind # "call" => failures'["call"] = failures["call"]
             /\ kind = "call" => failures'["call"] = failures["call"] + 1
  BY <1>1, <1>2 DEF Fails
<1>3. ~CallFault
  BY <1>1, <1>2 DEF CallFault
<1>4. CASE UNCHANGED failures
  BY <1>3, <1>4
<1>5. CASE Fails("node") \/ Fails("scheduler") \/ Fails("watch")
  BY <1>1, <1>2, <1>3, <1>5
<1>6. CASE UNCHANGED vars
  BY <1>4, <1>6 DEF vars, envVars
<1>7. CASE (\E s \in Services : UserChange(s)) \/ \E n \in Nodes : Heartbeat(n) \/ NodeStarts(n)
  BY <1>4, <1>7 DEF UserChange, Heartbeat, NodeStarts
<1>8. CASE (\E n \in Nodes : NodeFails(n)) \/ StartWorkers \/ SchedulerFails \/ WatchBreaks
  BY <1>4, <1>5, <1>8 DEF NodeFails, StartWorkers, SchedulerFails, WatchBreaks
<1>9. CASE \/ Goroutines \/ (\E c \in Claim : ClaimEvent(c))
           \/ MonitorTick \/ Monitor \/ Resync
  BY <1>4, <1>9 DEF Goroutines, ClaimEvent, MonitorTick, Monitor, Resync, envVars
<1> QED BY <1>3, <1>6, <1>7, <1>8, <1>9 DEF Next

LEMMA AllAskedStep ==
  ASSUME TypeInv, RequestsOK, NEW home \in Homes, GivenFits(home), PoolsFit(home),
         AllAsked(home), [Next]_vars
  PROVE  AllAsked(home)'
<1> SUFFICES ASSUME failures'["call"] = 0, NEW s \in Services, ~ToList(s)',
                    NEW ip \in AddressesOf(svcCache'[s]), ip \in Placed(home)'
             PROVE  Asked(<<ip, DefaultMask>>)'
  BY DEF AllAsked, ToList, AddressesOf
<1> DEFINE c == <<ip, DefaultMask>>
<1>1. failures["call"] = 0 /\ ~CallFault
  BY NoCallFailed
<1>2. ASSUME Restarted PROVE FALSE
  <2>1. svcCache'[s] = None
    BY <1>2 DEF Restarted, NoServices
  <2> QED BY <2>1, ServiceAddresses
<1>3. ip \in DOMAIN home /\ ip \notin Over(home)
  <2>1. ip \in DOMAIN home /\ ip \notin Over(home)'
    BY DEF Placed, Over
  <2>2. Onward(home)
    BY GivenFitsStep
  <2> QED BY <2>1, <2>2 DEF Onward
<1>4. c \in Claim /\ c[1] = ip
  BY <1>3 DEF Homes, Claim, Masks
<1>5. ip \in AddressesOf(svcCache[s]) /\ (ToList(s) => ListForNew(PoolsRead))
  BY <1>1, <1>2, <1>3, KeepsCache DEF GivenFits
<1>6. ip \in Placed(home)
  <2>1. ip \in Started(home)
    BY <1>3, <1>5, KnownIsStarted DEF GivenFits, GivenOf
  <2> QED BY <1>3, <2>1 DEF Started, Over
<1>7. CASE ~ToList(s)
  <2>1. Asked(c)
    BY <1>1, <1>5, <1>6, <1>7 DEF AllAsked, ToList
  <2> HIDE DEF c
  <2> QED BY <1>1, <1>2, <1>3, <1>4, <2>1, AskedStays DEF GivenFits, c
<1>8. CASE ToList(s)
  <2>1. ListForNew(PoolsRead) /\ svc.name = s /\ changeQueue \in Seq(Request)
    BY <1>5, <1>8 DEF ToList, TypeInv, TypeOK, TypeOKState
  <2>2. PoolsRead \in PoolCopy
    BY PoolCopies DEF TypeInv, TypeOK, TypeOKState
  <2>3. PoolsOf(PoolsRead, ip) = {}
    BY <1>3 DEF PoolsOf, PoolsRead, PoolsFit, CopiesWithin, Elsewhere
  <2>4. PICK new \in Seq(Request) :
          /\ changeQueue' = changeQueue \o new
          /\ \A k \in DOMAIN new : new[k].type = "Added"
          /\ \A a \in AddressesOf(svcCache[svc.name]) : PoolsOf(PoolsRead, a) = {} =>
               \E k \in DOMAIN new : new[k].claim = <<a, DefaultMask>>
    BY <2>1, <2>2, NewRequests
  <2>5. PICK k \in DOMAIN new : new[k].type = "Added" /\ new[k].claim = c
    BY <1>5, <2>1, <2>3, <2>4
  <2>6. Len(changeQueue) + k \in DOMAIN changeQueue' /\ changeQueue'[Len(changeQueue) + k] = new[k]
    BY <2>1, <2>4
  <2>7. AddedIn(changeQueue, c)'
    BY <2>5, <2>6 DEF AddedIn
  <2> QED BY <2>7 DEF Asked
<1> QED BY <1>7, <1>8

-----------------------------------------------------------------------------
CoverFits(home) == GivenFits(home) /\ PoolsFit(home) /\ AllAsked(home)

LEMMA FitsIsCovered ==
  ASSUME TypeInv, NEW home \in Homes, CoverFits(home)
  PROVE  Covered
<1> SUFFICES ASSUME failures["call"] = 0, phase = "running", svc.pc = "idle",
                    NEW s \in Services, svcCache[s] # None, svcFeed[s] = <<>>,
                    svcCache[s].want = "none", NEW ip \in RangeOf(svcCache[s].ips)
             PROVE  LET c == <<ip, DefaultMask>> IN
                    \/ claims[c] # None /\ s \in claims[c].owners
                    \/ Requested(c, s)
  BY DEF Covered
<1> DEFINE c == <<ip, DefaultMask>>
<1>1. /\ svcCache[s] \in Service /\ changeQueue \in Seq(Request) /\ cw \in Request \cup {None}
      /\ cw # None => cw.type = "Added"
  BY DEF TypeInv, TypeOK, TypeOKState
<1>2. ip \in AddressesOf(svcCache[s])
  BY <1>1, ServiceAddresses
<1>3. ip \in DOMAIN home /\ home[ip] = s
  <2>1. Fits(home, s, svcCache[s])
    BY DEF CoverFits, GivenFits, ServicesFit, ObjectsFit, ObjectsFitOf
  <2> QED BY <1>2, <2>1 DEF Fits, GivenOf
<1>4. c \in Claim /\ c[1] = ip
  BY <1>3 DEF Homes, Claim, Masks
\* The watch has nothing to deliver: the service has the address.
<1>5. ip \in Placed(home) /\ ip \notin Over(home)
  <2>1. FeedFitsOf(home, Over(home), services[s], svcCache[s], svcFeed[s])
    BY DEF CoverFits, GivenFits, ServicesFit, FeedFits
  <2>2. ip \in GivenOf(home, services[s])
    BY <1>2, <1>3, <2>1 DEF FeedFitsOf, Known, GivenOf
  <2> QED BY <1>3, <2>2 DEF Placed, Over, GivenOf
<1>6. Asked(c)
  BY <1>2, <1>5 DEF CoverFits, AllAsked
<1>7. /\ claims[c] # None => s \in claims[c].owners
      /\ \A k \in DOMAIN changeQueue : changeQueue[k].claim = c =>
           /\ changeQueue[k].type = "Added" => changeQueue[k].owner = s
           /\ changeQueue[k].type # "Deleted"
      /\ cw # None /\ cw.claim = c => cw.owner = s
  <2> DEFINE own == OwnersOf(home, Started(home))
             gone == Gone(home, Over(home))
  <2>1. \A owners \in own[c] : owners = {s}
    BY <1>3, <1>4 DEF OwnersOf
  <2>2. c[1] \notin gone
    BY <1>3, <1>4, <1>5 DEF Gone
  <2>3. OwnersFit(own, gone, gone)
    BY DEF CoverFits, GivenFits, ClaimsFit
  <2> HIDE DEF own, gone, c
  <2>4. claims[c] # None => s \in claims[c].owners
    BY <1>4, <2>1, <2>3 DEF OwnersFit, StoreFits, ObjectFits
  <2>5. \A r : RequestFits(own, gone, r) /\ r.claim = c =>
          (r.type = "Added" => r.owner = s) /\ r.type # "Deleted"
    BY <2>1, <2>2 DEF RequestFits
  <2> QED BY <1>1, <2>3, <2>4, <2>5 DEF OwnersFit, RequestsFit
<1> HIDE DEF c
\* The owner is the service, and nothing asks for a deletion.
<1>8. CASE claims[c] # None
  BY <1>7, <1>8 DEF c
<1>9. \A j \in DOMAIN changeQueue : ~(changeQueue[j].type = "Deleted" /\ changeQueue[j].claim = c)
  BY <1>7
<1>10. CASE AddedIn(changeQueue, c)
  <2>1. PICK k \in DOMAIN changeQueue : changeQueue[k].type = "Added" /\ changeQueue[k].claim = c
    BY <1>10 DEF AddedIn
  <2>2. changeQueue[k].owner = s
    BY <1>7, <2>1
  <2> QED BY <1>9, <2>1, <2>2 DEF Requested, c
<1>11. CASE cw # None /\ cw.claim = c
  <2>1. cw.owner = s
    BY <1>7, <1>11
  <2> QED BY <1>9, <1>11, <2>1 DEF Requested, c
<1> QED BY <1>6, <1>8, <1>10, <1>11 DEF Asked

(* While no call fails every address that users gave a service, and whose  *)
(* event was handled, has a claim that the service owns, or one is asked   *)
(* for and its deletion is not: no interleaving of users, goroutines,      *)
(* restarts and broken watches loses it.                                   *)
THEOREM GivenAreCovered ==
  ASSUME \A scenario \in Scenarios : GivenForGood(scenario.plan)
  PROVE  Spec => []Covered
<1> DEFINE Inv == \E home \in Homes : CoverFits(home)
<1>1. Init => Inv
  <2> SUFFICES ASSUME Init PROVE Inv
    OBVIOUS
  <2>1. PICK home \in Homes : GivenFits(home)
    BY InitFits
  <2>2. PoolsFit(home)
    BY InitCopies DEF PoolsFit
  <2>3. AllAsked(home)
    BY ServiceAddresses DEF AllAsked, Init, NoServices
  <2> QED BY <2>1, <2>2, <2>3 DEF CoverFits
<1>2. TypeInv /\ Consistent /\ Inv /\ [Next]_vars => Inv'
  <2> SUFFICES ASSUME TypeInv, Consistent, Inv, [Next]_vars PROVE Inv'
    OBVIOUS
  <2>1. PICK home \in Homes : CoverFits(home)
    OBVIOUS
  <2>2. CoverFits(home)'
    BY <2>1, GivenFitsStep, PoolsFitStep, AllAskedStep DEF CoverFits, GivenFits, Consistent
  <2>3. home \in Homes'
    BY DEF Homes
  <2> QED BY <2>2, <2>3
<1>3. TypeInv /\ Inv => Covered
  BY FitsIsCovered
<1> HIDE DEF Inv
<1> QED BY <1>1, <1>2, <1>3, InvIsInvariant, PTL DEF Spec
-----------------------------------------------------------------------------
(* The addresses the scheduler gives.  What is assumed beside              *)
(* GivenForGood: a service that asks for an address is only touched        *)
(* afterwards, no call fails, and no two pools offer the same address.     *)
Asks(o) == o \notin {None, Touch} /\ o.want # "none"

AsksForGood(changes) ==
  \A j, k \in DOMAIN changes : j < k /\ Asks(changes[j]) => changes[k] = Touch

CallsSucceed(allowed) == \A bound \in allowed : bound["call"] = 0

OffersDiffer == \A p, q \in Pools : p # q => OfferedBy(p) \cap OfferedBy(q) = {}

(* The addresses of a service that no user gives; those the server or the  *)
(* cache has for it; and the services that ask and stay.                   *)
Automatic(home, o) == AddressesOf(o) \ DOMAIN home
Kept(home, s) == Automatic(home, services[s]) \cup Automatic(home, svcCache[s])
Allocated == UNION {pools[p] : p \in Pools}
Steady == {s \in Services : Asks(services[s]) /\ \A k \in DOMAIN plan[s] : plan[s][k] = Touch}

(* Who asks, or is known to have asked, stays.                             *)
AskersFitOf(steady, now, changes, cached, feed) ==
  /\ AsksForGood(changes)
  /\ Asks(now) \/ Asks(cached) => steady
  /\ \A k \in DOMAIN feed : Asks(feed[k].obj) => steady /\ ~feed[k].gone
AskersFit ==
  \A s \in Services : AskersFitOf(s \in Steady, services[s], plan[s], svcCache[s], svcFeed[s])

(* Every event tells of the addresses the service has now; only the        *)
(* watcher, which gives them, is ahead.                                    *)
EventsFitOf(home, now, cached, feed) ==
  /\ \A k \in DOMAIN feed : Automatic(home, feed[k].obj) = Automatic(home, now)
  /\ cached # None => Automatic(home, now) \subseteq Automatic(home, cached)
EventsFit(home) == \A s \in Services : EventsFitOf(home, services[s], svcCache[s], svcFeed[s])

(* What a service has is allocated, and nobody else's.                     *)
HoldersFit(home) ==
  \A s \in Services :
    /\ Kept(home, s) \subseteq Allocated
    /\ \A t \in Services : s # t => Kept(home, s) \cap Kept(home, t) = {}

(* The handler gives an address that is free, from the list of the pools   *)
(* as they are, and takes away what nobody has.                            *)
CopyFits(task) ==
  /\ task.copy.listed = Pools
  /\ \A p \in Pools : p \notin task.copy.stale => task.copy.alloc[p] = pools[p]
TaskFits(home) ==
  /\ svc.pc \in {"pool", "free"} => CopyFits(svc)
  /\ svc.pc = "pool" => svc.copy.stale = {} /\ svc.ip \notin Allocated
  /\ svc.pc # "free" => svc.todo = <<>>
  /\ svc.old # None => \A t \in Services :
       t # svc.name \/ svcCache[t] = None => Automatic(home, svc.old) \cap Kept(home, t) = {}
  /\ \A t \in Services : RangeOf(svc.todo) \cap Kept(home, t) \subseteq DOMAIN home

AutomaticFits(home) ==
  AskersFit /\ EventsFit(home) /\ HoldersFit(home) /\ TaskFits(home) /\ wk.pc # "free"

\* What is the same for a list of addresses, and what is not given.
LEMMA AutomaticAddresses ==
  ASSUME NEW home \in Homes
  PROVE  /\ Automatic(home, None) = {}
         /\ \A o \in Service : /\ Automatic(home, o) = RangeOf(o.ips) \ DOMAIN home
                               /\ o \notin {None, Touch} /\ (Asks(o) <=> o.want # "none")
         /\ ~Asks(None)
         /\ \A s \in Services : \A o \in Service :
              Fits(home, s, o) /\ ~Asks(o) => Automatic(home, o) = {}
BY ServiceAddresses DEF Automatic, Asks, Fits

\* What Kept and Steady are made of stays, or becomes less.
LEMMA HoldersStay ==
  ASSUME NEW home, HoldersFit(home), UNCHANGED pools,
         \A s \in Services : Kept(home, s)' \subseteq Kept(home, s)
  PROVE  HoldersFit(home)'
<1>1. Allocated' = Allocated
  BY DEF Allocated
<1> QED BY <1>1 DEF HoldersFit

\* The handler goes on with the same task, or is done.
LEMMA TaskStays ==
  ASSUME NEW home, TaskFits(home), UNCHANGED <<pools, svcCache>>,
         \A s \in Services : Kept(home, s)' \subseteq Kept(home, s),
         \/ svc' = NoTask
         \/ /\ svc'.name = svc.name /\ svc'.old = svc.old /\ svc'.todo = svc.todo
            /\ \/ svc'.pc = svc.pc /\ svc'.copy = svc.copy /\ svc'.ip = svc.ip
               \/ svc.pc # "free" /\ svc'.pc \notin {"pool", "free"}
  PROVE  TaskFits(home)'
<1>1. Allocated' = Allocated
  BY DEF Allocated
<1>2. CASE svc' = NoTask
  BY <1>2 DEF TaskFits, NoTask, RangeOf
<1>3. CASE /\ svc'.name = svc.name /\ svc'.old = svc.old /\ svc'.todo = svc.todo
           /\ \/ svc'.pc = svc.pc /\ svc'.copy = svc.copy /\ svc'.ip = svc.ip
              \/ svc.pc # "free" /\ svc'.pc \notin {"pool", "free"}
  <2>1. svc'.pc \in {"pool", "free"} => CopyFits(svc)'
    BY <1>3 DEF TaskFits, CopyFits
  <2> QED BY <1>1, <1>3, <2>1 DEF TaskFits
<1> QED BY <1>2, <1>3

\* The step is about something else, or is the handler's own.
LEMMA AutomaticUntouched ==
  ASSUME NEW home, AutomaticFits(home), UNCHANGED <<services, plan, svcFeed, svcCache, pools>>,
         TaskFits(home)', wk'.pc # "free"
  PROVE  AutomaticFits(home)' /\ Steady \subseteq Steady'
<1>1. Steady' = Steady /\ \A s \in Services : Kept(home, s)' = Kept(home, s)
  BY DEF Steady, Kept
<1>2. AskersFit'
  BY <1>1 DEF AutomaticFits, AskersFit
<1>3. EventsFit(home)' /\ HoldersFit(home)'
  BY <1>1, HoldersStay DEF AutomaticFits, EventsFit
<1> QED BY <1>1, <1>2, <1>3 DEF AutomaticFits

-----------------------------------------------------------------------------
(* Users make services without an automatic address, and leave those that  *)
(* may have one as they are.                                               *)
LEMMA UserKeepsAutomatic ==
  ASSUME TypeInv, NEW home \in Homes, ServicesFit(home), AutomaticFits(home),
         NEW s \in Services, UserChange(s)
  PROVE  AutomaticFits(home)' /\ Steady \subseteq Steady'
<1> DEFINE change == Head(plan[s])
           new == NewSpec(s)
           e == IF change = None THEN [obj |-> services[s], gone |-> TRUE]
                ELSE [obj |-> new, gone |-> FALSE]
<1>1. /\ plan[s] # <<>> /\ (change \in {None, Touch} => services[s] # None)
      /\ plan' = [plan EXCEPT ![s] = Tail(@)] /\ services' = [services EXCEPT ![s] = new]
      /\ svcFeed' = [svcFeed EXCEPT ![s] = Append(@, e)]
      /\ UNCHANGED <<pools, svcCache, svc, wk>>
      /\ new = IF change = Touch THEN services[s] ELSE change
      /\ plan \in [Services -> Seq(Service \cup {None, Touch})]
      /\ services \in [Services -> Service \cup {None}]
      /\ svcFeed \in [Services -> Seq(Event)]
  BY DEF UserChange, NewSpec, TypeInv, TypeOK, TypeOKState
<1>2. /\ plan[s] \in Seq(Service \cup {None, Touch}) /\ change \in Service \cup {None, Touch}
      /\ 1 \in DOMAIN plan[s] /\ plan[s][1] = change
      /\ \A k \in DOMAIN Tail(plan[s]) : k + 1 \in DOMAIN plan[s] /\ 1 < k + 1
                                         /\ Tail(plan[s])[k] = plan[s][k + 1]
      /\ \A j, k \in DOMAIN Tail(plan[s]) : j < k => j + 1 < k + 1
  BY <1>1
<1>3. /\ Planned(home, s, services[s], plan[s])
      /\ ObjectsFitOf(home, s, services[s], svcCache[s], svcFeed[s])
      /\ AskersFitOf(s \in Steady, services[s], plan[s], svcCache[s], svcFeed[s])
      /\ EventsFitOf(home, services[s], svcCache[s], svcFeed[s])
  BY DEF ServicesFit, PlansFit, ObjectsFit, AutomaticFits, AskersFit, EventsFit
<1>4. None # Touch
  BY PlanAssumption
<1>5. change # Touch => s \notin Steady
  BY <1>2 DEF Steady
\* What a user changes had no automatic address, and what comes has none.
<1>6. Automatic(home, new) = Automatic(home, services[s])
  <2>1. CASE change = Touch
    BY <1>1, <2>1
  <2>2. CASE change # Touch
    <3>1. Automatic(home, services[s]) = {}
      BY <1>1, <1>3, <1>5, <2>2, AutomaticAddresses DEF AskersFitOf, ObjectsFitOf
    <3>2. AddressesOf(change) \subseteq DOMAIN home
      BY <1>2, <1>3 DEF Planned
    <3> QED BY <1>1, <2>2, <3>1, <3>2 DEF Automatic
  <2> QED BY <2>1, <2>2
<1>7. Automatic(home, e.obj) = Automatic(home, new)
  BY <1>6
<1>8. /\ e.obj \in Service /\ (Asks(e.obj) => Asks(new) /\ ~e.gone)
      /\ Asks(new) => change = Touch \/ Asks(change)
  <2>1. CASE change = None
    BY <1>1, <1>3, <1>4, <1>5, <2>1 DEF AskersFitOf, Asks
  <2>2. CASE change # None
    BY <1>1, <1>2, <1>4, <2>2
  <2> QED BY <2>1, <2>2
<1> HIDE DEF change, new, e
<1>9. /\ plan'[s] = Tail(plan[s]) /\ services'[s] = new /\ svcFeed'[s] = Append(svcFeed[s], e)
      /\ \A t \in Services \ {s} :
           plan'[t] = plan[t] /\ services'[t] = services[t] /\ svcFeed'[t] = svcFeed[t]
  BY <1>1
<1>10. \A k \in DOMAIN svcFeed'[s] :
         (k \in DOMAIN svcFeed[s] /\ svcFeed'[s][k] = svcFeed[s][k]) \/ svcFeed'[s][k] = e
  <2>1. svcFeed[s] \in Seq(Event)
    BY <1>1
  <2> QED BY <1>9, <2>1
<1>11. s \in Steady \/ Asks(new) => s \in Steady'
  <2>1. CASE s \in Steady
    <3>1. change = Touch
      BY <1>5, <2>1
    <3> QED BY <1>1, <1>2, <1>9, <2>1, <3>1 DEF Steady
  <2>2. CASE Asks(new) /\ s \notin Steady
    <3>1. change # Touch
      BY <1>1, <1>3, <2>2 DEF AskersFitOf
    <3>2. \A k \in DOMAIN Tail(plan[s]) : Tail(plan[s])[k] = Touch
      BY <1>2, <1>3, <1>8, <2>2, <3>1 DEF AskersFitOf, AsksForGood
    <3> QED BY <1>9, <2>2, <3>2 DEF Steady
  <2> QED BY <2>1, <2>2
<1>12. \A t \in Services \ {s} : t \in Steady' <=> t \in Steady
  BY <1>9 DEF Steady
<1>13. AskersFit'
  <2>1. AsksForGood(plan'[s])
    BY <1>2, <1>3, <1>9 DEF AskersFitOf, AsksForGood
  <2>2. AskersFitOf(s \in Steady', services'[s], plan'[s], svcCache[s], svcFeed'[s])
    BY <1>3, <1>8, <1>9, <1>10, <1>11, <2>1 DEF AskersFitOf
  <2>3. \A t \in Services \ {s} :
          AskersFitOf(t \in Steady', services'[t], plan'[t], svcCache[t], svcFeed'[t])
    BY <1>9, <1>12 DEF AutomaticFits, AskersFit
  <2> QED BY <1>1, <2>2, <2>3 DEF AskersFit
<1>14. EventsFit(home)'
  <2>1. EventsFitOf(home, services'[s], svcCache[s], svcFeed'[s])
    BY <1>3, <1>6, <1>7, <1>9, <1>10 DEF EventsFitOf
  <2> QED BY <1>1, <1>9, <2>1 DEF AutomaticFits, EventsFit
<1>15. \A t \in Services : Kept(home, t)' = Kept(home, t)
  BY <1>1, <1>6, <1>9 DEF Kept
<1>16. HoldersFit(home)' /\ TaskFits(home)'
  BY <1>1, <1>15, HoldersStay, TaskStays DEF AutomaticFits
<1>17. Steady \subseteq Steady'
  <2>1. Steady \subseteq Services
    BY DEF Steady
  <2> QED BY <1>11, <1>12, <2>1
<1>18. wk'.pc # "free"
  BY <1>1 DEF AutomaticFits
<1> QED BY <1>13, <1>14, <1>16, <1>17, <1>18 DEF AutomaticFits

\* A restart forgets, and a listing says what the services are now.
LEMMA RestartKeepsAutomatic ==
  ASSUME NEW home \in Homes, AutomaticFits(home), Restarted
  PROVE  AutomaticFits(home)' /\ Steady \subseteq Steady'
<1>1. /\ UNCHANGED <<services, pools, plan>> /\ svc' = NoTask /\ wk' = IdleWorker
      /\ svcCache' = NoServices /\ svcFeed' = NoEvents
  BY DEF Restarted
<1>2. Steady' = Steady
  BY <1>1 DEF Steady
<1>3. \A s \in Services : svcCache'[s] = None /\ svcFeed'[s] = <<>>
  BY <1>1 DEF NoServices, NoEvents
<1>4. \A s \in Services : Kept(home, s)' \subseteq Kept(home, s)
  BY <1>1, <1>3, AutomaticAddresses DEF Kept
<1>5. AskersFit'
  BY <1>1, <1>2, <1>3, AutomaticAddresses DEF AutomaticFits, AskersFit, AskersFitOf
<1>6. EventsFit(home)'
  BY <1>1, <1>3 DEF EventsFit, EventsFitOf
<1>7. HoldersFit(home)'
  BY <1>1, <1>4, HoldersStay DEF AutomaticFits
<1>8. TaskFits(home)' /\ wk'.pc # "free"
  BY <1>1 DEF TaskFits, NoTask, IdleWorker, RangeOf
<1> QED BY <1>2, <1>5, <1>6, <1>7, <1>8 DEF AutomaticFits

LEMMA ListingKeepsAutomatic ==
  ASSUME NEW home \in Homes, AutomaticFits(home), svcFeed' = ListedServices,
         UNCHANGED <<services, pools, plan, svc, svcCache, wk>>
  PROVE  AutomaticFits(home)' /\ Steady \subseteq Steady'
<1>1. Steady' = Steady /\ \A s \in Services : Kept(home, s)' = Kept(home, s)
  BY DEF Steady, Kept
<1>2. ASSUME NEW s \in Services
      PROVE  \A k \in DOMAIN svcFeed'[s] : svcFeed'[s][k].obj = services[s] /\ ~svcFeed'[s][k].gone
  <2>1. svcFeed'[s] = IF services[s] = None THEN <<>> ELSE <<[obj |-> services[s], gone |-> FALSE]>>
    BY DEF ListedServices
  <2> QED BY <2>1
<1>3. AskersFit' /\ EventsFit(home)'
  <2>1. AskersFit'
    BY <1>1, <1>2 DEF AutomaticFits, AskersFit, AskersFitOf
  <2>2. EventsFit(home)'
    BY <1>1, <1>2 DEF AutomaticFits, EventsFit, EventsFitOf
  <2> QED BY <2>1, <2>2
<1>4. HoldersFit(home)' /\ TaskFits(home)'
  BY <1>1, HoldersStay, TaskStays DEF AutomaticFits
<1> QED BY <1>1, <1>3, <1>4 DEF AutomaticFits

-----------------------------------------------------------------------------
(* serviceWatcher.  An event tells what the service has, the object it     *)
(* replaces in the cache may have had one address more.                    *)
LEMMA DeliverKeepsAutomatic ==
  ASSUME TypeInv, NEW home \in Homes, ServicesFit(home), AutomaticFits(home), UNCHANGED plan,
         NEW s \in Services, Deliver(s)
  PROVE  AutomaticFits(home)' /\ Steady \subseteq Steady'
<1> DEFINE event == Head(svcFeed[s])
           known == svcCache[s]
           now == IF event.gone THEN None ELSE event.obj
<1>1. /\ svcFeed' = [svcFeed EXCEPT ![s] = Tail(@)] /\ svcCache' = [svcCache EXCEPT ![s] = now]
      /\ svc' = IF event.gone
                  THEN [NoTask EXCEPT !.pc = "old", !.name = s, !.old = event.obj]
                  ELSE [NoTask EXCEPT !.pc = "list", !.name = s, !.old = known]
      /\ svcFeed[s] \in Seq(Event) /\ svcFeed[s] # <<>> /\ UNCHANGED <<services, pools, wk>>
      /\ svcFeed \in [Services -> Seq(Event)] /\ svcCache \in [Services -> Service \cup {None}]
  BY DEF Deliver, TypeInv, TypeOK, TypeOKState
<1>2. /\ event \in Event /\ 1 \in DOMAIN svcFeed[s] /\ svcFeed[s][1] = event
      /\ \A k \in DOMAIN Tail(svcFeed[s]) :
           k + 1 \in DOMAIN svcFeed[s] /\ Tail(svcFeed[s])[k] = svcFeed[s][k + 1]
  BY <1>1
<1>3. /\ event.obj \in Service /\ event.obj # None /\ event.gone \in BOOLEAN
      /\ known \in Service \cup {None}
  BY <1>1, <1>2, AutomaticAddresses DEF Event
<1>4. /\ AskersFitOf(s \in Steady, services[s], plan[s], svcCache[s], svcFeed[s])
      /\ EventsFitOf(home, services[s], svcCache[s], svcFeed[s])
      /\ ObjectsFitOf(home, s, services[s], svcCache[s], svcFeed[s])
  BY DEF ServicesFit, ObjectsFit, AutomaticFits, AskersFit, EventsFit
<1>5. /\ svcFeed'[s] = Tail(svcFeed[s]) /\ svcCache'[s] = now
      /\ \A t \in Services \ {s} : svcFeed'[t] = svcFeed[t] /\ svcCache'[t] = svcCache[t]
  BY <1>1
<1>6. Automatic(home, event.obj) = Automatic(home, services[s])
  BY <1>2, <1>4 DEF EventsFitOf
<1>7. event.gone => Automatic(home, event.obj) = {}
  BY <1>2, <1>3, <1>4, AutomaticAddresses DEF AskersFitOf, ObjectsFitOf
<1>8. Steady' = Steady
  BY <1>1 DEF Steady
<1> HIDE DEF event
<1>9. AskersFit'
  <2>1. Asks(now) => s \in Steady
    BY <1>2, <1>4, AutomaticAddresses DEF AskersFitOf
  <2>2. AskersFitOf(s \in Steady, services[s], plan[s], now, Tail(svcFeed[s]))
    BY <1>2, <1>4, <2>1 DEF AskersFitOf
  <2> QED BY <1>1, <1>5, <1>8, <2>2 DEF AutomaticFits, AskersFit
<1>10. EventsFit(home)'
  <2>1. EventsFitOf(home, services[s], now, Tail(svcFeed[s]))
    BY <1>2, <1>4, <1>6 DEF EventsFitOf
  <2> QED BY <1>1, <1>5, <2>1 DEF AutomaticFits, EventsFit
<1>11. Kept(home, s)' = Automatic(home, services[s])
  BY <1>1, <1>5, <1>6, <1>7, AutomaticAddresses DEF Kept
<1>12. \A t \in Services : Kept(home, t)' \subseteq Kept(home, t)
  <2>1. \A t \in Services \ {s} : Kept(home, t)' = Kept(home, t)
    BY <1>1, <1>5 DEF Kept
  <2> QED BY <1>11, <2>1 DEF Kept
<1>13. HoldersFit(home)'
  BY <1>1, <1>12, HoldersStay DEF AutomaticFits
<1>14. TaskFits(home)'
  <2>1. /\ svc'.pc \in {"old", "list"} /\ svc'.todo = <<>> /\ svc'.name = s
        /\ svc'.old = IF event.gone THEN event.obj ELSE known
    BY <1>1 DEF NoTask, event
  <2>2. CASE event.gone
    BY <1>7, <2>1, <2>2 DEF TaskFits, RangeOf
  <2>3. CASE ~event.gone
    <3>1. \A t \in Services : t # s => Automatic(home, known) \cap Kept(home, t)' = {}
      BY <1>12 DEF AutomaticFits, HoldersFit, Kept
    <3>2. svcCache'[s] # None
      BY <1>3, <1>5, <2>3
    <3> QED BY <2>1, <2>3, <3>1, <3>2 DEF TaskFits, RangeOf
  <2> QED BY <2>2, <2>3
<1>15. wk'.pc # "free"
  BY <1>1 DEF AutomaticFits
<1> QED BY <1>8, <1>9, <1>10, <1>13, <1>14, <1>15 DEF AutomaticFits

\* The address is free in every pool of the list, which is what the pools are.
LEMMA ListForNewKeepsAutomatic ==
  ASSUME TypeInv, NEW home \in Homes, AutomaticFits(home), UNCHANGED plan, OffersDiffer,
         \A p \in Pools : pools[p] \subseteq OfferedBy(p), ListForNew(PoolsRead)
  PROVE  AutomaticFits(home)' /\ Steady \subseteq Steady'
<1>1. /\ UNCHANGED <<services, svcFeed, svcCache, pools, wk>> /\ svc \in ServiceTask
      /\ svc.pc = "list" /\ pools \in [Pools -> SUBSET IPs]
      /\ \/ svc' = AfterNew(svc)
         \/ /\ PoolsWithFree(PoolsRead) # {}
            /\ svc' = [svc EXCEPT !.pc = "pool", !.ip = FreeIP(PoolsRead), !.pool = FreePool(PoolsRead),
                                  !.copy = PoolsRead]
  BY DEF ListForNew, TypeInv, TypeOK, TypeOKState
<1>2. \A s \in Services : Kept(home, s)' = Kept(home, s)
  BY <1>1 DEF Kept
<1>3. ASSUME svc' = AfterNew(svc) PROVE TaskFits(home)'
  <2>1. \/ svc' = NoTask
        \/ svc'.name = svc.name /\ svc'.old = svc.old /\ svc'.todo = svc.todo /\ svc'.pc = "old"
    BY <1>1, <1>3 DEF AfterNew, ServiceTask
  <2> QED BY <1>1, <1>2, <2>1, TaskStays DEF AutomaticFits
<1>4. ASSUME PoolsWithFree(PoolsRead) # {},
             svc' = [svc EXCEPT !.pc = "pool", !.ip = FreeIP(PoolsRead), !.pool = FreePool(PoolsRead),
                                !.copy = PoolsRead]
      PROVE  TaskFits(home)'
  <2> DEFINE p == FreePool(PoolsRead)
             ip == FreeIP(PoolsRead)
  <2>1. PoolsRead \in PoolCopy /\ PoolsRead.listed = Pools /\ PoolsRead.alloc = pools /\ PoolsRead.stale = {}
    BY <1>1, PoolCopies DEF PoolsRead
  <2>2. p \in Pools /\ ip \in OfferedBy(p) /\ ip \notin pools[p]
    BY <1>4, <2>1, OfferIsFree
  <2> HIDE DEF p, ip
  <2>3. ip \notin Allocated
    BY <2>2 DEF OffersDiffer, Allocated
  <2>4. /\ svc'.pc = "pool" /\ svc'.ip = ip /\ svc'.copy = PoolsRead /\ svc'.name = svc.name
        /\ svc'.old = svc.old /\ svc'.todo = svc.todo
    BY <1>1, <1>4 DEF ServiceTask, ip
  <2>5. Allocated' = Allocated
    BY <1>1 DEF Allocated
  <2>6. CopyFits(svc)'
    BY <1>1, <2>1, <2>4 DEF CopyFits
  <2> QED BY <1>1, <1>2, <2>1, <2>3, <2>4, <2>5, <2>6 DEF AutomaticFits, TaskFits
<1>5. TaskFits(home)'
  BY <1>1, <1>3, <1>4
<1>6. wk'.pc # "free"
  BY <1>1 DEF AutomaticFits
<1> QED BY <1>1, <1>5, <1>6, AutomaticUntouched

\* The address comes into the pool and into the cache: it was nobody's.
LEMMA AllocateKeepsAutomatic ==
  ASSUME TypeInv, NEW home \in Homes, ServicesFit(home), AutomaticFits(home), UNCHANGED plan,
         AllocateInPool(TRUE)
  PROVE  AutomaticFits(home)' /\ Steady \subseteq Steady'
<1> DEFINE s == svc.name
           p == svc.pool
           ip == svc.ip
           old == svcCache[s]
           new == [old EXCEPT !.ips = Append(@, ip)]
<1>1. /\ UNCHANGED <<services, svcFeed>> /\ svc.pc = "pool" /\ svc \in ServiceTask
      /\ svc' = [svc EXCEPT !.pc = "service", !.copy = NoPools]
      /\ svcCache' = [svcCache EXCEPT ![s] = new]
      /\ svcCache \in [Services -> Service \cup {None}] /\ pools \in [Pools -> SUBSET IPs]
      /\ s \in Services /\ old \in Service /\ p \in Pools /\ ip \in IPs
  BY OfferAssumption DEF AllocateInPool, TypeInv, TypeOK, TypeOKState, ServiceTaskOK
<1>2. /\ CopyFits(svc) /\ svc.copy.stale = {} /\ ip \notin Allocated /\ svc.todo = <<>>
      /\ svc.old # None => \A t \in Services :
           t # s \/ svcCache[t] = None => Automatic(home, svc.old) \cap Kept(home, t) = {}
  BY <1>1 DEF AutomaticFits, TaskFits
<1>3. pools' = [pools EXCEPT ![p] = pools[p] \cup {ip}] /\ wk' = [wk EXCEPT !.copy = Spoil(@, p)]
  BY <1>1, <1>2 DEF AllocateInPool, Accepted, CopyFits
<1>4. new \in Service /\ new.want = old.want /\ RangeOf(new.ips) = RangeOf(old.ips) \cup {ip}
  <2>1. /\ old.ips \in Seq(IPs) /\ new.ips = Append(old.ips, ip) /\ new.want = old.want
        /\ new = [old EXCEPT !.ips = new.ips]
    BY <1>1 DEF Service
  <2>2. Append(old.ips, ip) \in Seq(IPs) /\ RangeOf(Append(old.ips, ip)) = RangeOf(old.ips) \cup {ip}
    BY <1>1, <2>1, AppendRange
  <2> HIDE DEF new
  <2>3. new \in Service
    BY <1>1, <2>1, <2>2 DEF Service
  <2> QED BY <2>1, <2>2, <2>3
<1> HIDE DEF new
<1>5. /\ Automatic(home, new) \subseteq Automatic(home, old) \cup {ip}
      /\ Automatic(home, old) \subseteq Automatic(home, new) /\ (Asks(new) <=> Asks(old))
      /\ new # None
  BY <1>1, <1>4, AutomaticAddresses
<1>6. svcCache'[s] = new /\ \A t \in Services \ {s} : svcCache'[t] = svcCache[t]
  BY <1>1
<1>7. Steady' = Steady
  BY <1>1 DEF Steady
<1>8. AskersFit'
  <2>1. AskersFitOf(s \in Steady, services[s], plan[s], new, svcFeed[s])
    BY <1>1, <1>5 DEF AutomaticFits, AskersFit, AskersFitOf
  <2> QED BY <1>1, <1>6, <1>7, <2>1 DEF AutomaticFits, AskersFit
<1>9. EventsFit(home)'
  <2>1. EventsFitOf(home, services[s], new, svcFeed[s])
    BY <1>1, <1>5, AutomaticAddresses DEF AutomaticFits, EventsFit, EventsFitOf
  <2> QED BY <1>1, <1>6, <2>1 DEF AutomaticFits, EventsFit
<1>10. /\ Kept(home, s)' \subseteq Kept(home, s) \cup {ip}
       /\ \A t \in Services \ {s} : Kept(home, t)' = Kept(home, t)
  BY <1>1, <1>5, <1>6 DEF Kept
<1>11. Allocated \cup {ip} \subseteq Allocated'
  <2>1. pools'[p] = pools[p] \cup {ip} /\ \A q \in Pools \ {p} : pools'[q] = pools[q]
    BY <1>1, <1>3
  <2> QED BY <1>1, <2>1 DEF Allocated
<1>12. HoldersFit(home)'
  <2>1. \A t \in Services : Kept(home, t)' \subseteq Allocated'
    BY <1>1, <1>10, <1>11 DEF AutomaticFits, HoldersFit
  <2>2. \A t \in Services : ip \notin Kept(home, t)
    BY <1>2 DEF AutomaticFits, HoldersFit
  <2>3. \A t, u \in Services : t # u => Kept(home, t)' \cap Kept(home, u)' = {}
    BY <1>1, <1>10, <2>2 DEF AutomaticFits, HoldersFit
  <2> QED BY <2>1, <2>3 DEF HoldersFit
<1>13. TaskFits(home)'
  <2>1. /\ svc'.pc = "service" /\ svc'.name = s /\ svc'.old = svc.old /\ svc'.todo = svc.todo
    BY <1>1 DEF ServiceTask
  <2>2. \A t \in Services : t # s \/ svcCache'[t] = None =>
          Kept(home, t)' = Kept(home, t) /\ svcCache'[t] = svcCache[t]
    BY <1>1, <1>5, <1>6, <1>10
  <2> QED BY <1>2, <2>1, <2>2 DEF TaskFits, RangeOf
<1>14. wk'.pc # "free"
  <2>1. wk \in WorkerTask
    BY DEF TypeInv, TypeOK
  <2>2. wk'.pc = wk.pc
    BY <1>3, <2>1 DEF WorkerTask
  <2> QED BY <2>2 DEF AutomaticFits
<1> QED BY <1>7, <1>8, <1>9, <1>12, <1>13, <1>14 DEF AutomaticFits

\* The object in the cache is sent, with the address: who has it asks.
LEMMA UpdateServiceKeepsAutomatic ==
  ASSUME TypeInv, NEW home \in Homes, ServicesFit(home), AutomaticFits(home), UNCHANGED plan,
         UpdateService(TRUE)
  PROVE  AutomaticFits(home)' /\ Steady \subseteq Steady'
<1> DEFINE s == svc.name
           obj == svcCache[s]
           one == <<[obj |-> obj, gone |-> FALSE]>>
           current == TRUE /\ svcFeed[s] = <<>>
<1>1. /\ UNCHANGED <<svcCache, pools, wk>> /\ svc.pc = "service" /\ svc \in ServiceTask
      /\ svc' = AfterUpdate(svc, current)
      /\ \/ /\ svcFeed[s] = <<>> /\ services' = [services EXCEPT ![s] = obj]
            /\ svcFeed' = [svcFeed EXCEPT ![s] = one]
         \/ UNCHANGED <<services, svcFeed>>
  BY DEF UpdateService, TypeInv, TypeOK
<1>2. /\ s \in Services /\ obj \in Service /\ obj # None
      /\ services \in [Services -> Service \cup {None}] /\ svcFeed \in [Services -> Seq(Event)]
  BY <1>1 DEF TypeInv, TypeOK, TypeOKState, ServiceTaskOK
<1> HIDE DEF current
<1>3. \/ svc' = NoTask
      \/ /\ svc'.name = svc.name /\ svc'.old = svc.old /\ svc'.todo = svc.todo
         /\ svc'.pc \in {"old", "status"}
  BY <1>1 DEF AfterUpdate, AfterNew, ServiceTask
<1>4. ASSUME \A t \in Services : Kept(home, t)' \subseteq Kept(home, t) PROVE TaskFits(home)'
  BY <1>1, <1>3, <1>4, TaskStays DEF AutomaticFits
<1>5. CASE UNCHANGED <<services, svcFeed>>
  <2>1. \A t \in Services : Kept(home, t)' = Kept(home, t)
    BY <1>1, <1>5 DEF Kept
  <2>2. wk'.pc # "free"
    BY <1>1 DEF AutomaticFits
  <2> QED BY <1>1, <1>4, <1>5, <2>1, <2>2, AutomaticUntouched
<1>6. CASE /\ svcFeed[s] = <<>> /\ services' = [services EXCEPT ![s] = obj]
           /\ svcFeed' = [svcFeed EXCEPT ![s] = one]
  <2>1. /\ services'[s] = obj /\ svcFeed'[s] = one
        /\ \A t \in Services \ {s} : services'[t] = services[t] /\ svcFeed'[t] = svcFeed[t]
    BY <1>2, <1>6
  <2>2. Asks(obj)
    BY <1>1, <1>2, AutomaticAddresses DEF ServicesFit, HandlerFits, HandlerFitsOf
  <2>3. s \in Steady /\ s \in Steady'
    <3>1. s \in Steady
      BY <1>2, <2>2 DEF AutomaticFits, AskersFit, AskersFitOf
    <3> QED BY <2>1, <2>2, <3>1 DEF Steady
  <2>4. \A t \in Services \ {s} : t \in Steady' <=> t \in Steady
    BY <2>1 DEF Steady
  <2>5. Steady \subseteq Steady'
    <3>1. Steady \subseteq Services
      BY DEF Steady
    <3> QED BY <2>3, <2>4, <3>1
  <2>6. \A k \in DOMAIN one : one[k].obj = obj /\ ~one[k].gone
    OBVIOUS
  <2> HIDE DEF one
  <2>7. AskersFit'
    <3>1. AskersFitOf(s \in Steady', obj, plan[s], obj, one)
      BY <1>2, <2>3, <2>6 DEF AutomaticFits, AskersFit, AskersFitOf
    <3> QED BY <1>1, <2>1, <2>4, <3>1 DEF AutomaticFits, AskersFit
  <2>8. EventsFit(home)'
    <3>1. EventsFitOf(home, obj, obj, one)
      BY <2>6 DEF EventsFitOf
    <3> QED BY <1>1, <2>1, <3>1 DEF AutomaticFits, EventsFit
  <2>9. \A t \in Services : Kept(home, t)' \subseteq Kept(home, t)
    BY <1>1, <2>1 DEF Kept
  <2>10. HoldersFit(home)'
    BY <1>1, <2>9, HoldersStay DEF AutomaticFits
  <2>11. wk'.pc # "free"
    BY <1>1 DEF AutomaticFits
  <2> QED BY <1>4, <2>5, <2>7, <2>8, <2>9, <2>10, <2>11 DEF AutomaticFits
<1> QED BY <1>1, <1>5, <1>6

LEMMA UpdateStatusKeepsAutomatic ==
  ASSUME TypeInv, NEW home \in Homes, AutomaticFits(home), UNCHANGED plan, UpdateStatus(TRUE)
  PROVE  AutomaticFits(home)' /\ Steady \subseteq Steady'
<1> DEFINE s == svc.name
           e == [obj |-> services[s], gone |-> FALSE]
<1>1. /\ UNCHANGED <<services, svcCache, pools, wk>> /\ svc.pc = "status" /\ svc \in ServiceTask
      /\ svc' = AfterNew(svc)
      /\ svcFeed' = IF Len(svcFeed[s]) = 1 THEN [svcFeed EXCEPT ![s] = Append(@, e)] ELSE svcFeed
      /\ s \in Services /\ svcFeed \in [Services -> Seq(Event)]
  BY DEF UpdateStatus, TypeInv, TypeOK, TypeOKState, ServiceTaskOK
<1>2. Steady' = Steady /\ \A t \in Services : Kept(home, t)' = Kept(home, t)
  BY <1>1 DEF Steady, Kept
<1>3. HoldersFit(home)' /\ TaskFits(home)'
  <2>1. \/ svc' = NoTask
        \/ svc'.name = svc.name /\ svc'.old = svc.old /\ svc'.todo = svc.todo /\ svc'.pc = "old"
    BY <1>1 DEF AfterNew, ServiceTask
  <2> QED BY <1>1, <1>2, <2>1, HoldersStay, TaskStays DEF AutomaticFits
<1>4. e.obj = services[s] /\ ~e.gone
  OBVIOUS
<1> HIDE DEF e
<1>5. /\ \A t \in Services \ {s} : svcFeed'[t] = svcFeed[t]
      /\ \A k \in DOMAIN svcFeed'[s] :
           (k \in DOMAIN svcFeed[s] /\ svcFeed'[s][k] = svcFeed[s][k]) \/ svcFeed'[s][k] = e
  <2>1. svcFeed[s] \in Seq(Event)
    BY <1>1
  <2>2. CASE Len(svcFeed[s]) = 1
    <3>1. svcFeed'[s] = Append(svcFeed[s], e) /\ \A t \in Services \ {s} : svcFeed'[t] = svcFeed[t]
      BY <1>1, <2>2
    <3> QED BY <2>1, <3>1
  <2>3. CASE Len(svcFeed[s]) # 1
    BY <1>1, <2>3
  <2> QED BY <2>2, <2>3
<1>6. AskersFit'
  <2>1. AskersFitOf(s \in Steady, services[s], plan[s], svcCache[s], svcFeed'[s])
    BY <1>1, <1>4, <1>5 DEF AutomaticFits, AskersFit, AskersFitOf
  <2> QED BY <1>1, <1>2, <1>5, <2>1 DEF AutomaticFits, AskersFit
<1>7. EventsFit(home)'
  <2>1. EventsFitOf(home, services[s], svcCache[s], svcFeed[s])
    BY <1>1 DEF AutomaticFits, EventsFit
  <2>2. EventsFitOf(home, services[s], svcCache[s], svcFeed'[s])
    BY <1>4, <1>5, <2>1 DEF EventsFitOf
  <2> QED BY <1>1, <1>5, <2>2 DEF AutomaticFits, EventsFit
<1>8. wk'.pc # "free"
  BY <1>1 DEF AutomaticFits
<1> QED BY <1>2, <1>3, <1>6, <1>7, <1>8 DEF AutomaticFits

\* What is left of the old addresses is in no cached service.
LEMMA ListForOldKeepsAutomatic ==
  ASSUME TypeInv, NEW home \in Homes, AutomaticFits(home), UNCHANGED plan, ListForOld(PoolsRead)
  PROVE  AutomaticFits(home)' /\ Steady \subseteq Steady'
<1> DEFINE left == Among(svc.old.ips, IPs \ Referenced)
<1>1. /\ UNCHANGED <<services, svcFeed, svcCache, pools, wk>> /\ svc.pc = "old" /\ svc \in ServiceTask
      /\ svc' = Freeing([svc EXCEPT !.copy = PoolsRead, !.todo = left])
      /\ svc.old \in Service /\ svc.old # None /\ svc.name \in Services
      /\ svcCache \in [Services -> Service \cup {None}] /\ pools \in [Pools -> SUBSET IPs]
  BY DEF ListForOld, TypeInv, TypeOK, TypeOKState, ServiceTaskOK, ServiceTask
<1>2. svc.old.ips \in Seq(IPs) /\ AddressesOf(svc.old) = RangeOf(svc.old.ips)
  BY <1>1, ServiceAddresses
<1>3. RangeOf(left) = RangeOf(svc.old.ips) \cap (IPs \ Referenced)
  BY <1>2, AmongKeeps
<1> HIDE DEF left
<1>4. ASSUME NEW t \in Services PROVE RangeOf(left) \cap Kept(home, t) \subseteq DOMAIN home
  <2>1. RangeOf(left) \ DOMAIN home \subseteq Automatic(home, svc.old)
    BY <1>2, <1>3 DEF Automatic
  <2>2. CASE t # svc.name \/ svcCache[t] = None
    BY <1>1, <2>1, <2>2 DEF AutomaticFits, TaskFits
  <2>3. CASE svcCache[t] # None
    <3>1. Kept(home, t) \subseteq Automatic(home, svcCache[t])
      BY <2>3 DEF AutomaticFits, EventsFit, EventsFitOf, Kept
    <3>2. Automatic(home, svcCache[t]) \subseteq Referenced
      BY <1>1, <2>3, AutomaticAddresses DEF Referenced
    <3> QED BY <1>3, <3>1, <3>2
  <2> QED BY <2>2, <2>3
<1>5. \A t \in Services : Kept(home, t)' = Kept(home, t)
  BY <1>1 DEF Kept
<1>6. ASSUME svc' = NoTask PROVE TaskFits(home)'
  BY <1>1, <1>5, <1>6, TaskStays DEF AutomaticFits
<1>7. ASSUME svc' # NoTask PROVE TaskFits(home)'
  <2>1. /\ svc'.pc = "free" /\ svc'.name = svc.name /\ svc'.old = svc.old /\ svc'.todo = left
        /\ svc'.copy = PoolsRead
    BY <1>1, <1>7 DEF Freeing, ServiceTask
  <2>2. CopyFits(svc)'
    BY <1>1, <2>1 DEF CopyFits, PoolsRead
  <2> QED BY <1>1, <1>4, <1>5, <2>1, <2>2 DEF AutomaticFits, TaskFits
<1>8. TaskFits(home)'
  BY <1>6, <1>7
<1>9. wk'.pc # "free"
  BY <1>1 DEF AutomaticFits
<1> QED BY <1>1, <1>8, <1>9, AutomaticUntouched

\* A pool loses the address that is taken away, and no other.
LEMMA FreeAddressKeepsAutomatic ==
  ASSUME TypeInv, NEW home \in Homes, AutomaticFits(home), UNCHANGED plan, FreeAddress(TRUE)
  PROVE  AutomaticFits(home)' /\ Steady \subseteq Steady'
<1> DEFINE ip == Head(svc.todo)
           p == PoolOf(svc.copy, ip)
           copy == [svc.copy EXCEPT !.alloc[p] = @ \ {ip}]
           spoilt == Spoil(copy, p)
<1>1. /\ UNCHANGED <<services, svcFeed, svcCache>> /\ svc.pc = "free" /\ svc \in ServiceTask
      /\ svc.todo \in Seq(IPs) /\ svc.todo # <<>> /\ svc.copy \in PoolCopy
      /\ wk \in WorkerTask /\ pools \in [Pools -> SUBSET IPs]
      /\ \/ svc' = Freeing([svc EXCEPT !.todo = Tail(@)]) /\ UNCHANGED <<pools, wk>>
         \/ /\ PoolsOf(svc.copy, ip) # {}
            /\ svc' = Freeing([svc EXCEPT !.todo = Tail(@), !.copy = spoilt])
            /\ \/ /\ p \notin svc.copy.stale /\ pools' = [pools EXCEPT ![p] = copy.alloc[p]]
                  /\ wk' = [wk EXCEPT !.copy = Spoil(@, p)]
               \/ UNCHANGED <<pools, wk>>
  BY DEF FreeAddress, Accepted, TypeInv, TypeOK, TypeOKState, ServiceTaskOK, ServiceTask
<1>2. /\ ip \in IPs /\ ip \in RangeOf(svc.todo) /\ Tail(svc.todo) \in Seq(IPs)
      /\ RangeOf(Tail(svc.todo)) \subseteq RangeOf(svc.todo)
  BY <1>1 DEF RangeOf
<1>3. CopyFits(svc) /\ \A t \in Services : RangeOf(svc.todo) \cap Kept(home, t) \subseteq DOMAIN home
  BY <1>1 DEF AutomaticFits, TaskFits
<1>4. \A t \in Services : ip \notin Kept(home, t)
  BY <1>2, <1>3 DEF Kept, Automatic
<1>5. wk'.pc # "free"
  <2>1. wk'.pc = wk.pc
    BY <1>1 DEF WorkerTask
  <2> QED BY <2>1 DEF AutomaticFits
<1> HIDE DEF ip
<1>6. PoolsOf(svc.copy, ip) # {} =>
        /\ p \in Pools /\ copy.listed = Pools /\ copy.stale = svc.copy.stale
        /\ copy.alloc[p] = svc.copy.alloc[p] \ {ip}
        /\ \A q \in Pools \ {p} : copy.alloc[q] = svc.copy.alloc[q]
        /\ spoilt.listed = Pools /\ spoilt.alloc = copy.alloc /\ spoilt.stale = svc.copy.stale \cup {p}
  <2> SUFFICES ASSUME PoolsOf(svc.copy, ip) # {}
               PROVE  /\ p \in Pools /\ copy.listed = Pools /\ copy.stale = svc.copy.stale
                      /\ copy.alloc[p] = svc.copy.alloc[p] \ {ip}
                      /\ \A q \in Pools \ {p} : copy.alloc[q] = svc.copy.alloc[q]
                      /\ spoilt.listed = Pools /\ spoilt.alloc = copy.alloc
                      /\ spoilt.stale = svc.copy.stale \cup {p}
    OBVIOUS
  <2>1. p \in Pools
    BY <1>1, <1>2, MaskType DEF PoolsOf
  <2> HIDE DEF p
  <2>2. /\ copy \in PoolCopy /\ copy.listed = Pools /\ copy.stale = svc.copy.stale
        /\ copy.alloc[p] = svc.copy.alloc[p] \ {ip}
        /\ \A q \in Pools \ {p} : copy.alloc[q] = svc.copy.alloc[q]
    BY <1>1, <1>3, <2>1 DEF PoolCopy, CopyFits
  <2> HIDE DEF copy
  <2>3. /\ spoilt.listed = Pools /\ spoilt.alloc = copy.alloc /\ spoilt.stale = svc.copy.stale \cup {p}
    BY <2>1, <2>2 DEF Spoil, PoolCopy
  <2> QED BY <2>1, <2>2, <2>3
<1> HIDE DEF p, copy, spoilt
<1>7. \/ UNCHANGED pools
      \/ /\ PoolsOf(svc.copy, ip) # {} /\ p \notin svc.copy.stale
         /\ pools'[p] = pools[p] \ {ip} /\ \A q \in Pools \ {p} : pools'[q] = pools[q]
  BY <1>1, <1>3, <1>6 DEF CopyFits
<1>8. Allocated \ {ip} \subseteq Allocated'
  BY <1>6, <1>7 DEF Allocated
<1>9. Steady' = Steady /\ \A t \in Services : Kept(home, t)' = Kept(home, t)
  BY <1>1 DEF Steady, Kept
<1>10. AskersFit' /\ EventsFit(home)'
  BY <1>1, <1>9 DEF AutomaticFits, AskersFit, EventsFit
<1>11. HoldersFit(home)'
  BY <1>4, <1>8, <1>9 DEF AutomaticFits, HoldersFit
<1>12. TaskFits(home)'
  <2>1. CASE svc' = NoTask
    BY <2>1 DEF TaskFits, NoTask, RangeOf
  <2>2. CASE svc' # NoTask
    <3>1. /\ svc'.pc = "free" /\ svc'.name = svc.name /\ svc'.old = svc.old
          /\ svc'.todo = Tail(svc.todo)
          /\ \/ svc'.copy = svc.copy /\ UNCHANGED pools
             \/ PoolsOf(svc.copy, ip) # {} /\ svc'.copy = spoilt
      BY <1>1, <2>2 DEF Freeing, ServiceTask
    <3>2. CopyFits(svc)'
      BY <1>3, <1>6, <1>7, <3>1 DEF CopyFits
    <3> QED BY <1>1, <1>2, <1>9, <3>1, <3>2 DEF AutomaticFits, TaskFits
  <2> QED BY <2>1, <2>2
<1> QED BY <1>5, <1>9, <1>10, <1>11, <1>12 DEF AutomaticFits

-----------------------------------------------------------------------------
(* The others.  The worker frees no address: a claim without an owner is   *)
(* one of a given address, which no pool has allocated.                    *)
LEMMA WorkerKeepsAutomatic ==
  ASSUME TypeInv, NEW home \in Homes, PoolsFit(home), AutomaticFits(home), UNCHANGED plan,
         OrphanFits(DOMAIN home, wk), ClaimStep
  PROVE  AutomaticFits(home)' /\ Steady \subseteq Steady'
<1>1. wk \in WorkerTask /\ wk.pc # "free"
  BY DEF TypeInv, TypeOK, AutomaticFits
<1>2. ~FreeOrphanAddress(TRUE)
  BY <1>1 DEF FreeOrphanAddress
<1>3. UNCHANGED <<services, svcFeed, svcCache, pools, svc>>
  BY <1>2 DEF ClaimStep, TakeClaim, VerifyClaim, DropOrphan, AssignNode
<1>4. wk'.pc # "free"
  <2>1. CASE TakeClaim \/ VerifyClaim(TRUE) \/ AssignNode
    <3>1. \/ wk' = IdleWorker \/ wk' = [IdleWorker EXCEPT !.pc = "verify", !.key = NextItem(claimQueue)]
          \/ wk' = [wk EXCEPT !.pc = "orphan"] \/ wk' = [wk EXCEPT !.pc = "assign"]
      BY <2>1 DEF TakeClaim, VerifyClaim, AssignNode, Finished
    <3>2. IdleWorker.pc = "idle"
          /\ [IdleWorker EXCEPT !.pc = "verify", !.key = NextItem(claimQueue)].pc = "verify"
      BY DEF IdleWorker
    <3>3. [wk EXCEPT !.pc = "orphan"].pc = "orphan" /\ [wk EXCEPT !.pc = "assign"].pc = "assign"
      BY <1>1 DEF WorkerTask
    <3> QED BY <3>1, <3>2, <3>3
  <2>2. CASE DropOrphan(PoolsRead)
    <3>1. wk.key[1] \in DOMAIN home
      BY <2>2 DEF DropOrphan, OrphanFits
    <3>2. PoolsOf(PoolsRead, wk.key[1]) = {}
      BY <3>1 DEF PoolsOf, PoolsRead, PoolsFit, CopiesWithin, Elsewhere
    <3>3. wk' = IdleWorker
      BY <2>2, <3>2 DEF DropOrphan, Finished
    <3> QED BY <3>3 DEF IdleWorker
  <2> QED BY <1>2, <2>1, <2>2 DEF ClaimStep
<1>5. \A s \in Services : Kept(home, s)' = Kept(home, s)
  BY <1>3 DEF Kept
<1>6. TaskFits(home)'
  BY <1>3, <1>5, TaskStays DEF AutomaticFits
<1> QED BY <1>3, <1>4, <1>6, AutomaticUntouched

LEMMA OthersKeepAutomatic ==
  ASSUME TypeInv, NEW home \in Homes, AutomaticFits(home), UNCHANGED plan,
         \/ ChangeStep \/ ResyncClaims \/ Tick \/ MarkNode
         \/ \E c \in Claim : DeliverClaim(c)
  PROVE  AutomaticFits(home)' /\ Steady \subseteq Steady'
<1>1. /\ UNCHANGED <<services, svcFeed, svcCache, pools, svc>>
      /\ UNCHANGED wk \/ wk' = [wk EXCEPT !.apart = TRUE]
  <2>1. CASE ChangeStep
    BY <2>1 DEF ChangeStep, CreateClaim, AddOwner, UpdateClaim, DeleteClaim
  <2>2. CASE ResyncClaims \/ Tick \/ MarkNode
    BY <2>2 DEF ResyncClaims, Tick, MarkNode
  <2>3. CASE \E c \in Claim : DeliverClaim(c)
    BY <2>3 DEF DeliverClaim
  <2> QED BY <2>1, <2>2, <2>3
<1>2. wk'.pc # "free"
  <2>1. wk \in WorkerTask
    BY DEF TypeInv, TypeOK
  <2>2. wk'.pc = wk.pc
    BY <1>1, <2>1 DEF WorkerTask
  <2> QED BY <2>2 DEF AutomaticFits
<1>3. \A s \in Services : Kept(home, s)' = Kept(home, s)
  BY <1>1 DEF Kept
<1>4. TaskFits(home)'
  BY <1>1, <1>3, TaskStays DEF AutomaticFits
<1> QED BY <1>1, <1>2, <1>4, AutomaticUntouched

LEMMA AutomaticStep ==
  ASSUME TypeInv, NEW home \in Homes, ServicesFit(home), PoolsFit(home), AutomaticFits(home),
         OrphanFits(DOMAIN home, wk), OffersDiffer,
         \A p \in Pools : pools[p] \subseteq OfferedBy(p), [Next]_vars, ~CallFault
  PROVE  AutomaticFits(home)' /\ Steady \subseteq Steady'
<1>1. ASSUME UNCHANGED <<services, plan, svcFeed, svcCache, pools, svc, wk>>
      PROVE  AutomaticFits(home)' /\ Steady \subseteq Steady'
  <2>1. \A s \in Services : Kept(home, s)' = Kept(home, s)
    BY <1>1 DEF Kept
  <2>2. TaskFits(home)' /\ wk'.pc # "free"
    BY <1>1, <2>1, TaskStays DEF AutomaticFits
  <2> QED BY <1>1, <2>2, AutomaticUntouched
<1>2. CASE UNCHANGED vars
  BY <1>1, <1>2 DEF vars, schedVars, envVars
<1>3. CASE \E s \in Services : UserChange(s)
  BY <1>3, UserKeepsAutomatic
<1>4. CASE \E n \in Nodes : Heartbeat(n) \/ NodeFails(n) \/ NodeStarts(n)
  BY <1>1, <1>4 DEF Heartbeat, NodeFails, NodeStarts, schedVars
<1>5. CASE StartWorkers \/ SchedulerFails \/ WatchBreaks
  <2>1. CASE Restarted
    BY <2>1, RestartKeepsAutomatic
  <2>2. CASE ~Restarted
    <3>1. svcFeed' = ListedServices /\ UNCHANGED <<services, pools, plan, svc, svcCache, wk>>
      BY <1>5, <2>2 DEF StartWorkers, SchedulerFails, WatchBreaks
    <3> QED BY <3>1, ListingKeepsAutomatic
  <2> QED BY <2>1, <2>2
<1>6. CASE Goroutines
  <2>1. UNCHANGED plan
    BY <1>6 DEF Goroutines, envVars
  <2>2. CASE ServiceStep
    BY <2>1, <2>2, DeliverKeepsAutomatic, ListForNewKeepsAutomatic, AllocateKeepsAutomatic,
       UpdateServiceKeepsAutomatic, UpdateStatusKeepsAutomatic, ListForOldKeepsAutomatic,
       FreeAddressKeepsAutomatic DEF ServiceStep
  <2>3. CASE ClaimStep
    BY <2>1, <2>3, WorkerKeepsAutomatic
  <2>4. CASE ChangeStep
    BY <2>1, <2>4, OthersKeepAutomatic
  <2> QED BY <1>6, <2>2, <2>3, <2>4 DEF Goroutines
<1>7. CASE (\E c \in Claim : ClaimEvent(c)) \/ MonitorTick \/ Monitor \/ Resync
  BY <1>7, OthersKeepAutomatic DEF ClaimEvent, MonitorTick, Monitor, Resync, envVars
<1> QED BY <1>2, <1>3, <1>4, <1>5, <1>6, <1>7 DEF Next

-----------------------------------------------------------------------------
(* A claim of an automatic address has owners, and they stay: it is never  *)
(* an orphan.                                                              *)
StayingOwners(home, steady) ==
  [c \in Claim |-> IF c[1] \in DOMAIN home THEN SUBSET Services ELSE (SUBSET steady) \ {{}}]

ClaimsStay(home) == OwnersFit(StayingOwners(home, Steady), IPs, DOMAIN home)

LEMMA AskersTell ==
  ASSUME TypeInv, NEW home \in Homes, ServicesFit(home), AskersFit,
         NEW own, own = StayingOwners(home, Steady)
  PROVE  Told(own, IPs, DOMAIN home) /\ Joins(own)
<1>1. DOMAIN home \subseteq IPs
  BY DEF Homes
<1>2. RangeOf(svc.todo) \subseteq IPs
  <2>1. svc.todo \in Seq(IPs)
    BY DEF TypeInv, TypeOK, ServiceTask
  <2> QED BY <2>1 DEF RangeOf
<1>3. Joins(own)
  BY DEF Joins, StayingOwners
<1>4. \A s \in Steady : services[s] # None
  BY AutomaticAddresses DEF Steady
<1>5. ASSUME NEW c \in Claim, NEW owners \in own[c]
      PROVE  IF Alive(owners) = {} THEN c[1] \in DOMAIN home ELSE Alive(owners) \in own[c]
  <2>1. Alive(owners) \subseteq owners
    BY DEF Alive
  <2>2. CASE c[1] \in DOMAIN home
    BY <1>5, <2>1, <2>2 DEF StayingOwners
  <2>3. CASE c[1] \notin DOMAIN home
    <3>1. owners \subseteq Steady /\ owners # {}
      BY <1>5, <2>3 DEF StayingOwners
    <3>2. Alive(owners) = owners
      BY <1>4, <3>1 DEF Alive
    <3> QED BY <1>5, <3>1, <3>2
  <2> QED BY <2>2, <2>3
<1>6. ASSUME svc.pc = "list", NEW c \in Claim,
             \/ c[1] \in AddressesOf(svcCache[svc.name])
             \/ svcCache[svc.name].want # "none" /\ \E p \in Pools : c[1] \in OfferedBy(p)
      PROVE  {svc.name} \in own[c]
  <2>1. svc.name \in Services /\ svcCache[svc.name] # None /\ svcCache[svc.name] \in Service
    BY <1>6 DEF TypeInv, ServiceTaskOK, TypeOK, TypeOKState
  <2>2. CASE c[1] \in DOMAIN home
    BY <2>1, <2>2 DEF StayingOwners
  <2>3. CASE c[1] \notin DOMAIN home
    <3>1. Fits(home, svc.name, svcCache[svc.name])
      BY <2>1 DEF ServicesFit, ObjectsFit, ObjectsFitOf
    <3>2. Asks(svcCache[svc.name])
      BY <1>6, <2>1, <2>3, <3>1, AutomaticAddresses DEF Fits
    <3>3. svc.name \in Steady
      BY <2>1, <3>2 DEF AskersFit, AskersFitOf
    <3> QED BY <2>3, <3>3 DEF StayingOwners
  <2> QED BY <2>2, <2>3
<1> QED BY <1>1, <1>2, <1>3, <1>5, <1>6 DEF Told

LEMMA ClaimsStayStep ==
  ASSUME TypeInv, RequestsOK, NEW home \in Homes, ServicesFit(home), AskersFit, ClaimsStay(home),
         [Next]_vars, Steady \subseteq Steady'
  PROVE  ClaimsStay(home)'
<1>1. PICK own : own = StayingOwners(home, Steady)
  OBVIOUS
<1>2. OwnersFit(own, IPs, DOMAIN home) /\ Told(own, IPs, DOMAIN home) /\ Joins(own)
  BY <1>1, AskersTell DEF ClaimsStay
<1>3. OwnersFit(own, IPs, DOMAIN home)'
  BY <1>2, OwnersFitStep
<1> DEFINE own1 == StayingOwners(home, Steady')
<1>4. \A c \in Claim : own[c] \subseteq own1[c]
  BY <1>1 DEF StayingOwners
<1>5. TypeInv'
  BY StepTypes
<1> HIDE DEF own1
<1>6. /\ StoreFits(own1, claims') /\ StoreFits(own1, claimCache')
      /\ RequestsFit(own1, IPs, changeQueue')
      /\ cw' # None => RequestFits(own1, IPs, cw')
      /\ OrphanFits(DOMAIN home, wk')
  BY <1>3, <1>4, <1>5, OwnersFitLater
<1> QED BY <1>6 DEF ClaimsStay, OwnersFit, own1

-----------------------------------------------------------------------------
(* While no call fails no two services have the same address: those that   *)
(* ask have one that a pool has allocated, and no pool gives it again.     *)
LEMMA CallsSucceedStep ==
  ASSUME TypeInv, CallsSucceed(bounds), [Next]_vars
  PROVE  CallsSucceed(bounds)' /\ ~CallFault
<1>1. failures \in [Kind -> Nat] /\ Kind = {"node", "call", "scheduler", "watch"}
  BY DEF TypeInv, TypeOK, Kind
<1>2. ~Fails("call")
  <2> SUFFICES ASSUME Fails("call") PROVE FALSE
    OBVIOUS
  <2>1. PICK bound \in bounds : \A kind \in Kind : failures'[kind] <= bound[kind]
    BY DEF Fails
  <2>2. failures'["call"] = failures["call"] + 1 /\ bound["call"] = 0
    BY <1>1, <2>1 DEF Fails, CallsSucceed
  <2> QED BY <1>1, <2>1, <2>2
<1>3. ~CallFault
  BY <1>2 DEF CallFault
<1>4. UNCHANGED bounds => CallsSucceed(bounds)'
  BY DEF CallsSucceed
<1>5. CASE UNCHANGED vars
  BY <1>3, <1>4, <1>5 DEF vars, envVars
<1>6. CASE (\E s \in Services : UserChange(s)) \/ \E n \in Nodes : Heartbeat(n) \/ NodeStarts(n)
  BY <1>3, <1>4, <1>6 DEF UserChange, Heartbeat, NodeStarts
<1>7. CASE (\E n \in Nodes : NodeFails(n)) \/ StartWorkers \/ SchedulerFails \/ WatchBreaks
  BY <1>3, <1>4, <1>7 DEF NodeFails, StartWorkers, SchedulerFails, WatchBreaks, Fails
<1>8. CASE Goroutines \/ (\E c \in Claim : ClaimEvent(c)) \/ MonitorTick \/ Monitor \/ Resync
  BY <1>3, <1>4, <1>8 DEF Goroutines, ClaimEvent, MonitorTick, Monitor, Resync, envVars
<1> QED BY <1>3, <1>5, <1>6, <1>7, <1>8 DEF Next

Offers == [p \in Pools |-> OfferedBy(p)]

ApartFits(home) ==
  /\ GivenFits(home) /\ PoolsFit(home) /\ CopiesWithin(Offers)
  /\ CallsSucceed(bounds) /\ AutomaticFits(home) /\ ClaimsStay(home)

LEMMA InitApart ==
  ASSUME \A scenario \in Scenarios :
           /\ GivenForGood(scenario.plan) /\ CallsSucceed(scenario.bounds)
           /\ \A s \in Services : AsksForGood(scenario.plan[s]),
         Init
  PROVE  \E home \in Homes : ApartFits(home)
<1>1. PICK home \in Homes : GivenFits(home)
  BY InitFits
<1>2. PoolsFit(home) /\ CopiesWithin(Offers)
  BY InitCopies DEF PoolsFit
<1>3. CallsSucceed(bounds) /\ \A s \in Services : AsksForGood(plan[s])
  BY DEF Init
<1>4. /\ services = NoServices /\ svcFeed = NoEvents /\ svcCache = NoServices /\ svc = NoTask
      /\ claims = NoClaims /\ claimCache = NoClaims /\ wk = IdleWorker
      /\ changeQueue = <<>> /\ cw = None
  BY DEF Init
<1>5. AskersFit
  BY <1>3, <1>4, AutomaticAddresses DEF AskersFit, AskersFitOf, NoServices, NoEvents
<1>6. \A s \in Services : Kept(home, s) = {}
  BY <1>4, AutomaticAddresses DEF Kept, NoServices
<1>7. EventsFit(home) /\ HoldersFit(home)
  BY <1>4, <1>6 DEF EventsFit, EventsFitOf, HoldersFit, NoServices, NoEvents
<1>8. TaskFits(home) /\ wk.pc # "free"
  BY <1>4 DEF TaskFits, NoTask, RangeOf, IdleWorker
<1>9. ClaimsStay(home)
  BY <1>4 DEF ClaimsStay, OwnersFit, StoreFits, ObjectFits, RequestsFit, OrphanFits, NoClaims,
              IdleWorker
<1> QED BY <1>1, <1>2, <1>3, <1>5, <1>7, <1>8, <1>9 DEF ApartFits, AutomaticFits

LEMMA ApartStep ==
  ASSUME TypeInv, RequestsOK, OffersDiffer, NEW home \in Homes, ApartFits(home), [Next]_vars
  PROVE  ApartFits(home)'
<1>1. CallsSucceed(bounds)' /\ ~CallFault
  BY CallsSucceedStep DEF ApartFits
<1>2. GivenFits(home)' /\ PoolsFit(home)' /\ ServicesFit(home)
  BY GivenFitsStep, PoolsFitStep DEF ApartFits, GivenFits
<1>3. CopiesWithin(Offers)'
  <2>1. AllocatesWithin(Offers)
    BY DEF TypeInv, ServiceTaskOK, AllocatesWithin, Offers
  <2>2. \A B : B = Offers => CopiesWithin(B)'
    BY <2>1, StepCopies DEF ApartFits
  <2>3. Offers' = Offers
    BY DEF Offers
  <2> QED BY <2>2, <2>3
<1>4. AutomaticFits(home)' /\ Steady \subseteq Steady'
  <2>1. \A p \in Pools : pools[p] \subseteq OfferedBy(p)
    BY DEF ApartFits, CopiesWithin, Offers
  <2>2. OrphanFits(DOMAIN home, wk)
    BY DEF ApartFits, ClaimsStay, OwnersFit
  <2> QED BY <1>1, <1>2, <2>1, <2>2, AutomaticStep DEF ApartFits
<1>5. ClaimsStay(home)'
  BY <1>2, <1>4, ClaimsStayStep DEF ApartFits, AutomaticFits
<1> QED BY <1>1, <1>2, <1>3, <1>4, <1>5 DEF ApartFits

LEMMA FitsIsApart ==
  ASSUME TypeInv, NEW home \in Homes, ApartFits(home)
  PROVE  NoSharedAddress
<1> SUFFICES ASSUME NEW s \in Services, NEW t \in Services, NEW ip \in Uses(s), ip \in Uses(t)
             PROVE  s = t
  BY DEF NoSharedAddress
<1>1. ip \in AddressesOf(services[s]) /\ ip \in AddressesOf(services[t])
      /\ services[s] # None /\ services[t] # None
  <2>1. \A u \in Services : services[u] \in Service \cup {None}
    BY DEF TypeInv, TypeOK, TypeOKState
  <2> QED BY <2>1, ServiceAddresses DEF Uses
<1>2. CASE ip \in DOMAIN home
  <2>1. Fits(home, s, services[s]) /\ Fits(home, t, services[t])
    BY <1>1 DEF ApartFits, GivenFits, ServicesFit, ObjectsFit, ObjectsFitOf
  <2> QED BY <1>1, <1>2, <2>1 DEF Fits, GivenOf
<1>3. CASE ip \notin DOMAIN home
  <2>1. ip \in Kept(home, s) /\ ip \in Kept(home, t)
    BY <1>1, <1>3 DEF Kept, Automatic
  <2> QED BY <2>1 DEF ApartFits, AutomaticFits, HoldersFit
<1> QED BY <1>2, <1>3

(* While no call fails, and no service that asks for an address is changed *)
(* into another or deleted, no two services share one, whether users gave  *)
(* it or the scheduler allocated it: no interleaving of users, goroutines, *)
(* restarts and broken watches gives one twice, although the watcher       *)
(* changes its copy of a service before the server has the address, and    *)
(* allocates and releases in lists of the pools that it read before.       *)
THEOREM AddressesAreNotShared ==
  ASSUME \A scenario \in Scenarios :
           /\ GivenForGood(scenario.plan) /\ CallsSucceed(scenario.bounds)
           /\ \A s \in Services : AsksForGood(scenario.plan[s]),
         OffersDiffer
  PROVE  Spec => []NoSharedAddress
<1> DEFINE Inv == \E home \in Homes : ApartFits(home)
<1>1. Init => Inv
  BY InitApart
<1>2. TypeInv /\ Consistent /\ Inv /\ [Next]_vars => Inv'
  <2> SUFFICES ASSUME TypeInv, Consistent, Inv, [Next]_vars PROVE Inv'
    OBVIOUS
  <2>1. PICK home \in Homes : ApartFits(home)
    OBVIOUS
  <2>2. ApartFits(home)'
    BY <2>1, ApartStep DEF Consistent
  <2>3. home \in Homes'
    BY DEF Homes
  <2> QED BY <2>2, <2>3
<1>3. TypeInv /\ Inv => NoSharedAddress
  BY FitsIsApart
<1> HIDE DEF Inv
<1> QED BY <1>1, <1>2, <1>3, InvIsInvariant, PTL DEF Spec

=============================================================================
