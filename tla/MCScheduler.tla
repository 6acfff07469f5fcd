----------------------------- MODULE MCScheduler -----------------------------
(* Small instances of Scheduler: the values its .cfg files give constants. *)
EXTENDS Scheduler, SequencesExt

CONSTANTS s1, s2, ip1, ip2, ip3, m32, m24

Given(ips) == [ips |-> ips, want |-> "none"]
Auto == [ips |-> <<>>, want |-> "auto"]
Balanced == [ips |-> <<>>, want |-> "lb"]

NoFailure == [k \in Kind |-> 0]
NoFailures == {NoFailure}
OneNodeFailure == {[NoFailure EXCEPT !["node"] = 1]}
OneCallFailure == {[NoFailure EXCEPT !["call"] = 1]}
OneRestart == {[NoFailure EXCEPT !["scheduler"] = 1]}
OneBreak == {[NoFailure EXCEPT !["watch"] = 1]}
RestartOrBreak == OneRestart \cup OneBreak
AnyFailure == OneCallFailure \cup RestartOrBreak

(* No pools; or one pool of a /24 net, cut down to what the run needs: a   *)
(* net of four addresses, two of them usable, its CIDR written with host   *)
(* bits or without, or a range of three.                                   *)
NoMask == <<>>
NoNet == <<>>
OneMask == <<m24>>
TwoAddresses == <<[ip |-> 0, first |-> 0, last |-> 3, ranges |-> None]>>
HostBits == <<[ip |-> 1, first |-> 0, last |-> 3, ranges |-> None]>>
ThreeAddresses == <<[ip |-> 0, first |-> 0, last |-> 7, ranges |-> <<<<1, 3>>>>]>>

(* The pools of a net of four addresses with no ranges, or one or two that *)
(* start in the net.  The CIDR is written with the address of the network. *)
SmallRanges == {r \in (4..7) \X (4..8) : r[1] <= r[2]}
SmallPools ==
  [ip : {4}, first : {4}, last : {7},
   ranges : {None} \cup {<<r>> : r \in SmallRanges} \cup SmallRanges \X SmallRanges]

(* What the documentation says a pool offers, in order: the addresses of   *)
(* its ranges, without ranges those of the network but its first; the last *)
(* of the network is never used.                                           *)
Offer(net) ==
  LET upTo(a, b) == [k \in 1..(b + 1 - a) |-> a + k - 1]
      all == IF net.ranges = None THEN upTo(net.first + 1, net.last)
             ELSE FlattenSeq([k \in DOMAIN net.ranges |-> upTo(net.ranges[k][1], net.ranges[k][2])])
  IN SelectSeq(all, LAMBDA a : a < net.last)

WalksInOrder(net, allocated) ==
  LET left == SelectSeq(Offer(net), LAMBDA a : a \notin allocated) IN
  IF left = <<>> THEN ~HasAvailableIP(Offered(net), allocated)
  ELSE /\ HasAvailableIP(Offered(net), allocated)
       /\ AvailableIP(Offered(net), allocated) = Head(left)

EveryPoolWalksInOrder ==
  \A net \in SmallPools, allocated \in SUBSET (4..7) : WalksInOrder(net, allocated)

(* A pool allocates what it offers and nothing else; AvailableIP walks the *)
(* ranges of any pool to the first address that is not allocated, whatever *)
(* was allocated and freed before, and finds none only when all the pool   *)
(* offers is allocated.                                                    *)
PoolsOfferTheirRange ==
  /\ EveryPoolWalksInOrder
  /\ \A p \in Pools : pools[p] \subseteq RangeOf(Offer(PoolNet[p]))

(* The scheduler handled the service, which asks for an address, and did   *)
(* not find any.                                                           *)
LeftWithout(s) ==
  /\ phase = "running" /\ svc.pc = "idle" /\ svcFeed[s] = <<>> /\ svcCache[s] # None
  /\ svcCache[s].want # "none" /\ svcCache[s].ips = <<>>

(* While nothing is freed, a service that asks is left without an address  *)
(* only when all that the pools offer is allocated.                        *)
AskersGetTheNetwork ==
  \A s \in Services : LeftWithout(s) =>
    \A p \in Pools : RangeOf(Offer(PoolNet[p])) \subseteq pools[p]

Only(changes) == s1 :> changes
Both(changes1, changes2) == (s1 :> changes1) @@ (s2 :> changes2)

(* A service gets an address, another one, and is deleted.                 *)
Edited == <<Given(<<ip1>>), Given(<<ip2>>), None>>
(* A service that asks for an address is changed or deleted.               *)
Touched == <<Auto, Touch, None>>
AutoDeleted == <<Auto, None>>
BalancedDeleted == <<Balanced, None>>

GivenDeleted == <<Given(<<ip1>>), None>>

With(plans, failing) == [plan : plans, bounds : {failing}]

Undisturbed ==
  With({Both(Edited, <<>>), Both(Touched, <<>>), Both(BalancedDeleted, <<>>), Both(<<Auto>>, <<Balanced>>)},
       NoFailures)
  \cup With({Both(GivenDeleted, <<>>)}, RestartOrBreak)
Disturbed == With({Only(Edited), Only(AutoDeleted), Only(BalancedDeleted)}, AnyFailure)
Created == {Only(<<Given(<<ip1>>)>>)}
CreatedTwo == {Both(<<Given(<<ip1>>)>>, <<Given(<<ip2>>)>>)}
Shared == {Both(<<Given(<<ip1>>)>>, <<Given(<<ip1>>)>>)}
TwoServices == With(CreatedTwo \cup Shared, OneNodeFailure)
LostUpdate == With(Created, OneCallFailure)
StartRace == With(Created, OneRestart)
Recreated == With({Only(<<Given(<<ip1>>), None, Given(<<ip1>>)>>)}, NoFailures)
Asking == With({Both(<<Auto>>, <<Auto>>)}, NoFailures)
Replaced == With({Both(AutoDeleted, <<Auto>>)}, NoFailures)
=============================================================================
