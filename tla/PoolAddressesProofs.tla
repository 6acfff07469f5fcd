-------------------------- MODULE PoolAddressesProofs --------------------------
(***************************************************************************)
(* What AvailableIP returns, for networks and ranges of any size.          *)
(***************************************************************************)
EXTENDS PoolAddresses, TLAPS, WellFoundedInduction

\* A nonempty set of naturals has a least element, so Min returns it.
LEMMA MinIsLeast ==
  ASSUME NEW S, S \subseteq Nat, S # {}
  PROVE  Min(S) \in S /\ \A y \in S : Min(S) <= y
<1> DEFINE Less == {ss \in Nat \X Nat : ss[1] < ss[2]}
<1>1. IsWellFoundedOn(Less, Nat)
  BY NatLessThanWellFounded, Zenon DEF OpToRel
<1>2. PICK k \in S : \A y \in S : ~(<<y, k>> \in Less)
  <2> HIDE DEF Less
  <2> QED BY <1>1, WFMin, Zenon
<1>3. \A y \in S : ~(y < k)
  BY <1>2
<1>4. \A y \in S : k <= y
  BY <1>3
<1> QED BY <1>4 DEF Min

(* AvailableIP returns an address that is not allocated, the first one on  *)
(* its walk; a walk is begun only when the ones before it have nothing.    *)
THEOREM AvailableIPIsFirstFree ==
  ASSUME NEW offered, DOMAIN offered \subseteq Nat,
         \A k \in DOMAIN offered : offered[k] \subseteq Nat,
         NEW allocated, HasAvailableIP(offered, allocated)
  PROVE  LET ip == AvailableIP(offered, allocated) IN
         /\ ip \notin allocated
         /\ \E k \in DOMAIN offered :
              /\ ip \in offered[k]
              /\ \A a \in offered[k] : a < ip => a \in allocated
              /\ \A j \in DOMAIN offered : j < k => offered[j] \subseteq allocated
<1> DEFINE K == WalksWithFree(offered, allocated)
           k == Min(K)
           F == FreeOn(offered, k, allocated)
<1>2. k \in K /\ \A j \in K : k <= j
  <2>1. K \subseteq Nat /\ K # {}
    BY DEF HasAvailableIP, WalksWithFree
  <2> QED BY <2>1, MinIsLeast
<1>3. Min(F) \in F /\ \A a \in F : Min(F) <= a
  <2>1. F \subseteq Nat /\ F # {}
    BY <1>2 DEF WalksWithFree, FreeOn
  <2> QED BY <2>1, MinIsLeast
<1>4. k \in DOMAIN offered /\ F \subseteq offered[k] /\ F \subseteq Nat
  BY <1>2 DEF WalksWithFree, FreeOn
<1>5. \A a \in offered[k] : a < Min(F) => a \in allocated
  BY <1>3, <1>4 DEF FreeOn
<1>6. ASSUME NEW j \in DOMAIN offered, j < k
      PROVE  offered[j] \subseteq allocated
  <2>1. j \in Nat /\ k \in Nat /\ ~(k <= j)
    <3> HIDE DEF k
    <3> QED BY <1>4, <1>6
  <2>2. j \notin K
    BY <1>2, <2>1
  <2> QED BY <2>2 DEF WalksWithFree, FreeOn
<1>7. AvailableIP(offered, allocated) = Min(F) /\ Min(F) \notin allocated
  BY <1>3 DEF AvailableIP, FreeOn
<1> QED BY <1>3, <1>4, <1>5, <1>6, <1>7

-----------------------------------------------------------------------------
(* A walk goes from its start to the address before the one it stops at,   *)
(* and never to the last address of the network; a walk that starts behind *)
(* its stop runs to the end of the network, one that starts before the     *)
(* network comes to nothing.                                               *)
LEMMA WalkIsInterval ==
  ASSUME NEW net, NEW walk, None \notin Nat,
         net.first \in Nat, net.last \in Nat, walk.from \in Nat,
         walk.dropOff \in Nat \cup {None}
  PROVE  Visited(net, walk) =
           {a \in Nat : /\ net.first <= walk.from /\ walk.from <= a /\ a < net.last
                        /\ walk.dropOff \in Nat /\ walk.from <= walk.dropOff
                             => a < walk.dropOff}
<1> DEFINE I == {a \in Nat : /\ net.first <= walk.from /\ walk.from <= a /\ a < net.last
                             /\ walk.dropOff \in Nat /\ walk.from <= walk.dropOff
                                  => a < walk.dropOff}
<1>1. ASSUME NEW a \in Visited(net, walk) PROVE a \in I
  <2>1. /\ a \in Nat /\ walk.from <= a
        /\ \A b \in walk.from..a : InNetwork(net, b) /\ InNetwork(net, b + 1) /\ b # walk.dropOff
    BY DEF Visited, IPIncrement
  <2>2. net.first <= walk.from /\ a + 1 <= net.last
    BY <2>1 DEF InNetwork
  <2>3. walk.dropOff \in Nat /\ walk.from <= walk.dropOff => a < walk.dropOff
    BY <2>1
  <2> QED BY <2>1, <2>2, <2>3
<1>2. ASSUME NEW a \in I PROVE a \in Visited(net, walk)
  <2>1. a \in net.first..net.last /\ walk.from <= a
    OBVIOUS
  <2>2. ASSUME NEW b \in walk.from..a
        PROVE  b \in net.first..net.last /\ b + 1 \in net.first..net.last /\ b # walk.dropOff
    OBVIOUS
  <2> QED BY <2>1, <2>2 DEF Visited, InNetwork, IPIncrement
<1> QED BY <1>1, <1>2

(* A pool with ranges offers them in order, each up to its last address,   *)
(* but never the last address of the network or what is behind it, and     *)
(* nothing of a range that starts before the network.                      *)
THEOREM RangesAreOffered ==
  ASSUME NEW net, None \notin Nat, net.first \in Nat, net.last \in Nat,
         net.ranges # None, net.ranges \in Seq(Nat \X Nat),
         \A k \in DOMAIN net.ranges : net.ranges[k][1] <= net.ranges[k][2]
  PROVE  Offered(net) =
           [k \in DOMAIN net.ranges |->
              {a \in net.ranges[k][1]..net.ranges[k][2] :
                 net.first <= net.ranges[k][1] /\ a < net.last}]
<1>1. DOMAIN Walks(net) = DOMAIN net.ranges
  BY DEF Walks
<1>2. ASSUME NEW k \in DOMAIN net.ranges
      PROVE  Visited(net, Walks(net)[k]) =
               {a \in net.ranges[k][1]..net.ranges[k][2] :
                  net.first <= net.ranges[k][1] /\ a < net.last}
  <2> DEFINE walk == Walks(net)[k]
             first == net.ranges[k][1]
             last == net.ranges[k][2]
  <2>1. net.ranges[k] \in Nat \X Nat
    OBVIOUS
  <2>2. Len(net.ranges[k]) = 2
    BY <2>1
  <2>3. walk.from = first /\ walk.dropOff = last + 1
    BY <2>2 DEF Walks, IPIncrement
  <2>4. first \in Nat /\ last \in Nat /\ first <= last
    BY <2>1
  <2>5. Visited(net, walk) =
          {a \in Nat : /\ net.first <= walk.from /\ walk.from <= a /\ a < net.last
                       /\ walk.dropOff \in Nat /\ walk.from <= walk.dropOff
                            => a < walk.dropOff}
    <3>1. walk.from \in Nat /\ walk.dropOff \in Nat \cup {None}
      BY <2>3, <2>4
    <3> HIDE DEF walk
    <3> QED BY <3>1, WalkIsInterval
  <2> HIDE DEF walk
  <2>6. Visited(net, walk) = {a \in first..last : net.first <= first /\ a < net.last}
    <3>1. last + 1 \in Nat /\ first <= last + 1
      BY <2>4
    <3>2. Visited(net, walk) =
            {a \in Nat : net.first <= first /\ first <= a /\ a < net.last /\ a < last + 1}
      BY <2>3, <2>5, <3>1
    <3> HIDE DEF first, last
    <3>3. \A a : a \in first..last <=> a \in Nat /\ first <= a /\ a < last + 1
      BY <2>4
    <3> QED BY <3>2, <3>3
  <2> QED BY <2>6 DEF walk
<1> QED BY <1>1, <1>2 DEF Offered

(* Without ranges a pool offers what is behind the address its CIDR is     *)
(* written with, except the last address of the network.                   *)
THEOREM NetworkIsOffered ==
  ASSUME NEW net, None \notin Nat, net.first \in Nat, net.last \in Nat,
         net.ranges = None, net.ip \in net.first..net.last
  PROVE  Offered(net) = <<{a \in Nat : net.ip < a /\ a < net.last}>>
<1> DEFINE walk == [from |-> net.ip + 1, dropOff |-> None]
<1>1. Walks(net) = <<walk>>
  BY DEF Walks, IPIncrement
<1>2. Visited(net, walk) =
        {a \in Nat : /\ net.first <= walk.from /\ walk.from <= a /\ a < net.last
                     /\ walk.dropOff \in Nat /\ walk.from <= walk.dropOff
                          => a < walk.dropOff}
  <2>1. walk.from \in Nat /\ walk.dropOff \in Nat \cup {None}
    OBVIOUS
  <2> HIDE DEF walk
  <2> QED BY <2>1, WalkIsInterval
<1>3. Visited(net, walk) = {a \in Nat : net.ip < a /\ a < net.last}
  BY <1>2
<1> QED BY <1>1, <1>3 DEF Offered

-----------------------------------------------------------------------------
(* The addresses of a pool, told by its CIDR and its ranges and not by any *)
(* walk: with ranges those in a range that starts in the network, without  *)
(* those behind the address of the CIDR; never the last of the network.    *)
InSomeRange(net, a) ==
  \E k \in DOMAIN net.ranges :
    net.first <= net.ranges[k][1] /\ a \in net.ranges[k][1]..net.ranges[k][2]
Usable(net) ==
  {a \in Nat : a < net.last /\ IF net.ranges = None THEN net.ip < a ELSE InSomeRange(net, a)}

(* AvailableIP fails when all the usable addresses of the pool are         *)
(* allocated, and only then: no walk stops short of an address or goes     *)
(* round one, whatever the network, the ranges and their overlaps.         *)
THEOREM ErrorOnlyWhenExhausted ==
  ASSUME NEW net, None \notin Nat, net.first \in Nat, net.last \in Nat,
         \/ net.ranges = None /\ net.ip \in net.first..net.last
         \/ /\ net.ranges # None /\ net.ranges \in Seq(Nat \X Nat)
            /\ \A k \in DOMAIN net.ranges : net.ranges[k][1] <= net.ranges[k][2],
         NEW allocated
  PROVE  ~HasAvailableIP(Offered(net), allocated) <=> Usable(net) \subseteq allocated
<1>1. UNION {Offered(net)[k] : k \in DOMAIN Offered(net)} = Usable(net)
  <2>1. CASE net.ranges = None
    <3> DEFINE behind == {a \in Nat : net.ip < a /\ a < net.last}
    <3>1. Offered(net) = <<behind>>
      BY <2>1, NetworkIsOffered
    <3>2. Usable(net) = behind
      BY <2>1 DEF Usable
    <3> HIDE DEF behind
    <3> QED BY <3>1, <3>2
  <2>2. CASE net.ranges # None
    <3> DEFINE part(k) == {a \in net.ranges[k][1]..net.ranges[k][2] :
                             net.first <= net.ranges[k][1] /\ a < net.last}
    <3>1. Offered(net) = [k \in DOMAIN net.ranges |-> part(k)]
      BY <2>2, RangesAreOffered
    <3>2. \A k \in DOMAIN net.ranges : net.ranges[k][1] \in Nat /\ net.ranges[k][2] \in Nat
      BY <2>2
    <3>3. \A a : a \in Usable(net) <=> \E k \in DOMAIN net.ranges : a \in part(k)
      BY <2>2, <3>2 DEF Usable, InSomeRange
    <3> HIDE DEF part
    <3> QED BY <3>1, <3>3
  <2> QED BY <2>1, <2>2
<1>2. HasAvailableIP(Offered(net), allocated)
        <=> \E k \in DOMAIN Offered(net) : ~(Offered(net)[k] \subseteq allocated)
  BY DEF HasAvailableIP, WalksWithFree, FreeOn
<1> QED BY <1>1, <1>2
=============================================================================
