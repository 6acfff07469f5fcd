---------------------------- MODULE PoolAddresses ----------------------------
(***************************************************************************)
(* AvailableIP: the address of a pool that is allocated next.  Addresses   *)
(* are numbers.                                                            *)
(*                                                                         *)
(* net.first..net.last is the network of the pool's CIDR, net.ip the       *)
(* address the CIDR is written with, net.ranges None or the pool's Ranges, *)
(* each a sequence of addresses.                                           *)
(***************************************************************************)
EXTENDS Naturals, Sequences, FiniteSetsExt

CONSTANT None  \* no object, no node, no ranges, no address

(* The carry goes from byte to byte; no network reaches to where it would  *)
(* leave the 16 bytes of an address.                                       *)
IPIncrement(a) == a + 1

InNetwork(net, a) == a \in net.first..net.last

\* A mutant: the last address of a range is not part of it.
Walks_Exclusive(net) ==
  IF net.ranges = None THEN <<[from |-> IPIncrement(net.ip), dropOff |-> None]>>
  ELSE [k \in DOMAIN net.ranges |->
          [from |-> net.ranges[k][1], dropOff |-> net.ranges[k][Len(net.ranges[k])]]]

(* Where each walk starts and the address it stops at.  Without ranges     *)
(* there is one walk, which starts behind the address of the CIDR.         *)
Walks(net) ==
  IF net.ranges = None THEN <<[from |-> IPIncrement(net.ip), dropOff |-> None]>>
  ELSE [k \in DOMAIN net.ranges |->
          [from |-> net.ranges[k][1], dropOff |-> IPIncrement(net.ranges[k][Len(net.ranges[k])])]]

(* The addresses a walk comes to: the network contains each of them and    *)
(* the one after it, and none is where the walk stops.                     *)
Visited(net, walk) ==
  {a \in net.first..net.last :
     /\ walk.from <= a
     /\ \A b \in walk.from..a :
          InNetwork(net, b) /\ InNetwork(net, IPIncrement(b)) /\ b # walk.dropOff}

(* What the walks over a pool come to, walk by walk.                       *)
Offered(net) == [k \in DOMAIN Walks(net) |-> Visited(net, Walks(net)[k])]

FreeOn_Any(offered, k, allocated) == offered[k]  \* a mutant: Allocated is not looked at
FreeOn(offered, k, allocated) == offered[k] \ allocated

WalksWithFree(offered, allocated) == {k \in DOMAIN offered : FreeOn(offered, k, allocated) # {}}

(* AvailableIP returns an error when there is none.                        *)
HasAvailableIP(offered, allocated) == WalksWithFree(offered, allocated) # {}
AvailableIP(offered, allocated) ==
  Min(FreeOn(offered, Min(WalksWithFree(offered, allocated)), allocated))
=============================================================================
