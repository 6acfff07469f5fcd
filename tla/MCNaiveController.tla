-------------------------- MODULE MCNaiveController --------------------------
(* Small instances of NaiveController: the failures its .cfg files allow.  *)
EXTENDS NaiveController

(* Both a call to the kernel and the process fail, or only the watch       *)
(* breaks; or only a call fails.                                           *)
Bound(netlink, process, watch) ==
  [k \in Kind |-> CASE k = "netlink" -> netlink [] k = "process" -> process [] k = "watch" -> watch]
CallAndProcess == {Bound(1, 1, 0), Bound(0, 0, 1)}
OneCall == {Bound(1, 0, 0)}
=============================================================================
