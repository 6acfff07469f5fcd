------------------------------ MODULE NetUtils ------------------------------
(***************************************************************************)
(* The addresses on a controller's interface.  A call reads them, changes  *)
(* them at most once and tells whether it succeeded; only one goroutine of *)
(* a controller makes these calls, so a call is one step.                  *)
(***************************************************************************)
Outcome(addrs, ok) == [addrs |-> addrs, ok |-> ok]

(* EnsureIPAssigned: nothing to do when the address is there.  A failing   *)
(* call may have added the address already: the announcement, which comes  *)
(* after it, failed.                                                       *)
EnsureIPAssigned(addrs, a, failing) ==
  IF failing THEN {Outcome(addrs, FALSE), Outcome(addrs \cup {a}, FALSE)}
  ELSE {Outcome(addrs \cup {a}, TRUE)}

EnsureIPUnassigned(addrs, a, failing) ==
  IF failing THEN {Outcome(addrs, FALSE)} ELSE {Outcome(addrs \ {a}, TRUE)}
=============================================================================
