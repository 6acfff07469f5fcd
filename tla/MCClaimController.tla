--------------------------- MODULE MCClaimController ---------------------------
(* Small instances of ClaimController: the failures its .cfg files allow.  *)
EXTENDS ClaimController, FiniteSets

(* Any two failures, of one kind or of two.                                *)
Times(k, kinds) == Cardinality({i \in DOMAIN kinds : kinds[i] = k})
TwoFailures == {[k \in Kind |-> Times(k, kinds)] : kinds \in Kind \X Kind}
=============================================================================
