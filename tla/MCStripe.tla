------------------------------ MODULE MCStripe ------------------------------
(* Instances of Stripe for TLC: p1 subscribes to more than p2, which has no *)
(* secret and an onFail that asks for the client; there may be an endpoint  *)
(* of an earlier version.                                                   *)
EXTENDS Stripe

CONSTANTS p1, p2, x, y
MCEventTypes == {<<x>>, <<x, y>>}
MCEventsOf == [p \in Process |-> IF p = p1 THEN <<x, y>> ELSE <<x>>]
MCVersionOf == [p \in Process |-> "v2"]
MCFormer == {<<>>, <<[enabled |-> TRUE, events |-> <<x>>, version |-> "v1"]>>}
=============================================================================
