----------------------------- MODULE MCDelivery -----------------------------
(* Small instances of Delivery for TLC. *)
EXTENDS Delivery, TLC

CONSTANTS o1, o2, a1, a2

TwoOrders == {o1, o2}
LastByHand == {o2}
TwoAdmins == {a1, a2}
Nobody == {}
=============================================================================
