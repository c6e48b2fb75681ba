------------------------- MODULE MCPersonalPayment -------------------------
(* A small instance of PersonalPayment for TLC. *)
EXTENDS PersonalPayment, TLC

CONSTANTS o1, o2, c1, c2, t1, t2, t3

TwoOrders == {o1, o2}
OneCard == {c1}
ThreeTransfers == {t1, t2, t3}
AllToOne == [t \in Transfers |-> c1]

\* Only the first transfer does, the others are other payments to the owner.
OnePayment == {t1} \X Orders
=============================================================================
