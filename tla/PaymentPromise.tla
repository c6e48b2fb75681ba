--------------------------- MODULE PaymentPromise ---------------------------
(***************************************************************************)
(* What the shop promises to buyers who pay by a transfer, however it      *)
(* learns of the payment, from the owner's statement (app/personal.py) or  *)
(* from a screenshot (app/bot.py, app/admin.py): a proof pays the orders   *)
(* of one checkout, all of them and only while they wait, it is accepted   *)
(* once and for good, and what is bought or closed stays so.               *)
(***************************************************************************)
CONSTANTS
  Orders,
  Proofs     \* what may show a payment: transfers or receipts

VARIABLES
  state,     \* "absent", "waiting_payment", "paid" or "cancelled"
  accepted   \* the orders each proof has been accepted for

promise == <<state, accepted>>

PromiseInit ==
  /\ state = [o \in Orders |-> "absent"]
  /\ accepted = [g \in Proofs |-> {}]

\* The orders of a checkout take their steps together.
Become(Q, from, to) ==
  /\ Q # {} /\ \A o \in Q : state[o] = from
  /\ state' = [o \in Orders |-> IF o \in Q THEN to ELSE state[o]]

Open(Q) == Become(Q, "absent", "waiting_payment") /\ UNCHANGED accepted
Close(Q) == Become(Q, "waiting_payment", "cancelled") /\ UNCHANGED accepted

Accept(g, Q) ==
  /\ accepted[g] = {}
  /\ accepted' = [accepted EXCEPT ![g] = Q]

Buy(Q, g) == Become(Q, "waiting_payment", "paid") /\ Accept(g, Q)

\* A proof of a payment for an order that is settled already changes nothing.
TooLate(o, g) ==
  /\ state[o] \in {"paid", "cancelled"}
  /\ Accept(g, {o})
  /\ UNCHANGED state

\* Every step changes something: orders, or only what a proof has been accepted for.
PromiseNext ==
  \/ /\ state' # state
     /\ \E Q \in SUBSET Orders : Open(Q) \/ Close(Q) \/ \E g \in Proofs : Buy(Q, g)
  \/ /\ accepted' # accepted
     /\ \E o \in Orders, g \in Proofs : TooLate(o, g)

PromiseSpec == PromiseInit /\ [][PromiseNext]_promise
=============================================================================
