----------------------------- MODULE MCReceipts -----------------------------
(* Small instances of Receipts for TLC. *)
EXTENDS Receipts, TLC

CONSTANTS o1, o2, i1, i2, i3, u1

TwoOrders == {o1, o2}
ThreeImages == {i1, i2, i3}
SameBuyer == [o \in Orders |-> u1]

TwoCards == {1, 2}
TwoNumbers == {5077, 1234}
OneIban == {29456}

\* What is read in a screenshot of a payment of 200 hryvnias to the first card.
Good == [amount |-> 20000, fee |-> Missing, total |-> Missing, card |-> 77, iban |-> NoNumber,
         time |-> "within"]

SomeAnswers ==
  {Good,
   [Good EXCEPT !.amount = 19500], [Good EXCEPT !.amount = 19499],
   [Good EXCEPT !.amount = 20500], [Good EXCEPT !.amount = 20501],
   [Good EXCEPT !.amount = 21000, !.fee = 1000], [Good EXCEPT !.amount = 300, !.fee = 1000, !.total = 21000],
   [Good EXCEPT !.amount = 300, !.fee = 1000], [Good EXCEPT !.amount = Missing],
   [Good EXCEPT !.amount = Garbled], [Good EXCEPT !.card = 5077], [Good EXCEPT !.card = 1234],
   [Good EXCEPT !.card = NoNumber], [Good EXCEPT !.card = NoNumber, !.iban = 456],
   [Good EXCEPT !.time = "beyond"], [Good EXCEPT !.time = "missing"], [Good EXCEPT !.time = "malformed"]}

Symmetry == Permutations(Orders) \cup Permutations(Images)
=============================================================================
