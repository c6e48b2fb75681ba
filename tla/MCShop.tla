------------------------------- MODULE MCShop -------------------------------
(* Small instances of Shop for TLC. *)
EXTENDS Shop, TLC

CONSTANTS u1, u2, p1, p2, o1, o2, t1

OneUser == {u1}
TwoUsers == {u1, u2}
OneOrder == {o1}
OneProduct == {p1}
TwoProducts == {p1, p2}
NoProduct == {}
TwoOrders == {o1, o2}
OneTerm == {t1}

OneUnit == [p \in Tracked |-> 1]
NoUnits == [p \in Tracked |-> 0]

Acquiring == {"acquiring"}
AcquiringOrFree == {"acquiring", "free"}
Transfer == {"personal"}
SinglePath == {"single"}
CartPath == {"cart"}
BothPaths == {"single", "cart"}
Sound == {"none"}
AllFlaws == {"none", "amount", "date"}

UserOrderSymmetry == Permutations(OrderIds) \cup Permutations(Users)
Symmetry == Permutations(OrderIds) \cup Permutations(Users) \cup Permutations(Products)
=============================================================================
