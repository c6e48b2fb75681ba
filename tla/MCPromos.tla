------------------------------ MODULE MCPromos ------------------------------
(* Small instances of Promos for TLC. *)
EXTENDS Promos, TLC

CONSTANTS referrer, friend, k1, k2, A, r1, r2, r3

TwoUsers == {referrer, friend}
TwoCheckouts == {k1, k2}
FriendBuys == [k \in Checkouts |-> friend]
FourCodes == {A, r1, r2, r3}
HalfOnce == A :> [percent |-> 50, limit |-> 1, cap |-> 5000]
AGift == [percent |-> 100, limit |-> 1, cap |-> 5000]
OneLevel == {[threshold |-> 5000, percent |-> 50]}

Single == [cart |-> FALSE, prices |-> <<4950>>, tip |-> 15]
Cart == [cart |-> TRUE, prices |-> <<10050, 4950>>, tip |-> 0]
SingleAndCart == {Single, Cart}
OneOfEach == [k \in Checkouts |-> IF k = k1 THEN {Single} ELSE {Cart}]

JustA == {A}
TheFriend == {friend}
Symmetry == Permutations({r1, r2, r3})
=============================================================================
