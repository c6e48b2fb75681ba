---------------------------- MODULE MCCatalogue -----------------------------
(* Small instances of Catalogue for TLC. *)
EXTENDS Catalogue, TLC

CONSTANTS a1, a2, x, y

TwoAdmins == {a1, a2}
TwoAccounts == {x, y}
Symmetry == Permutations(TwoAdmins) \cup Permutations(TwoAccounts)
=============================================================================
