---------------------------- MODULE MCSteamCodes ----------------------------
(* Small instances of SteamCodes for TLC. *)
EXTENDS SteamCodes, TLC

CONSTANTS h1, h2, o1

TwoHandlers == {h1, h2}
OneOrder == {o1}
Symmetry == Permutations(Handlers)
PromptOrSlow == {2, 31}
=============================================================================
