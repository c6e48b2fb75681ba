---------------------------- MODULE MCBroadcasts ----------------------------
(* Small instances of Broadcasts for TLC. *)
EXTENDS Broadcasts

ThreeUsers == {1, 2, 3}
=============================================================================
