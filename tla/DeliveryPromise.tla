-------------------------- MODULE DeliveryPromise --------------------------
(***************************************************************************)
(* What the delivery worker of app/worker.py promises of every order, with *)
(* no claim, no worker and no administrator in sight (README.md:169): what *)
(* was bought is handed to Telegram at most once, an order is called       *)
(* delivered only when Telegram took it, and an order in doubt is put      *)
(* aside for a person and never touched again.                             *)
(***************************************************************************)
EXTENDS Naturals

CONSTANT Orders

VARIABLES
  state,   \* "none", "owed", "delivered" or "review"
  got      \* how many times the purchase was handed over

promise == <<state, got>>

PromiseInit ==
  /\ state = [o \in Orders |-> "none"]
  /\ got = [o \in Orders |-> 0]

Become(Q, from, to) ==
  /\ \A o \in Q : state[o] = from
  /\ state' = [o \in Orders |-> IF o \in Q THEN to ELSE state[o]]

\* The orders of one checkout become paid; an order that costs nothing is
\* delivered by the screen that made it.
Owe(Q) == Become(Q, "none", "owed") /\ UNCHANGED got
GiveAway(o) == Become({o}, "none", "delivered") /\ UNCHANGED got

HandOver(o) ==
  /\ state[o] = "owed"
  /\ got[o] = 0
  /\ got' = [got EXCEPT ![o] = 1]
  /\ UNCHANGED state

Deliver(o) == got[o] = 1 /\ Become({o}, "owed", "delivered") /\ UNCHANGED got

PutAside(Q) == Become(Q, "owed", "review") /\ UNCHANGED got

PromiseNext ==
  \/ \E Q \in SUBSET Orders : Owe(Q) \/ PutAside(Q)
  \/ \E o \in Orders : GiveAway(o) \/ HandOver(o) \/ Deliver(o)

PromiseSpec == PromiseInit /\ [][PromiseNext]_promise
=============================================================================
