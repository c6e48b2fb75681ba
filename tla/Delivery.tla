------------------------------ MODULE Delivery ------------------------------
(***************************************************************************)
(* The worker of app/worker.py: deliver_one hands paid orders over through *)
(* Telegram, notify_admin tells the administrators of every order that is  *)
(* settled.  One worker runs them in turn; a transaction is one step, and  *)
(* so is every call to Telegram, whose answer may be lost.                 *)
(***************************************************************************)
EXTENDS Naturals, FiniteSets

CONSTANTS
  Orders,
  Manual,        \* orders an administrator hands over (delivery_mode "manual")
  Admins,        \* all_admin_ids
  Unreachable,   \* administrators Telegram refuses to write to
  Batch,         \* orders delivered in one round of the worker (20)
  NotifyLimit,   \* orders notify_admin reads at once (20)
  None

ASSUME DeliveryAssumption ==
  /\ Manual \subseteq Orders
  /\ Unreachable \subseteq Admins
  /\ Batch \in Nat \ {0}
  /\ NotifyLimit \in Nat \ {0}
  /\ IsFiniteSet(Orders)
  /\ None \notin Orders

VARIABLES
  status,     \* orders.status; "unpaid" stands for everything before "paid"
  paidAt,     \* orders.paid_at; the orders of one checkout share it
  claim,      \* orders.delivery_claimed_at: "none", "fresh", or "old" after 5 minutes
  uncertain,  \* orders.delivery_uncertain
  notified,   \* orders.admin_notified
  info,       \* the setting admin_info_notifications
  worker,     \* the worker's place in its loop and what its session holds
  inbox,      \* how often Telegram took the message with the purchase
  told        \* the administrators Telegram took a notification for

vars == <<status, paidAt, claim, uncertain, notified, info, worker, inbox, told>>
columns == <<status, paidAt, claim, uncertain, notified>>

Start == [pc |-> "claim", n |-> 0, order |-> None,
          left |-> {},      \* orders notify_admin has still to look at
          info |-> TRUE,    \* the setting as notify_admin read it
          todo |-> {},      \* administrators still to be told of worker.order
          dirty |-> {}]     \* orders marked uncertain in the session, not committed

Init ==
  /\ status = [o \in Orders |-> "unpaid"]
  /\ paidAt = [o \in Orders |-> 0]
  /\ claim = [o \in Orders |-> "none"]
  /\ uncertain = [o \in Orders |-> FALSE]
  /\ notified = [o \in Orders |-> FALSE]
  /\ info = TRUE
  /\ worker = Start
  /\ inbox = [o \in Orders |-> 0]
  /\ told = [o \in Orders |-> {}]

(***************************************************************************)
(* The rest of the program.                                                *)
(***************************************************************************)
\* A checkout is confirmed: its orders become paid at one moment.
Pay(Q) ==
  /\ Q # {} /\ \A o \in Q : status[o] = "unpaid"
  /\ status' = [o \in Orders |-> IF o \in Q THEN "paid" ELSE status[o]]
  /\ paidAt' = [o \in Orders |->
                  IF o \in Q THEN 1 + Cardinality({q \in Orders : paidAt[q] # 0}) ELSE paidAt[o]]
  /\ UNCHANGED <<claim, uncertain, notified, info, worker, inbox, told>>

\* A single product that costs nothing is delivered by the checkout itself.
CompleteFree(o) ==
  /\ status[o] = "unpaid"
  /\ status' = [status EXCEPT ![o] = "delivered"]
  /\ paidAt' = [paidAt EXCEPT ![o] = 1 + Cardinality({q \in Orders : paidAt[q] # 0})]
  /\ UNCHANGED <<claim, uncertain, notified, info, worker, inbox, told>>

FiveMinutesPass(o) ==
  /\ claim[o] = "fresh"
  /\ claim' = [claim EXCEPT ![o] = "old"]
  /\ UNCHANGED <<status, paidAt, uncertain, notified, info, worker, inbox, told>>

SwitchInfo ==
  /\ info' = ~info
  /\ UNCHANGED <<columns, worker, inbox, told>>

(***************************************************************************)
(* deliver_one: a durable claim, the message, and the record of it.        *)
(***************************************************************************)
Claimable == {o \in Orders : status[o] = "paid" /\ claim[o] = "none" /\ ~uncertain[o]}

\* Mutation: the round has no limit.
Claim_Unlimited(o) ==
  /\ worker.pc = "claim"
  /\ o \in Claimable
  /\ \A q \in Claimable : paidAt[o] <= paidAt[q]
  /\ claim' = [claim EXCEPT ![o] = "fresh"]
  /\ worker' = [worker EXCEPT !.pc = "send", !.order = o, !.n = @ + 1]
  /\ UNCHANGED <<status, paidAt, uncertain, notified, info, inbox, told>>

\* The oldest claimable order; worker.n counts the calls of this round.
Claim(o) ==
  /\ worker.pc = "claim" /\ worker.n < Batch
  /\ o \in Claimable
  /\ \A q \in Claimable : paidAt[o] <= paidAt[q]
  /\ claim' = [claim EXCEPT ![o] = "fresh"]
  /\ worker' = [worker EXCEPT !.pc = "send", !.order = o, !.n = @ + 1]
  /\ UNCHANGED <<status, paidAt, uncertain, notified, info, inbox, told>>

Call(next) ==
  /\ worker.pc = "send"
  /\ worker' = [worker EXCEPT !.pc = next]

\* Telegram takes the message; its answer may be lost.
Accepted ==
  /\ Call("record") \/ Call("doubt")
  /\ inbox' = [inbox EXCEPT ![worker.order] = @ + 1]
  /\ UNCHANGED <<columns, info, told>>

\* Mutation: a failed call is retried, also one whose message was taken.
Refused_Retried ==
  /\ Call("unclaim")
  /\ inbox' \in {inbox, [inbox EXCEPT ![worker.order] = @ + 1]}
  /\ UNCHANGED <<columns, info, told>>

\* The request fails: the buyer blocked the bot, the network is down.
Refused ==
  /\ Call("doubt")
  /\ UNCHANGED <<columns, info, inbox, told>>

\* TelegramRetryAfter: the message was not taken, the claim is dropped later.
Throttled ==
  /\ Call("unclaim")
  /\ UNCHANGED <<columns, info, inbox, told>>

Settle(pc) ==
  /\ worker.pc = pc
  /\ worker' = [worker EXCEPT !.pc = "claim", !.order = None]

Record ==
  /\ Settle("record")
  /\ status' = [status EXCEPT ![worker.order] = "delivered"]
  /\ UNCHANGED <<paidAt, claim, uncertain, notified, info, inbox, told>>

Doubt ==
  /\ Settle("doubt")
  /\ uncertain' = [uncertain EXCEPT ![worker.order] = TRUE]
  /\ UNCHANGED <<status, paidAt, claim, notified, info, inbox, told>>

Unclaim ==
  /\ Settle("unclaim")
  /\ claim' = [claim EXCEPT ![worker.order] = "none"]
  /\ UNCHANGED <<status, paidAt, uncertain, notified, info, inbox, told>>

(***************************************************************************)
(* notify_admin: one session for the whole pass.  An order found stuck is  *)
(* marked uncertain in the session only; the mark reaches the database     *)
(* with the next commit of the pass, or is lost with the session.          *)
(***************************************************************************)
Pending == {o \in Orders : status[o] \in {"paid", "delivered"} /\ ~notified[o]}

\* The query has no ORDER BY: beyond its limit any orders may be returned.
StartNotify ==
  /\ worker.pc = "claim"
  /\ Claimable = {} \/ worker.n = Batch
  /\ \E Q \in SUBSET Pending :
       /\ Cardinality(Q) = NotifyLimit \/ (Q = Pending /\ Cardinality(Q) < NotifyLimit)
       /\ worker' = [Start EXCEPT !.pc = "notify", !.left = Q, !.info = info]
  /\ UNCHANGED <<columns, info, inbox, told>>

\* As the session sees it.
Doubtful(o) == uncertain[o] \/ o \in worker.dirty
\* Mutation: an abandoned claim is left alone.
Stuck_Never(o) == FALSE

Stuck(o) == status[o] = "paid" /\ ~Doubtful(o) /\ claim[o] = "old"
Settled(o) == status[o] = "delivered" \/ Doubtful(o)
NeedsAdmin(o) == o \in Manual \/ status[o] # "delivered" \/ Doubtful(o)

SkipUnsettled(o) ==
  /\ worker.pc = "notify" /\ o \in worker.left
  /\ ~Settled(o) /\ ~Stuck(o)
  /\ worker' = [worker EXCEPT !.left = @ \ {o}]
  /\ UNCHANGED <<columns, info, inbox, told>>

\* A commit of the pass: o is notified and every mark made so far is stored.
CommitPass(o) ==
  /\ notified' = [notified EXCEPT ![o] = TRUE]
  /\ uncertain' = [q \in Orders |-> uncertain[q] \/ q \in worker.dirty]
  /\ worker' = [worker EXCEPT !.pc = "notify", !.order = None, !.left = @ \ {o}, !.dirty = {}]
  /\ UNCHANGED <<status, paidAt, claim, info, inbox, told>>

MarkQuietly(o) ==
  /\ worker.pc = "notify" /\ o \in worker.left
  /\ Settled(o) /\ ~worker.info /\ ~NeedsAdmin(o)
  /\ CommitPass(o)

StartTelling(o) ==
  /\ worker.pc = "notify" /\ o \in worker.left
  /\ Stuck(o) \/ (Settled(o) /\ (worker.info \/ NeedsAdmin(o)))
  /\ worker' = [worker EXCEPT !.pc = "tell", !.order = o, !.todo = Admins,
                              !.dirty = IF Stuck(o) THEN @ \cup {o} ELSE @]
  /\ UNCHANGED <<columns, info, inbox, told>>

Tell(a) ==
  /\ worker.pc = "tell" /\ a \in worker.todo \ Unreachable
  /\ worker' = [worker EXCEPT !.todo = @ \ {a}]
  /\ told' = [told EXCEPT ![worker.order] = @ \cup {a}]
  /\ UNCHANGED <<columns, info, inbox>>

\* Mutation: an administrator who cannot be reached is passed over.
TellFails_PassedOver(a) ==
  /\ worker.pc = "tell" /\ a \in worker.todo
  /\ worker' = [worker EXCEPT !.todo = @ \ {a}]
  /\ UNCHANGED <<columns, info, inbox, told>>

\* One failed message (which Telegram may have taken) ends the order's turn;
\* the next pass tells every administrator again.
TellFails(a) ==
  /\ worker.pc = "tell" /\ a \in worker.todo
  /\ worker' = [worker EXCEPT !.pc = "notify", !.order = None, !.todo = {},
                              !.left = @ \ {worker.order}]
  /\ \/ UNCHANGED told
     \/ a \notin Unreachable /\ told' = [told EXCEPT ![worker.order] = @ \cup {a}]
  /\ UNCHANGED <<columns, info, inbox>>

AllTold ==
  /\ worker.pc = "tell" /\ worker.todo = {}
  /\ CommitPass(worker.order)

EndNotify ==
  /\ worker.pc = "notify" /\ worker.left = {}
  /\ worker' = Start
  /\ UNCHANGED <<columns, info, inbox, told>>

\* A restart of the process, or a transaction of the worker that fails: its
\* loop starts again, the session's uncommitted marks are lost.  (At the end of
\* a pass this is what happens anyway.)
Interrupted ==
  /\ worker.pc # "notify" \/ worker.left # {}
  /\ worker' = Start
  /\ UNCHANGED <<columns, info, inbox, told>>

(***************************************************************************)
(* What may go wrong, and everything else.                                 *)
(***************************************************************************)
Fault == Throttled \/ Interrupted \/ \E a \in Admins \ Unreachable : TellFails(a)

WorkerStep ==
  \/ \E o \in Orders : Claim(o) \/ SkipUnsettled(o) \/ MarkQuietly(o) \/ StartTelling(o)
  \/ Accepted \/ Refused \/ Record \/ Doubt \/ Unclaim
  \/ StartNotify \/ AllTold \/ EndNotify
  \/ \E a \in Admins : Tell(a)
  \/ \E a \in Unreachable : TellFails(a)

Next ==
  \/ \E Q \in SUBSET Orders : Pay(Q)
  \/ \E o \in Orders : CompleteFree(o) \/ FiveMinutesPass(o)
  \/ SwitchInfo
  \/ WorkerStep
  \/ Fault

Spec == Init /\ [][Next]_vars

\* The worker never stops for good and time passes; from some point on no
\* request fails that could succeed.
FairSpec ==
  /\ Spec
  /\ WF_vars(WorkerStep) /\ \A o \in Orders : WF_vars(FiveMinutesPass(o))
  /\ <>[][~Fault]_vars

(***************************************************************************)
(* Properties.                                                             *)
(***************************************************************************)
Worker == [pc : {"claim", "send", "record", "doubt", "unclaim", "notify", "tell"},
           n : 0..Batch, order : Orders \cup {None}, left : SUBSET Orders, info : BOOLEAN,
           todo : SUBSET Admins, dirty : SUBSET Orders]

\* Every column and the worker's session hold values of their kind, and a
\* round delivers no more than its limit.
TypeOK ==
  /\ status \in [Orders -> {"unpaid", "paid", "delivered"}]
  /\ paidAt \in [Orders -> Nat]
  /\ claim \in [Orders -> {"none", "fresh", "old"}]
  /\ uncertain \in [Orders -> BOOLEAN]
  /\ notified \in [Orders -> BOOLEAN]
  /\ info \in BOOLEAN
  /\ worker \in Worker
  /\ worker.pc \in {"send", "record", "doubt", "unclaim", "tell"} => worker.order \in Orders
  /\ inbox \in [Orders -> Nat]
  /\ told \in [Orders -> SUBSET Admins]

\* The worker implements the promise: delivered only after Telegram took the
\* message, and an order in doubt stays aside for good.
State(o) == IF status[o] = "unpaid" THEN "none"
            ELSE IF status[o] = "delivered" THEN "delivered"
            ELSE IF uncertain[o] THEN "review" ELSE "owed"
Promise == INSTANCE DeliveryPromise WITH state <- [o \in Orders |-> State(o)], got <- inbox

Promised == Promise!PromiseSpec

\* An order is marked as notified only when its delivery is settled, and every
\* administrator has been told unless nobody has to act on it and the setting
\* silences such messages (worker.py:137-176).
NotifiedMeansTold ==
  \A o \in Orders : notified[o] =>
    /\ status[o] = "delivered" \/ uncertain[o]
    /\ (o \in Manual \/ uncertain[o]) => told[o] = Admins

\* Every paid order is delivered or put aside for a person, and the
\* administrators hear of it.
EveryOrderReported == \A o \in Orders : (status[o] = "paid") ~> notified[o]
=============================================================================
