--------------------------- MODULE DeliveryProofs ---------------------------
(***************************************************************************)
(* Proofs about Delivery for any orders, administrators and limits: the    *)
(* type invariant, at most one hand-over, what "notified" means, and that  *)
(* the worker implements DeliveryPromise.                                  *)
(***************************************************************************)
EXTENDS Delivery, FiniteSetTheorems, TLAPS

(***************************************************************************)
(* The inductive invariant.  A claim outlives the session that made it, so *)
(* the invariant ties the columns to the worker's place in its loop.       *)
(***************************************************************************)
\* Nothing has happened to an order before it is paid.
UnpaidUntouched ==
  \A o \in Orders : status[o] = "unpaid" => claim[o] = "none" /\ inbox[o] = 0 /\ ~uncertain[o]

\* What was handed over stays claimed.
HandedOverClaimed ==
  \A o \in Orders : inbox[o] <= 1 /\ (inbox[o] = 1 => claim[o] # "none")

\* Only a claimed order is put aside, and it stays paid.
DoubtedClaimed ==
  \A o \in Orders : uncertain[o] => status[o] = "paid" /\ claim[o] # "none"

\* The order in the worker's hands is claimed, and the worker knows whether
\* Telegram took the message unless an answer was lost.
InHands ==
  worker.pc \in {"send", "record", "doubt", "unclaim"} =>
    /\ status[worker.order] = "paid" /\ claim[worker.order] # "none"
    /\ ~uncertain[worker.order]
    /\ worker.pc \in {"send", "unclaim"} => inbox[worker.order] = 0
    /\ worker.pc = "record" => inbox[worker.order] = 1

\* The marks of a pass concern abandoned claims only.
MarksAbandoned ==
  /\ worker.dirty # {} => worker.pc \in {"notify", "tell"}
  /\ \A o \in worker.dirty : status[o] = "paid" /\ claim[o] = "old" /\ ~uncertain[o]

\* While a notification goes out, who is not told yet is still to be told.
TellingAll ==
  worker.pc = "tell" =>
    Settled(worker.order) /\ Admins \subseteq told[worker.order] \cup worker.todo

IInv ==
  /\ TypeOK
  /\ UnpaidUntouched /\ HandedOverClaimed /\ DoubtedClaimed
  /\ InHands /\ MarksAbandoned
  /\ TellingAll /\ NotifiedMeansTold

\* The program starts in a state of the invariant.
LEMMA InvInit == Init => IInv
  BY DeliveryAssumption
  DEF Init, IInv, TypeOK, Start, Worker, UnpaidUntouched, HandedOverClaimed, DoubtedClaimed,
      InHands, MarksAbandoned, TellingAll, NotifiedMeansTold

\* A stamp is a number.
LEMMA StampIsNat == 1 + Cardinality({q \in Orders : paidAt[q] # 0}) \in Nat
<1>1. IsFiniteSet({q \in Orders : paidAt[q] # 0})
  BY DeliveryAssumption, FS_Subset
<1> QED
  BY <1>1, FS_CardinalityType

\* The worker starts its loop in a proper place.
LEMMA StartIsWorker == Start \in Worker /\ Start.pc = "claim"
<1>1. 0 \in 0..Batch
  BY DeliveryAssumption
<1> QED
  BY <1>1 DEF Start, Worker

\* Every step keeps the types.
LEMMA TypeStep == TypeOK /\ [Next]_vars => TypeOK'
<1> SUFFICES ASSUME TypeOK, [Next]_vars PROVE TypeOK'
  OBVIOUS
<1> USE DEF TypeOK, columns
<1>1. ASSUME NEW Q \in SUBSET Orders, Pay(Q) PROVE TypeOK'
  BY <1>1, StampIsNat DEF Pay
<1>2. ASSUME NEW o \in Orders, CompleteFree(o) PROVE TypeOK'
  BY <1>2, StampIsNat DEF CompleteFree
<1>3. ASSUME NEW o \in Orders, FiveMinutesPass(o) PROVE TypeOK'
  BY <1>3 DEF FiveMinutesPass
<1>4. CASE SwitchInfo
  BY <1>4 DEF SwitchInfo
<1>5. ASSUME NEW o \in Orders, Claim(o) PROVE TypeOK'
  <2>1. worker.n + 1 \in 0..Batch
    BY <1>5, DeliveryAssumption DEF Claim, Worker
  <2>2. worker' \in Worker /\ worker'.order \in Orders
    BY <1>5, <2>1 DEF Claim, Worker
  <2> QED
    BY <1>5, <2>2 DEF Claim
<1>6. CASE Accepted \/ Refused \/ Throttled
  <2>1. worker' \in Worker /\ worker'.order \in Orders
    BY <1>6 DEF Accepted, Refused, Throttled, Call, Worker
  <2> QED
    BY <1>6, <2>1 DEF Accepted, Refused, Throttled, Call
<1>7. CASE Record \/ Doubt \/ Unclaim
  <2>1. worker' \in Worker /\ worker'.pc = "claim"
    BY <1>7 DEF Record, Doubt, Unclaim, Settle, Worker
  <2> QED
    BY <1>7, <2>1 DEF Record, Doubt, Unclaim, Settle
<1>8. CASE StartNotify
  <2>1. PICK Q \in SUBSET Pending :
          worker' = [Start EXCEPT !.pc = "notify", !.left = Q, !.info = info]
    BY <1>8 DEF StartNotify
  <2>2. Q \subseteq Orders
    BY DEF Pending
  <2>3. worker' \in Worker /\ worker'.pc = "notify"
    BY <2>1, <2>2, StartIsWorker DEF Worker
  <2> QED
    BY <1>8, <2>3 DEF StartNotify
<1>9. ASSUME NEW o \in Orders, SkipUnsettled(o) PROVE TypeOK'
  BY <1>9 DEF SkipUnsettled, Worker
<1>10. ASSUME NEW o \in Orders, CommitPass(o) PROVE TypeOK'
  <2>1. worker' \in Worker /\ worker'.pc = "notify"
    BY <1>10 DEF CommitPass, Worker
  <2>2. notified' \in [Orders -> BOOLEAN] /\ uncertain' \in [Orders -> BOOLEAN]
    BY <1>10 DEF CommitPass
  <2> QED
    BY <1>10, <2>1, <2>2 DEF CommitPass
<1>11. ASSUME NEW o \in Orders, StartTelling(o) PROVE TypeOK'
  BY <1>11 DEF StartTelling, Worker
<1>12. ASSUME NEW a \in Admins, Tell(a) PROVE TypeOK'
  BY <1>12 DEF Tell, Worker
<1>13. ASSUME NEW a \in Admins, TellFails(a) PROVE TypeOK'
  <2>1. worker' \in Worker /\ worker'.pc = "notify"
    BY <1>13 DEF TellFails, Worker
  <2>2. told' \in [Orders -> SUBSET Admins]
    BY <1>13 DEF TellFails
  <2> QED
    BY <1>13, <2>1, <2>2 DEF TellFails
<1>14. CASE EndNotify \/ Interrupted
  BY <1>14, StartIsWorker DEF EndNotify, Interrupted
<1>15. CASE UNCHANGED vars
  BY <1>15 DEF vars
<1>16. ASSUME AllTold PROVE worker.order \in Orders
  BY <1>16 DEF AllTold
<1> QED
  BY <1>1, <1>2, <1>3, <1>4, <1>5, <1>6, <1>7, <1>8, <1>9, <1>10, <1>11, <1>12, <1>13, <1>14,
     <1>15, <1>16, DeliveryAssumption DEF Next, WorkerStep, Fault, MarkQuietly, AllTold

\* Every step keeps the invariant.
LEMMA InvStep == IInv /\ [Next]_vars => IInv'
<1> SUFFICES ASSUME IInv, [Next]_vars PROVE IInv'
  OBVIOUS
<1>0. TypeOK /\ TypeOK'
  BY TypeStep DEF IInv
<1> USE <1>0 DEF IInv, TypeOK, UnpaidUntouched, HandedOverClaimed, DoubtedClaimed, InHands,
                 MarksAbandoned, TellingAll, NotifiedMeansTold, Settled, Doubtful, columns
<1>1. ASSUME NEW Q \in SUBSET Orders, Pay(Q) PROVE IInv'
  <2>1. UnpaidUntouched' /\ HandedOverClaimed' /\ DoubtedClaimed'
    BY <1>1 DEF Pay
  <2>2. InHands'
    <3>1. worker' = worker /\ claim' = claim /\ uncertain' = uncertain /\ inbox' = inbox
      BY <1>1 DEF Pay
    <3>2. \A o \in Orders : status[o] = "paid" => status'[o] = "paid"
      BY <1>1 DEF Pay
    <3> QED
      BY <3>1, <3>2
  <2>4. MarksAbandoned'
    BY <1>1 DEF Pay, Worker
  <2>3. TellingAll' /\ NotifiedMeansTold'
    BY <1>1 DEF Pay
  <2> QED
    BY <2>1, <2>2, <2>3, <2>4
<1>2. ASSUME NEW o \in Orders, CompleteFree(o) PROVE IInv'
  BY <1>2 DEF CompleteFree
<1>3. ASSUME NEW o \in Orders, FiveMinutesPass(o) PROVE IInv'
  BY <1>3 DEF FiveMinutesPass
<1>4. CASE SwitchInfo
  BY <1>4 DEF SwitchInfo
<1>5. ASSUME NEW o \in Orders, Claim(o) PROVE IInv'
  BY <1>5 DEF Claim, Claimable, Worker
<1>6. CASE Accepted
  BY <1>6 DEF Accepted, Call, Worker
<1>7. CASE Refused \/ Throttled
  BY <1>7 DEF Refused, Throttled, Call, Worker
<1>8. CASE Record
  BY <1>8 DEF Record, Settle, Worker
<1>9. CASE Doubt
  BY <1>9 DEF Doubt, Settle, Worker
<1>10. CASE Unclaim
  BY <1>10 DEF Unclaim, Settle, Worker
<1>11. CASE StartNotify
  BY <1>11 DEF StartNotify, Start, Worker
<1>12. ASSUME NEW o \in Orders, SkipUnsettled(o) PROVE IInv'
  BY <1>12 DEF SkipUnsettled, Worker
<1>13. ASSUME NEW o \in Orders, CommitPass(o),
              (o \in Manual \/ Doubtful(o)) => told[o] = Admins, Settled(o)
       PROVE  IInv'
  <2>1. worker'.pc = "notify" /\ worker'.dirty = {}
    BY <1>13 DEF CommitPass, Worker
  <2>2. UnpaidUntouched' /\ HandedOverClaimed' /\ DoubtedClaimed'
    BY <1>13 DEF CommitPass
  <2>3. InHands' /\ MarksAbandoned' /\ TellingAll'
    BY <2>1
  <2>4. NotifiedMeansTold'
    <3> SUFFICES ASSUME NEW q \in Orders, notified'[q]
                 PROVE  /\ status'[q] = "delivered" \/ uncertain'[q]
                        /\ (q \in Manual \/ uncertain'[q]) => told'[q] = Admins
      OBVIOUS
    <3>1. CASE q = o
      BY <1>13, <3>1 DEF CommitPass
    <3>2. CASE q # o
      <4>1. notified[q] /\ q \notin worker.dirty
        BY <1>13, <3>2 DEF CommitPass
      <4> QED
        BY <1>13, <4>1 DEF CommitPass
    <3> QED
      BY <3>1, <3>2
  <2> QED
    BY <2>2, <2>3, <2>4
<1>14. ASSUME NEW o \in Orders, MarkQuietly(o) PROVE IInv'
  BY <1>13, <1>14 DEF MarkQuietly, NeedsAdmin
<1>15. CASE AllTold
  <2>1. told[worker.order] = Admins
    BY <1>15 DEF AllTold
  <2> QED
    BY <1>13, <1>15, <2>1 DEF AllTold
<1>16. ASSUME NEW o \in Orders, StartTelling(o) PROVE IInv'
  BY <1>16 DEF StartTelling, Stuck, Worker
<1>17. ASSUME NEW a \in Admins, Tell(a) PROVE IInv'
  BY <1>17 DEF Tell, Worker
<1>18. ASSUME NEW a \in Admins, TellFails(a) PROVE IInv'
  <2>1. worker'.pc = "notify" /\ worker'.dirty = worker.dirty
    BY <1>18 DEF TellFails, Worker
  <2>2. \A o \in Orders : told[o] \subseteq told'[o]
    BY <1>18 DEF TellFails
  <2>3. UnpaidUntouched' /\ HandedOverClaimed' /\ DoubtedClaimed'
    BY <1>18 DEF TellFails
  <2>4. InHands' /\ MarksAbandoned' /\ TellingAll'
    BY <1>18, <2>1 DEF TellFails
  <2>5. NotifiedMeansTold'
    <3>1. status' = status /\ uncertain' = uncertain /\ notified' = notified
      BY <1>18 DEF TellFails
    <3>2. \A o \in Orders : told'[o] \subseteq Admins
      BY <1>0 DEF TypeOK
    <3>3. ASSUME NEW o \in Orders, told[o] = Admins PROVE told'[o] = Admins
      <4>1. Admins \subseteq told'[o]
        BY <2>2, <3>3
      <4> QED
        BY <3>2, <4>1
    <3> QED
      BY <3>1, <3>3
  <2> QED
    BY <2>3, <2>4, <2>5
<1>19. CASE EndNotify \/ Interrupted
  BY <1>19 DEF EndNotify, Interrupted, Start
<1>20. CASE UNCHANGED vars
  BY <1>20 DEF vars
<1> QED
  BY <1>1, <1>2, <1>3, <1>4, <1>5, <1>6, <1>7, <1>8, <1>9, <1>10, <1>11, <1>12, <1>14, <1>15,
     <1>16, <1>17, <1>18, <1>19, <1>20, DeliveryAssumption DEF Next, WorkerStep, Fault

\* The invariant holds in every state the worker reaches.
LEMMA Invariance == Spec => []IInv
  BY InvInit, InvStep, PTL DEF Spec

\* Every column and the worker's session always hold values of their kind.
THEOREM TypeCorrect == Spec => []TypeOK
  BY Invariance, PTL DEF IInv

\* Telegram takes the data of an order at most once, whatever answers are
\* lost, whenever the process restarts (worker.py:31).
AtMostOnce == \A o \in Orders : inbox[o] <= 1

\* So no order is handed over twice: the claim of the first attempt stands, or
\* is dropped only when Telegram is known not to have taken the message.
THEOREM HandedOverOnce == Spec => []AtMostOnce
<1>1. IInv => AtMostOnce
  BY DEF IInv, HandedOverClaimed, AtMostOnce
<1> QED
  BY <1>1, Invariance, PTL

\* An order marked as notified is settled, and who must act on it knows.
THEOREM NotifiedKnown == Spec => []NotifiedMeansTold
  BY Invariance, PTL DEF IInv

(***************************************************************************)
(* The worker implements DeliveryPromise.                                  *)
(***************************************************************************)
\* The initial state is one of the promise.
LEMMA PromiseStart == Init => Promise!PromiseInit
  BY DEF Init, State, Promise!PromiseInit

Abstract == [o \in Orders |-> State(o)]

\* What a step of the worker does to the promise, stated for the columns.
LEMMA PromiseStep == IInv /\ [Next]_vars => [Promise!PromiseNext]_(Promise!promise)
<1> SUFFICES ASSUME IInv, [Next]_vars
             PROVE  Promise!PromiseNext \/ (Abstract' = Abstract /\ inbox' = inbox)
  BY DEF Promise!promise, Abstract
<1>0. TypeOK
  BY DEF IInv
<1> USE <1>0 DEF TypeOK
<1>1. ASSUME NEW Q \in SUBSET Orders, Pay(Q) PROVE Promise!Owe(Q)
  BY <1>1 DEF Pay, State, IInv, UnpaidUntouched, Promise!Owe, Promise!Become
<1>2. ASSUME NEW o \in Orders, CompleteFree(o) PROVE Promise!GiveAway(o)
  BY <1>2 DEF CompleteFree, State, Promise!GiveAway, Promise!Become
<1>3. CASE Accepted
  <2>1. Promise!HandOver(worker.order)
    <3>1. inbox[worker.order] = 0 /\ State(worker.order) = "owed"
      BY <1>3 DEF Accepted, Call, State, IInv, InHands
    <3>2. inbox' = [inbox EXCEPT ![worker.order] = 1]
      BY <1>3, <3>1 DEF Accepted
    <3>3. Abstract' = Abstract
      BY <1>3 DEF Accepted, columns, Abstract, State
    <3>4. worker.order \in Orders
      BY <1>3 DEF Accepted, Call
    <3> QED
      BY <3>1, <3>2, <3>3, <3>4 DEF Promise!HandOver, Abstract
  <2> QED
    BY <1>3, <2>1 DEF Accepted, Call, Promise!PromiseNext
<1>4. CASE Record
  <2>1. Promise!Deliver(worker.order)
    BY <1>4 DEF Record, Settle, State, IInv, InHands, Promise!Deliver, Promise!Become
  <2> QED
    BY <1>4, <2>1 DEF Record, Settle, Promise!PromiseNext
<1>5. CASE Doubt
  <2>1. Promise!PutAside({worker.order})
    BY <1>5 DEF Doubt, Settle, State, IInv, InHands, Promise!PutAside, Promise!Become
  <2> QED
    BY <1>5, <2>1 DEF Doubt, Settle, Promise!PromiseNext
<1>6. ASSUME NEW o \in Orders, CommitPass(o) PROVE Promise!PromiseNext
  <2>1. worker.dirty \in SUBSET Orders
    BY DEF Worker
  <2>2. Promise!PutAside(worker.dirty)
    BY <1>6, <2>1 DEF CommitPass, State, IInv, MarksAbandoned, Promise!PutAside, Promise!Become
  <2> QED
    BY <2>1, <2>2 DEF Promise!PromiseNext
<1>7. ASSUME status' = status, uncertain' = uncertain PROVE Abstract' = Abstract
  BY <1>7 DEF Abstract, State
<1>8. ASSUME NEW o \in Orders,
             FiveMinutesPass(o) \/ Claim(o) \/ SkipUnsettled(o) \/ StartTelling(o)
      PROVE  Abstract' = Abstract /\ inbox' = inbox
  BY <1>7, <1>8 DEF FiveMinutesPass, Claim, SkipUnsettled, StartTelling, columns
<1>9. ASSUME NEW a \in Admins, Tell(a) \/ TellFails(a)
      PROVE  Abstract' = Abstract /\ inbox' = inbox
  BY <1>7, <1>9 DEF Tell, TellFails, columns
<1>10. CASE SwitchInfo \/ Refused \/ Throttled \/ Unclaim \/ StartNotify \/ EndNotify \/ Interrupted
  BY <1>7, <1>10 DEF SwitchInfo, Refused, Throttled, Unclaim, StartNotify, EndNotify, Interrupted,
                     columns
<1>11. CASE UNCHANGED vars
  BY <1>7, <1>11 DEF vars
<1>12. CASE AllTold
  BY <1>6, <1>12 DEF AllTold
<1>13. ASSUME NEW o \in Orders, MarkQuietly(o) PROVE Promise!PromiseNext
  BY <1>6, <1>13 DEF MarkQuietly
<1> QED
  BY <1>1, <1>2, <1>3, <1>4, <1>5, <1>8, <1>9, <1>10, <1>11, <1>12, <1>13, DeliveryAssumption
  DEF Next, WorkerStep, Fault, Promise!PromiseNext

\* The worker's columns and messages implement the promise: handed over at
\* most once, delivered only when Telegram took it, and put aside for good.
THEOREM WorkerKeepsPromise == Spec => Promised
  BY PromiseStart, PromiseStep, Invariance, PTL DEF Spec, Promised, Promise!PromiseSpec
=============================================================================
