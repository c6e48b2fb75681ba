--------------------------- MODULE ReceiptsProofs ---------------------------
(***************************************************************************)
(* Proofs about Receipts for any orders, buyers, screenshots, requisites   *)
(* and answers of the model.                                               *)
(***************************************************************************)
EXTENDS Receipts, FiniteSetTheorems, TLAPS

(***************************************************************************)
(* The verdict.                                                            *)
(***************************************************************************)
\* A receipt that is accepted shows that its sender lost the price, less the
\* tolerance at the most, to one of the requisites, and lately.
THEOREM AcceptedShowsPayment ==
  ASSUME NEW a \in Answers, NEW o \in Orders,
         evaluate_receipt(a, Price, details[o].cards, details[o].ibans)
  PROVE  ShowsPayment(a, o)
<1>1. a.amount \in Nat /\ a.fee \in Nat \cup {Missing} /\ a.total \in Nat \cup {Missing} /\ Price \in Nat
  BY ReceiptCheckAssumption DEF evaluate_receipt
<1>2. PICK x \in AmountCandidates(a) : x - Price \in -500..500
  BY DEF evaluate_receipt, AmountMatches, PAYMENT_AMOUNT_TOLERANCE_KOPECKS
<1>3. x \in Int /\ (x <= a.amount \/ x <= a.total)
  <2>1. CASE x = a.amount
    BY <1>1, <2>1
  <2>2. CASE x \in LessFee(a.amount, a.fee)
    BY <1>1, <2>2 DEF LessFee, Missing
  <2>3. CASE x \in LessFee(a.total, a.fee)
    BY <1>1, <2>3 DEF LessFee, Missing
  <2> QED
    BY <1>2, <2>1, <2>2, <2>3 DEF AmountCandidates
<1>4. a.amount >= Price - 500 \/ a.total >= Price - 500
  BY <1>1, <1>2, <1>3 DEF Missing
<1>5. \/ Suffix(a.card) \in {Suffix(c) : c \in details[o].cards}
      \/ Suffix(a.iban) \in {Suffix(c) : c \in details[o].ibans}
  BY DEF evaluate_receipt, RecipientMatches
<1> QED
  BY <1>4, <1>5 DEF ShowsPayment, evaluate_receipt, PAYMENT_AMOUNT_TOLERANCE_KOPECKS

\* Who has paid the exact price to a card of the order a moment ago is accepted,
\* whether his bank prints the amount alone, the amount with its fee in it, or
\* the total and the fee beside an amount that was misread.
THEOREM ExactPaymentAccepted ==
  ASSUME NEW a \in Answers, NEW expected \in Nat, NEW fee \in Nat, NEW paidTo, NEW paidCards, NEW paidIbans,
         paidTo \in paidCards, a.card # NoNumber, Suffix(a.card) = Suffix(paidTo), a.time = "within",
         \/ a.amount = expected
         \/ a.amount = expected + fee /\ a.fee = fee
         \/ a.amount \in Nat /\ a.total = expected + fee /\ a.fee = fee
  PROVE  evaluate_receipt(a, expected, paidCards, paidIbans)
<1>1. RecipientMatches(a, paidCards, paidIbans)
  BY DEF RecipientMatches
<1>2. a.amount \notin {Missing, Garbled}
  BY DEF Missing, Garbled
<1>3. expected \in AmountCandidates(a)
  <2>1. CASE a.amount = expected
    BY <2>1 DEF AmountCandidates
  <2>2. ASSUME NEW x \in Nat, x = expected + fee PROVE expected \in LessFee(x, fee)
    <3>1. fee \in {fee} \cap 0..x /\ expected = x - fee
      BY <2>2
    <3> QED
      BY <3>1 DEF LessFee
  <2> QED
    BY <2>1, <2>2 DEF AmountCandidates
<1>4. AmountMatches(a, expected)
  <2>1. expected - expected \in -500..500
    OBVIOUS
  <2> QED
    BY <1>3, <2>1 DEF AmountMatches, PAYMENT_AMOUNT_TOLERANCE_KOPECKS
<1> QED
  BY <1>1, <1>2, <1>4 DEF evaluate_receipt

(***************************************************************************)
(* The inductive invariant.                                                *)
(***************************************************************************)
\* Orders with receipts have been placed.
ReceiptsHaveOrders == \A i \in Images : order[i] # None => status[order[i]] # "absent"

\* A receipt whose analysis runs has not been judged.
AnalysesRun == \A i \in Images : phase[i] = "analyse" => state[i] = "analyzing"

\* What an administrator has rejected concerns no order that waits.
RejectionCloses ==
  \A i \in Images :
    (state[i] = "rejected" /\ judge[i] = "admin") => status[order[i]] # "waiting_payment"

IInv ==
  /\ TypeOK
  /\ ReceiptsHaveOrders /\ AnalysesRun /\ RejectionCloses
  /\ SettledForAReason /\ TwoReceiptsAtMost

\* A buyer of an order is a user.
LEMMA OwnersAreUsers == \A o \in Orders : Owner[o] \in Users
  BY DEF Users

\* A payment, or none, keeps the types of what it writes.
LEMMA PayKeepsTypes ==
  ASSUME OrdersOK, NEW o \in Orders, Pay(o) \/ UNCHANGED <<status, recent>>
  PROVE  /\ status' \in [Orders -> {"absent", "waiting_payment", "paid", "cancelled"}]
         /\ recent' \in [Orders -> BOOLEAN]
<1>1. CASE Pay(o)
  <2>1. status' \in [Orders -> {"absent", "waiting_payment", "paid", "cancelled"}]
    BY <1>1 DEF Pay, OrdersOK
  <2>2. recent' \in [Orders -> BOOLEAN]
    BY <1>1, Zenon DEF Pay, OrdersOK
  <2> QED
    BY <2>1, <2>2
<1>2. CASE UNCHANGED <<status, recent>>
  BY <1>2 DEF OrdersOK
<1> QED
  BY <1>1, <1>2

\* Every step keeps the types of orders, receipts and handlers.
LEMMA OrdersStep == OrdersOK /\ [Next]_vars => OrdersOK'
<1> SUFFICES ASSUME OrdersOK, [Next]_vars PROVE OrdersOK'
  OBVIOUS
<1> USE OwnersAreUsers, ReceiptsAssumption
<1>1. ASSUME NEW o \in Orders, \/ Place(o) \/ StartReceipt(o) \/ CancelPayment(o)
                              \/ TwelveMinutesPass(o)
      PROVE  OrdersOK'
  <2>1. CASE Place(o)
    BY <2>1 DEF OrdersOK, Place, receipt
  <2>2. CASE StartReceipt(o)
    BY <2>2 DEF OrdersOK, StartReceipt, receipt
  <2>3. CASE CancelPayment(o)
    BY <2>3 DEF OrdersOK, CancelPayment, receipt
  <2>4. CASE TwelveMinutesPass(o)
    BY <2>4 DEF OrdersOK, TwelveMinutesPass, receipt
  <2> QED
    BY <1>1, <2>1, <2>2, <2>3, <2>4
<1>2. ASSUME NEW o \in Orders, NEW i \in Images, SubmitReceipt(i, o) PROVE OrdersOK'
  BY <1>2 DEF OrdersOK, SubmitReceipt, Insert, ReceiptStates
<1>3. ASSUME NEW i \in Images, AnalysisFails(i) \/ Leave(i) PROVE OrdersOK'
  <2>1. CASE AnalysisFails(i)
    BY <2>1 DEF OrdersOK, AnalysisFails, ReceiptStates
  <2>2. CASE Leave(i)
    <3>1. order[i] \in Orders
      BY <2>2 DEF OrdersOK, Leave
    <3> QED
      BY <2>2, <3>1 DEF OrdersOK, Leave, Free, Buyer, receipt
  <2> QED
    BY <1>3, <2>1, <2>2
<1>4. ASSUME NEW i \in Images, NEW a \in Analyses, AnalysisEnds(i, a) PROVE OrdersOK'
  <2> DEFINE to == IF status[order[i]] = "waiting_payment" THEN Judged(i, Accepted(i, a)) ELSE "cancelled"
  <2>1. to \in ReceiptStates
    BY DEF Judged, ReceiptStates
  <2>2. order[i] \in Orders /\ order' = order /\ first' = first /\ repeat' = repeat /\ offered' = offered
    BY <1>4 DEF OrdersOK, AnalysisEnds
  <2>3. /\ state' = [state EXCEPT ![i] = to] /\ judge' = [judge EXCEPT ![i] = "model"]
        /\ phase' = [phase EXCEPT ![i] = "leave"] /\ form' = form /\ busy' = busy
    BY <1>4 DEF AnalysisEnds, Settle
  <2>5. /\ status' \in [Orders -> {"absent", "waiting_payment", "paid", "cancelled"}]
        /\ recent' \in [Orders -> BOOLEAN]
    BY <1>4, <2>2, PayKeepsTypes DEF AnalysisEnds
  <2> HIDE DEF to
  <2>6. /\ state' \in [Images -> ReceiptStates \cup {"none"}]
        /\ \A j \in Images : order'[j] = None <=> state'[j] = "none"
    BY <2>1, <2>2, <2>3 DEF OrdersOK, ReceiptStates
  <2>7. /\ phase' \in [Images -> {"over", "analyse", "leave", "send"}]
        /\ \A j \in Images : phase'[j] # "over" => order'[j] # None
    BY <2>2, <2>3 DEF OrdersOK
  <2>8. judge' \in [Images -> {"nobody", "model", "admin"}]
    BY <2>2, <2>3 DEF OrdersOK
  <2> QED
    BY <2>2, <2>3, <2>5, <2>6, <2>7, <2>8 DEF OrdersOK
<1>5. ASSUME NEW i \in Images, OfferReceipt(i) \/ EndOffer(i) PROVE OrdersOK'
  BY <1>5 DEF OrdersOK, OfferReceipt, EndOffer, Free, Buyer, receipt
<1>6. ASSUME NEW i \in Images, AskAdministrator(i) PROVE OrdersOK'
  BY <1>6 DEF OrdersOK, AskAdministrator, Settle, Buyer, ReceiptStates
<1>7. ASSUME NEW i \in Images, Approve(i) \/ Reject(i) PROVE OrdersOK'
  <2>1. CASE Approve(i)
    <3>1. order[i] \in Orders
      BY <2>1 DEF OrdersOK, Approve, Reviewable
    <3>2. status' \in [Orders -> {"absent", "waiting_payment", "paid", "cancelled"}]
          /\ recent' \in [Orders -> BOOLEAN]
      BY <2>1, <3>1, PayKeepsTypes DEF Approve
    <3> QED
      BY <2>1, <3>1, <3>2 DEF OrdersOK, Approve, Settle, ReceiptStates
  <2>2. CASE Reject(i)
    BY <2>2 DEF OrdersOK, Reject, Reviewable, Settle, ReceiptStates
  <2> QED
    BY <1>7, <2>1, <2>2
<1>8. ASSUME NEW u \in Users, LeaveDialogue(u) \/ LockExpires(u) PROVE OrdersOK'
  BY <1>8 DEF OrdersOK, LeaveDialogue, LockExpires, receipt
<1>9. CASE ChangeRequisites
  <2>1. UNCHANGED <<status, recent, receipt, phase, offered, form, busy>>
    BY <1>9 DEF ChangeRequisites, CardAdd, CardReplace, CardToggle, CardDelete, IbanSet, PaymentMode, Change
  <2> QED
    BY <2>1 DEF OrdersOK, receipt
<1>10. CASE Crash
  BY <1>10 DEF OrdersOK, Crash, receipt
<1>11. CASE UNCHANGED vars
  BY <1>11 DEF OrdersOK, vars, receipt
<1> QED
  BY <1>1, <1>2, <1>3, <1>4, <1>5, <1>6, <1>7, <1>8, <1>9, <1>10, <1>11 DEF Next, Handler

\* Every step keeps the types of the requisites, and a row under each active card.
LEMMA RequisitesStep == TypeOK /\ [Next]_vars => RequisitesOK'
<1> SUFFICES ASSUME TypeOK, [Next]_vars PROVE RequisitesOK'
  OBVIOUS
<1> USE ReceiptsAssumption, ReceiptCheckAssumption DEF TypeOK
<1>1. ASSUME NEW o \in Orders, Place(o) PROVE RequisitesOK'
  <2>1. Requisites \in [cards : SUBSET Numbers, ibans : SUBSET Ibans]
    BY DEF Requisites, RequisitesOK
  <2> QED
    BY <1>1, <2>1 DEF Place, RequisitesOK, shop, receipt
<1>2. ASSUME NEW i \in Images, NEW a \in Analyses, AnalysisEnds(i, a) PROVE RequisitesOK'
  BY <1>2 DEF AnalysisEnds, RequisitesOK, shop
<1>3. CASE ChangeRequisites
  <2>1. details' = details /\ proven' = proven /\ changes' \in 0..MaxChanges
    BY <1>3 DEF ChangeRequisites, CardAdd, CardReplace, CardToggle, CardDelete, IbanSet, PaymentMode,
                Change, receipt, RequisitesOK
  <2>2. ASSUME NEW k \in CardIds, CardToggle(k) \/ CardDelete(k) PROVE RequisitesOK'
    BY <2>1, <2>2 DEF CardToggle, CardDelete, RequisitesOK
  <2>3. ASSUME NEW k \in CardIds, NEW n \in Numbers, CardAdd(k, n) \/ CardReplace(k, n) PROVE RequisitesOK'
    BY <2>1, <2>3 DEF CardAdd, CardReplace, RequisitesOK, NoNumber
  <2>4. ASSUME NEW n \in Ibans \cup {NoNumber}, IbanSet(n) PROVE RequisitesOK'
    BY <2>1, <2>4 DEF IbanSet, RequisitesOK
  <2>5. ASSUME NEW allowed \in BOOLEAN, PaymentMode(allowed) PROVE RequisitesOK'
    BY <2>1, <2>5 DEF PaymentMode, RequisitesOK
  <2> QED
    BY <1>3, <2>2, <2>3, <2>4, <2>5 DEF ChangeRequisites
<1>4. CASE UNCHANGED <<shop, details, proven>>
  BY <1>4 DEF RequisitesOK, shop
<1>5. ASSUME NEW o \in Orders, \/ StartReceipt(o) \/ CancelPayment(o) \/ TwelveMinutesPass(o)
                              \/ \E i \in Images : SubmitReceipt(i, o)
      PROVE  UNCHANGED <<shop, details, proven>>
  BY <1>5 DEF StartReceipt, CancelPayment, TwelveMinutesPass, SubmitReceipt, Insert, receipt
<1>6. ASSUME NEW i \in Images, \/ AnalysisFails(i) \/ Leave(i) \/ OfferReceipt(i) \/ EndOffer(i)
                              \/ AskAdministrator(i) \/ Approve(i) \/ Reject(i)
      PROVE  UNCHANGED <<shop, details, proven>>
  BY <1>6 DEF AnalysisFails, Leave, OfferReceipt, EndOffer, AskAdministrator, Approve, Reject, receipt
<1>7. ASSUME NEW u \in Users, LeaveDialogue(u) \/ LockExpires(u) PROVE UNCHANGED <<shop, details, proven>>
  BY <1>7 DEF LeaveDialogue, LockExpires, receipt
<1>8. CASE Crash \/ UNCHANGED vars
  <2>1. UNCHANGED <<shop, details, proven>>
    BY <1>8 DEF Crash, vars, receipt
  <2> QED
    BY <1>4, <2>1
<1> QED
  BY <1>1, <1>2, <1>3, <1>4, <1>5, <1>6, <1>7, <1>8 DEF Next, Handler

\* Every step keeps the types.
LEMMA TypeStep == TypeOK /\ [Next]_vars => TypeOK'
  BY OrdersStep, RequisitesStep DEF TypeOK

(***************************************************************************)
(* What a step may do to orders and receipts, given the invariant.         *)
(***************************************************************************)
\* Only an order that waits is paid or cancelled, and only by a reason.
StatusMoves ==
  \A o \in Orders :
    \/ status'[o] = status[o]
    \/ status[o] = "absent" /\ status'[o] = "waiting_payment"
    \/ /\ status[o] = "waiting_payment" /\ status'[o] = "paid"
       /\ \E i \in ReceiptsOf(o) : state'[i] = "approved" /\ (judge'[i] = "admin" \/ i \in proven')
    \/ /\ status[o] = "waiting_payment" /\ status'[o] = "cancelled"
       /\ ReceiptsOf(o) = {} /\ order' = order
    \/ /\ status[o] = "waiting_payment" /\ status'[o] = "cancelled"
       /\ \E i \in ReceiptsOf(o) : state'[i] = "rejected" /\ judge'[i] = "admin"

\* A receipt is added to an order that waits and stays with it; a decision
\* about it is kept.
ReceiptMoves ==
  \A i \in Images :
    /\ order'[i] = order[i] \/ (order[i] = None /\ status[order'[i]] = "waiting_payment")
    /\ state[i] = "approved" => state'[i] = "approved" /\ judge'[i] = judge[i]
    /\ i \in proven => i \in proven'
    /\ (state[i] = "rejected" /\ judge[i] = "admin") => state'[i] = "rejected" /\ judge'[i] = "admin"
    /\ (state'[i] = "rejected" /\ judge'[i] = "admin") =>
         \/ state[i] = "rejected" /\ judge[i] = "admin"
         \/ order[i] # None /\ status'[order[i]] # "waiting_payment"
    /\ phase'[i] = "analyse" => state'[i] = "analyzing"

\* At most one receipt is added at a time, to an order with fewer than two.
OneAdded ==
  \/ order' = order
  \/ \E i \in Images, o \in Orders : /\ order[i] = None /\ order' = [order EXCEPT ![i] = o]
                                     /\ Cardinality(ReceiptsOf(o)) < 2

\* Every step is one of these moves.
LEMMA Moves == IInv /\ [Next]_vars => StatusMoves /\ ReceiptMoves /\ OneAdded
<1> SUFFICES ASSUME IInv, [Next]_vars PROVE StatusMoves /\ ReceiptMoves /\ OneAdded
  OBVIOUS
<1> USE OwnersAreUsers, ReceiptsAssumption DEF IInv, TypeOK, OrdersOK
<1>1. ASSUME NEW o \in Orders, \/ Place(o) \/ StartReceipt(o) \/ CancelPayment(o)
                              \/ TwelveMinutesPass(o)
      PROVE  StatusMoves /\ ReceiptMoves /\ OneAdded
  <2>1. order' = order /\ state' = state /\ judge' = judge /\ phase' = phase /\ proven' = proven
    BY <1>1 DEF Place, StartReceipt, CancelPayment, TwelveMinutesPass, receipt
  <2>2. StatusMoves
    <3>1. CASE Place(o)
      BY <3>1 DEF StatusMoves, Place, TypeOK, OrdersOK
    <3>2. CASE StartReceipt(o) \/ TwelveMinutesPass(o)
      BY <3>2 DEF StatusMoves, StartReceipt, TwelveMinutesPass
    <3>3. CASE CancelPayment(o)
      BY <2>1, <3>3 DEF StatusMoves, CancelPayment, TypeOK, OrdersOK
    <3> QED
      BY <1>1, <3>1, <3>2, <3>3
  <2>3. \A q \in Orders : status[q] \notin {"absent", "waiting_payment"} => status'[q] = status[q]
    BY <2>2 DEF StatusMoves
  <2> QED
    BY <2>1, <2>2, <2>3 DEF ReceiptMoves, OneAdded, AnalysesRun
<1>2. ASSUME NEW o \in Orders, NEW i \in Images, SubmitReceipt(i, o)
      PROVE  StatusMoves /\ ReceiptMoves /\ OneAdded
  <2>1. status' = status /\ judge' = judge /\ proven' = proven /\ order[i] = None /\ state[i] = "none"
    BY <1>2 DEF SubmitReceipt, Insert, TypeOK, OrdersOK
  <2>2. /\ order' = [order EXCEPT ![i] = o] /\ state' = [state EXCEPT ![i] = "analyzing"]
        /\ phase' = [phase EXCEPT ![i] = "analyse"]
        /\ status[o] = "waiting_payment" /\ Cardinality(ReceiptsOf(o)) < 2
    BY <1>2 DEF SubmitReceipt, Insert
  <2> QED
    BY <2>1, <2>2 DEF StatusMoves, ReceiptMoves, OneAdded, AnalysesRun, TypeOK, OrdersOK
<1>3. ASSUME NEW i \in Images, AnalysisFails(i) \/ Leave(i)
      PROVE  StatusMoves /\ ReceiptMoves /\ OneAdded
  BY <1>3 DEF AnalysisFails, Leave, receipt, StatusMoves, ReceiptMoves, OneAdded, AnalysesRun, TypeOK, OrdersOK
<1>4. ASSUME NEW i \in Images, NEW a \in Analyses, AnalysisEnds(i, a)
      PROVE  StatusMoves /\ ReceiptMoves /\ OneAdded
  <2> DEFINE to == IF status[order[i]] = "waiting_payment" THEN Judged(i, Accepted(i, a)) ELSE "cancelled"
  <2>1. order[i] \in Orders /\ order' = order /\ state[i] = "analyzing" /\ phase[i] = "analyse"
    BY <1>4 DEF TypeOK, OrdersOK, AnalysisEnds, AnalysesRun
  <2>2. /\ state' = [state EXCEPT ![i] = to] /\ judge' = [judge EXCEPT ![i] = "model"]
        /\ phase' = [phase EXCEPT ![i] = "leave"]
    BY <1>4 DEF AnalysisEnds, Settle
  <2>3. status' = IF to = "approved" THEN [status EXCEPT ![order[i]] = "paid"] ELSE status
    BY <1>4 DEF AnalysisEnds, Pay
  <2>4. to = "approved" => status[order[i]] = "waiting_payment" /\ i \in proven'
    <3>1. to = "approved" => status[order[i]] = "waiting_payment" /\ Accepted(i, a)
      BY DEF Judged
    <3>2. Accepted(i, a) => ShowsPayment(a, order[i])
      BY <2>1, AcceptedShowsPayment DEF Accepted, Analyses
    <3>3. proven' = proven \cup {j \in {i} : to = "approved" /\ ShowsPayment(a, order[i])}
      BY <1>4 DEF AnalysisEnds
    <3> HIDE DEF to
    <3> QED
      BY <3>1, <3>2, <3>3
  <2>5. proven \subseteq proven'
    BY <1>4 DEF AnalysisEnds
  <2> HIDE DEF to
  <2>6. StatusMoves
    BY <2>1, <2>2, <2>3, <2>4 DEF StatusMoves, ReceiptsOf, TypeOK, OrdersOK
  <2>7. ReceiptMoves /\ OneAdded
    BY <2>1, <2>2, <2>3, <2>5 DEF ReceiptMoves, OneAdded, AnalysesRun, TypeOK, OrdersOK
  <2> QED
    BY <2>6, <2>7
<1>5. ASSUME NEW i \in Images, OfferReceipt(i) \/ EndOffer(i)
      PROVE  StatusMoves /\ ReceiptMoves /\ OneAdded
  BY <1>5 DEF OfferReceipt, EndOffer, receipt, StatusMoves, ReceiptMoves, OneAdded, AnalysesRun, TypeOK, OrdersOK
<1>6. ASSUME NEW i \in Images, AskAdministrator(i) PROVE StatusMoves /\ ReceiptMoves /\ OneAdded
  <2>1. /\ state[i] = "rejected" /\ status[order[i]] = "waiting_payment"
        /\ state' = [state EXCEPT ![i] = "manual_review"] /\ phase' = [phase EXCEPT ![i] = "leave"]
        /\ status' = status /\ order' = order /\ judge' = [judge EXCEPT ![i] = judge[i]]
        /\ proven' = proven
    BY <1>6 DEF AskAdministrator, Settle
  <2>2. judge[i] # "admin"
    BY <2>1 DEF RejectionCloses
  <2> QED
    BY <2>1, <2>2 DEF StatusMoves, ReceiptMoves, OneAdded, AnalysesRun, TypeOK, OrdersOK
<1>7. ASSUME NEW i \in Images, Approve(i) \/ Reject(i) PROVE StatusMoves /\ ReceiptMoves /\ OneAdded
  <2>1. /\ order[i] \in Orders /\ order' = order /\ phase' = phase /\ proven' = proven
        /\ state[i] \in {"manual_review", "retry_allowed_review"}
    BY <1>7 DEF Approve, Reject, Reviewable, TypeOK, OrdersOK
  <2>2. CASE Approve(i)
    <3>1. /\ state' = [state EXCEPT ![i] = "approved"] /\ judge' = [judge EXCEPT ![i] = "admin"]
          /\ status' = IF status[order[i]] = "waiting_payment"
                       THEN [status EXCEPT ![order[i]] = "paid"] ELSE status
      BY <2>2 DEF Approve, Settle, Pay
    <3> QED
      BY <2>1, <3>1 DEF StatusMoves, ReceiptMoves, OneAdded, AnalysesRun, ReceiptsOf, TypeOK, OrdersOK
  <2>3. CASE Reject(i)
    <3>1. /\ state' = [state EXCEPT ![i] = "rejected"] /\ judge' = [judge EXCEPT ![i] = "admin"]
          /\ status' = [status EXCEPT ![order[i]] =
                          IF status[order[i]] = "waiting_payment" THEN "cancelled" ELSE status[order[i]]]
      BY <2>3 DEF Reject, Settle
    <3> QED
      BY <2>1, <3>1 DEF StatusMoves, ReceiptMoves, OneAdded, AnalysesRun, ReceiptsOf, TypeOK, OrdersOK
  <2> QED
    BY <1>7, <2>2, <2>3
<1>8. ASSUME NEW u \in Users, LeaveDialogue(u) \/ LockExpires(u)
      PROVE  StatusMoves /\ ReceiptMoves /\ OneAdded
  BY <1>8 DEF LeaveDialogue, LockExpires, receipt, StatusMoves, ReceiptMoves, OneAdded, AnalysesRun
<1>9. CASE ChangeRequisites
  <2>1. UNCHANGED <<status, receipt, phase>>
    BY <1>9 DEF ChangeRequisites, CardAdd, CardReplace, CardToggle, CardDelete, IbanSet, PaymentMode, Change
  <2> QED
    BY <2>1 DEF StatusMoves, ReceiptMoves, OneAdded, AnalysesRun, receipt
<1>10. CASE Crash
  BY <1>10 DEF Crash, receipt, StatusMoves, ReceiptMoves, OneAdded
<1>11. CASE UNCHANGED vars
  BY <1>11 DEF vars, receipt, StatusMoves, ReceiptMoves, OneAdded, AnalysesRun
<1> QED
  BY <1>1, <1>2, <1>3, <1>4, <1>5, <1>6, <1>7, <1>8, <1>9, <1>10, <1>11 DEF Next, Handler

\* Every step keeps the invariant.
LEMMA InvStep == IInv /\ [Next]_vars => IInv'
<1> SUFFICES ASSUME IInv, [Next]_vars PROVE IInv'
  OBVIOUS
<1>1. TypeOK /\ TypeOK'
  BY TypeStep DEF IInv
<1>2. StatusMoves /\ ReceiptMoves /\ OneAdded
  BY Moves
<1>3. ReceiptsHaveOrders'
  BY <1>1, <1>2 DEF IInv, ReceiptsHaveOrders, StatusMoves, ReceiptMoves, TypeOK, OrdersOK
<1>4. AnalysesRun'
  BY <1>2 DEF AnalysesRun, ReceiptMoves
<1>5. RejectionCloses'
  <2> SUFFICES ASSUME NEW i \in Images, state'[i] = "rejected", judge'[i] = "admin"
               PROVE  status'[order'[i]] # "waiting_payment"
    BY DEF RejectionCloses
  <2>1. \/ state[i] = "rejected" /\ judge[i] = "admin"
        \/ order[i] # None /\ status'[order[i]] # "waiting_payment"
    BY <1>2 DEF ReceiptMoves
  <2>2. order[i] # None
    BY <1>1, <2>1 DEF TypeOK, OrdersOK
  <2>3. order'[i] = order[i] /\ order[i] \in Orders /\ status[order[i]] # "absent"
    BY <1>1, <1>2, <2>2 DEF ReceiptMoves, TypeOK, OrdersOK, IInv, ReceiptsHaveOrders
  <2> QED
    BY <1>2, <2>1, <2>3 DEF IInv, RejectionCloses, StatusMoves
<1>6. \A o \in Orders : ReceiptsOf(o) \subseteq ReceiptsOf(o)'
  BY <1>2, ReceiptsAssumption DEF ReceiptMoves, ReceiptsOf
<1>7. \A o \in Orders : (status[o] = "cancelled" /\ ReceiptsOf(o) = {}) => ReceiptsOf(o)' = {}
  BY <1>2, ReceiptsAssumption DEF ReceiptMoves, ReceiptsOf
<1>8. SettledForAReason'
  <2> SUFFICES ASSUME NEW o \in Orders
               PROVE  /\ status'[o] = "paid" =>
                           \E i \in ReceiptsOf(o)' :
                              state'[i] = "approved" /\ (judge'[i] = "admin" \/ i \in proven')
                      /\ status'[o] = "cancelled" =>
                           \/ ReceiptsOf(o)' = {}
                           \/ \E i \in ReceiptsOf(o)' : state'[i] = "rejected" /\ judge'[i] = "admin"
    BY DEF SettledForAReason
  <2>1. CASE status'[o] = status[o]
    BY <1>2, <1>6, <1>7, <2>1 DEF IInv, SettledForAReason, ReceiptMoves, ReceiptsOf
  <2>2. CASE /\ status'[o] = "paid"
             /\ \E i \in ReceiptsOf(o) : state'[i] = "approved" /\ (judge'[i] = "admin" \/ i \in proven')
    BY <1>6, <2>2
  <2>3. CASE ReceiptsOf(o) = {} /\ order' = order /\ status'[o] = "cancelled"
    BY <2>3 DEF ReceiptsOf
  <2>4. CASE status'[o] = "cancelled"
             /\ \E i \in ReceiptsOf(o) : state'[i] = "rejected" /\ judge'[i] = "admin"
    BY <1>6, <2>4
  <2> QED
    BY <1>2, <2>1, <2>2, <2>3, <2>4 DEF StatusMoves
<1>9. TwoReceiptsAtMost'
  <2> SUFFICES ASSUME NEW o \in Orders PROVE Cardinality(ReceiptsOf(o)') <= 2
    BY DEF TwoReceiptsAtMost
  <2>1. Cardinality(ReceiptsOf(o)) <= 2
    BY DEF IInv, TwoReceiptsAtMost
  <2>2. CASE ReceiptsOf(o)' = ReceiptsOf(o)
    BY <2>1, <2>2
  <2>3. CASE ReceiptsOf(o)' # ReceiptsOf(o)
    <3>1. PICK i \in Images, q \in Orders : /\ order[i] = None /\ order' = [order EXCEPT ![i] = q]
                                            /\ Cardinality(ReceiptsOf(q)) < 2
      BY <1>2, <2>3 DEF OneAdded, ReceiptsOf
    <3>2. q = o /\ ReceiptsOf(o)' = ReceiptsOf(o) \cup {i} /\ i \notin ReceiptsOf(o)
      BY <1>1, <2>3, <3>1, ReceiptsAssumption DEF ReceiptsOf, TypeOK, OrdersOK
    <3>3. IsFiniteSet(ReceiptsOf(o))
      BY ReceiptsAssumption, FS_Subset DEF ReceiptsOf
    <3>4. Cardinality(ReceiptsOf(o)') = Cardinality(ReceiptsOf(o)) + 1
      BY <3>2, <3>3, FS_AddElement
    <3> QED
      BY <3>1, <3>2, <3>3, <3>4, FS_CardinalityType
  <2> QED
    BY <2>2, <2>3
<1> QED
  BY <1>1, <1>3, <1>4, <1>5, <1>8, <1>9 DEF IInv

\* The program starts in a state of the invariant.
LEMMA InvInit == Init => IInv
<1> SUFFICES ASSUME Init PROVE IInv
  OBVIOUS
<1>1. \A o \in Orders : ReceiptsOf(o) = {}
  BY ReceiptsAssumption DEF Init, ReceiptsOf
<1>2. TwoReceiptsAtMost
  BY <1>1, FS_EmptySet DEF TwoReceiptsAtMost
<1>3. OrdersOK
  BY DEF Init, OrdersOK, ReceiptStates
<1>4. RequisitesOK
  BY ReceiptsAssumption, ReceiptCheckAssumption DEF Init, RequisitesOK, NoNumber
<1> QED
  BY <1>1, <1>2, <1>3, <1>4
     DEF Init, IInv, TypeOK, ReceiptsHaveOrders, AnalysesRun, RejectionCloses, SettledForAReason

\* The invariant holds in every state the program reaches.
LEMMA Invariance == Spec => []IInv
  BY InvInit, InvStep, PTL DEF Spec

(***************************************************************************)
(* The theorems.                                                           *)
(***************************************************************************)
\* Every column always holds a value of its kind.
THEOREM TypeCorrect == Spec => []TypeOK
  BY Invariance, PTL DEF IInv

\* No order gets a third receipt, even if photos are handled at once.
THEOREM LimitHolds == Spec => []TwoReceiptsAtMost
  BY Invariance, PTL DEF IInv

\* Orders are paid by approved receipts only, and a buyer never cancels an
\* order with a receipt.
THEOREM ReasonsGiven == Spec => []SettledForAReason
  BY Invariance, PTL DEF IInv

\* A decision about a receipt is never changed.
THEOREM DecisionsStand == Spec => DecidedOnce
<1>1. IInv /\ [Next]_vars =>
        \A i \in Images : (state[i] = "approved" \/ (state[i] = "rejected" /\ judge[i] = "admin")) =>
                            state'[i] = state[i]
  BY Moves DEF ReceiptMoves
<1> QED
  BY <1>1, Invariance, PTL DEF Spec, DecidedOnce

(***************************************************************************)
(* Receipts implement PaymentPromise.                                      *)
(***************************************************************************)
LEMMA PromiseStart == Init => Promise!PromiseInit
  BY DEF Init, Promise!PromiseInit

Approvals == [i \in Images |-> IF state[i] = "approved" THEN {order[i]} ELSE {}]

\* A step of orders is one of the promise: orders that take a stage change it.
LEMMA SettlesOrders ==
  ASSUME NEW Q \in SUBSET Orders,
         Promise!Open(Q) \/ Promise!Close(Q) \/ \E i \in Images : Promise!Buy(Q, i)
  PROVE  Promise!PromiseNext
<1>1. Promise!Become(Q, "absent", "waiting_payment") \/ Promise!Become(Q, "waiting_payment", "cancelled")
        \/ Promise!Become(Q, "waiting_payment", "paid")
  BY DEF Promise!Open, Promise!Close, Promise!Buy
<1>2. status' # status
  BY <1>1 DEF Promise!Become
<1> QED
  BY <1>2 DEF Promise!PromiseNext

\* So is a receipt accepted for a settled order.
LEMMA AcceptedTooLate ==
  ASSUME NEW o \in Orders, NEW i \in Images, Promise!TooLate(o, i)
  PROVE  Promise!PromiseNext
<1>1. Approvals[i] = {} /\ Approvals' = [Approvals EXCEPT ![i] = {o}]
  BY DEF Promise!TooLate, Promise!Accept, Approvals
<1>2. Approvals'[i] = {o}
  BY <1>1 DEF Approvals
<1>3. Approvals' # Approvals
  BY <1>1, <1>2
<1> QED
  BY <1>3 DEF Promise!PromiseNext, Approvals

\* No receipt is approved by a step that settles none or settles it otherwise.
LEMMA NoneApproved ==
  ASSUME TypeOK, order' = order, NEW i \in Images, NEW to, to # "approved", state[i] # "approved",
         state' = [state EXCEPT ![i] = to]
  PROVE  Approvals' = Approvals
<1>1. \A j \in Images : (state'[j] = "approved") <=> (state[j] = "approved")
  BY DEF TypeOK, OrdersOK
<1> QED
  BY <1>1 DEF Approvals

\* The approval of a receipt is one for its order.
LEMMA ApprovalAccepts ==
  ASSUME TypeOK, order' = order, NEW i \in Images, state[i] # "approved",
         state' = [state EXCEPT ![i] = "approved"]
  PROVE  Promise!Accept(i, {order[i]})
<1>1. Approvals[i] = {}
  BY DEF Approvals
<1>2. Approvals' = [Approvals EXCEPT ![i] = {order[i]}]
  BY DEF TypeOK, OrdersOK, Approvals
<1> QED
  BY <1>1, <1>2 DEF Approvals, Promise!Accept

LEMMA PaidByApproval ==
  ASSUME TypeOK, order' = order, NEW i \in Images, state[i] # "approved", order[i] \in Orders,
         state' = [state EXCEPT ![i] = "approved"], status[order[i]] = "waiting_payment",
         status' = [status EXCEPT ![order[i]] = "paid"]
  PROVE  Promise!PromiseNext
<1>1. Promise!Become({order[i]}, "waiting_payment", "paid")
  BY DEF TypeOK, OrdersOK, Promise!Become
<1>2. Promise!Buy({order[i]}, i)
  BY <1>1, ApprovalAccepts DEF Promise!Buy
<1> QED
  BY <1>2, SettlesOrders

\* Every step of the handlers is one of the promise, or changes nothing in it.
LEMMA PromiseStep == IInv /\ [Next]_vars => [Promise!PromiseNext]_(Promise!promise)
<1> SUFFICES ASSUME IInv, [Next]_vars
             PROVE  Promise!PromiseNext \/ (status' = status /\ Approvals' = Approvals)
  BY DEF Promise!promise, Approvals
<1>0. TypeOK
  BY DEF IInv
<1>a. UNCHANGED <<order, state>> => Approvals' = Approvals
  BY DEF Approvals
<1>1. ASSUME NEW o \in Orders, Place(o) PROVE Promise!PromiseNext
  <2>1. Promise!Become({o}, "absent", "waiting_payment")
    BY <1>0, <1>1 DEF Place, TypeOK, OrdersOK, Promise!Become
  <2>2. Promise!Open({o})
    BY <1>1, <1>a, <2>1 DEF Place, receipt, Approvals, Promise!Open
  <2> QED
    BY <2>2, SettlesOrders
<1>2. ASSUME NEW o \in Orders, CancelPayment(o) PROVE Promise!PromiseNext
  <2>1. Promise!Become({o}, "waiting_payment", "cancelled")
    BY <1>0, <1>2 DEF CancelPayment, TypeOK, OrdersOK, Promise!Become
  <2>2. Promise!Close({o})
    BY <1>2, <1>a, <2>1 DEF CancelPayment, receipt, Approvals, Promise!Close
  <2> QED
    BY <2>2, SettlesOrders
<1>3. ASSUME NEW o \in Orders, StartReceipt(o) \/ TwelveMinutesPass(o)
      PROVE  status' = status /\ Approvals' = Approvals
  BY <1>3, <1>a DEF StartReceipt, TwelveMinutesPass, receipt
<1>4. ASSUME NEW o \in Orders, NEW i \in Images, SubmitReceipt(i, o)
      PROVE  status' = status /\ Approvals' = Approvals
  <2>1. /\ status' = status /\ order[i] = None /\ state[i] = "none"
        /\ order' = [order EXCEPT ![i] = o] /\ state' = [state EXCEPT ![i] = "analyzing"]
    BY <1>0, <1>4 DEF SubmitReceipt, Insert, TypeOK, OrdersOK
  <2>2. \A j \in Images : IF j = i THEN state'[j] # "approved" /\ state[j] # "approved"
                          ELSE state'[j] = state[j] /\ order'[j] = order[j]
    BY <1>0, <2>1 DEF TypeOK, OrdersOK
  <2> QED
    BY <2>1, <2>2 DEF Approvals
<1>5. ASSUME NEW i \in Images, AnalysisFails(i) PROVE status' = status /\ Approvals' = Approvals
  <2>1. state[i] # "approved"
    BY <1>5 DEF AnalysisFails, IInv, AnalysesRun
  <2> QED
    BY <1>0, <1>5, <2>1, NoneApproved DEF AnalysisFails
<1>6. ASSUME NEW i \in Images, Leave(i) \/ OfferReceipt(i) \/ EndOffer(i)
      PROVE  status' = status /\ Approvals' = Approvals
  BY <1>6, <1>a DEF Leave, OfferReceipt, EndOffer, receipt
<1>7. ASSUME NEW i \in Images, NEW a \in Analyses, AnalysisEnds(i, a)
      PROVE  Promise!PromiseNext \/ (status' = status /\ Approvals' = Approvals)
  <2> DEFINE to == IF status[order[i]] = "waiting_payment" THEN Judged(i, Accepted(i, a)) ELSE "cancelled"
  <2>1. order[i] \in Orders /\ order' = order /\ state[i] # "approved"
    BY <1>0, <1>7 DEF TypeOK, OrdersOK, AnalysisEnds, IInv, AnalysesRun
  <2>2. /\ state' = [state EXCEPT ![i] = to]
        /\ status' = IF to = "approved" THEN [status EXCEPT ![order[i]] = "paid"] ELSE status
    BY <1>7 DEF AnalysisEnds, Settle, Pay
  <2>3. to = "approved" => status[order[i]] = "waiting_payment"
    OBVIOUS
  <2> HIDE DEF to
  <2>4. CASE to = "approved"
    BY <1>0, <2>1, <2>2, <2>3, <2>4, PaidByApproval
  <2>5. CASE to # "approved"
    BY <1>0, <2>1, <2>2, <2>5, NoneApproved
  <2> QED
    BY <2>4, <2>5
<1>8. ASSUME NEW i \in Images, AskAdministrator(i) PROVE status' = status /\ Approvals' = Approvals
  BY <1>0, <1>8, NoneApproved DEF AskAdministrator, Settle
<1>9. ASSUME NEW i \in Images, Approve(i) PROVE Promise!PromiseNext
  <2>1. /\ order[i] \in Orders /\ order' = order /\ state[i] # "approved"
        /\ state' = [state EXCEPT ![i] = "approved"]
    BY <1>0, <1>9 DEF Approve, Reviewable, Settle, TypeOK, OrdersOK
  <2>2. CASE status[order[i]] = "waiting_payment"
    <3>1. status' = [status EXCEPT ![order[i]] = "paid"]
      BY <1>9, <2>2 DEF Approve, Pay
    <3> QED
      BY <1>0, <2>1, <2>2, <3>1, PaidByApproval
  <2>3. CASE status[order[i]] # "waiting_payment"
    <3>1. status' = status /\ status[order[i]] \in {"paid", "cancelled"}
      <4>1. status[order[i]] # "absent" /\ status[order[i]] \in {"absent", "waiting_payment", "paid", "cancelled"}
        BY <1>0, <2>1, ReceiptsAssumption DEF IInv, ReceiptsHaveOrders, TypeOK, OrdersOK
      <4> QED
        BY <1>9, <2>3, <4>1 DEF Approve
    <3>2. Promise!TooLate(order[i], i)
      BY <1>0, <2>1, <3>1, ApprovalAccepts DEF Promise!TooLate
    <3> QED
      BY <2>1, <3>2, AcceptedTooLate
  <2> QED
    BY <2>2, <2>3
<1>10. ASSUME NEW i \in Images, Reject(i)
       PROVE  Promise!PromiseNext \/ (status' = status /\ Approvals' = Approvals)
  <2>1. /\ order[i] \in Orders /\ order' = order /\ state[i] # "approved"
        /\ state' = [state EXCEPT ![i] = "rejected"]
    BY <1>0, <1>10 DEF Reject, Reviewable, Settle, TypeOK, OrdersOK
  <2>2. Approvals' = Approvals
    BY <1>0, <2>1, NoneApproved
  <2>3. CASE status[order[i]] = "waiting_payment"
    <3>1. Promise!Become({order[i]}, "waiting_payment", "cancelled")
      BY <1>0, <1>10, <2>1, <2>3 DEF Reject, TypeOK, OrdersOK, Promise!Become
    <3>2. Promise!Close({order[i]})
      BY <2>2, <3>1 DEF Approvals, Promise!Close
    <3> QED
      BY <2>1, <3>2, SettlesOrders
  <2>4. CASE status[order[i]] # "waiting_payment"
    <3>1. status' = status
      BY <1>0, <1>10, <2>1, <2>4 DEF Reject, TypeOK, OrdersOK
    <3> QED
      BY <2>2, <3>1
  <2> QED
    BY <2>3, <2>4
<1>11. ASSUME NEW u \in Users, LeaveDialogue(u) \/ LockExpires(u)
       PROVE  status' = status /\ Approvals' = Approvals
  BY <1>11, <1>a DEF LeaveDialogue, LockExpires, receipt
<1>12. CASE ChangeRequisites
  BY <1>12, <1>a DEF ChangeRequisites, CardAdd, CardReplace, CardToggle, CardDelete, IbanSet, PaymentMode,
                    Change, receipt
<1>13. CASE Crash \/ UNCHANGED vars
  BY <1>13, <1>a DEF Crash, vars, receipt
<1> QED
  BY <1>1, <1>2, <1>3, <1>4, <1>5, <1>6, <1>7, <1>8, <1>9, <1>10, <1>11, <1>12, <1>13 DEF Next, Handler

\* Neither a late verdict nor a decision on another receipt changes an order
\* that is settled, and what is approved once stays so, for one order: what
\* PaymentPromise says of every payment by transfer, for any orders and receipts.
THEOREM ReceiptsKeepPromise == Spec => Promised
  BY PromiseStart, PromiseStep, Invariance, PTL DEF Spec, Promised, Promise!PromiseSpec
=============================================================================
