------------------------------ MODULE Receipts ------------------------------
(***************************************************************************)
(* Payment by transfer to a card, confirmed by a screenshot: the handlers  *)
(* receipt_start, receipt_photo, receipt_manual_review and cancel_payment  *)
(* of app/bot.py, receipt_review of app/admin.py, and the administrator's  *)
(* handling of the requisites an order is paid to.                         *)
(*                                                                         *)
(* An order stands for its checkout.  Every transaction locks the order's  *)
(* row or the receipt's and is one action; the model's answer, Telegram's  *)
(* answers and the administrators' decisions come between them.            *)
(***************************************************************************)
EXTENDS ReceiptCheck

CONSTANTS
  Orders,
  Owner,     \* the buyer of each order
  Images,    \* screenshots by their SHA-256, each used by one receipt at most
  CardIds,   \* payment_cards.id, given in their order
  FirstCard, \* the number of the card the shop has at first
  MaxChanges, \* a bound of the model: changes of the requisites
  None

Users == {Owner[o] : o \in Orders}

ASSUME ReceiptsAssumption ==
  /\ IsFiniteSet(Images)
  /\ Owner = [o \in Orders |-> Owner[o]]
  /\ None \notin Orders \cup Images
  /\ CardIds \subseteq Nat /\ FirstCard \in Numbers /\ MaxChanges \in Nat

VARIABLES
  status,    \* orders.status
  recent,    \* the order was paid less than 12 minutes ago
  order,     \* payment_receipts.order_id; None before the receipt exists
  state,     \* payment_receipts.status
  first,     \* the receipt was its order's first (attempt_number = 1)
  repeat,    \* another order of the buyer was recent when it was sent
  judge,     \* who approved or rejected it last
  phase,     \* what the handler of the receipt still has to do
  offered,   \* receipts some administrator holds with its two buttons
  form,      \* the order a buyer's dialogue expects a screenshot for
  busy,      \* the receipt whose handler holds the lock of a buyer's events
  receipts,  \* settings.payment_mode lets buyers pay by receipt
  cards,     \* rows of payment_cards: the number of each, 0 without a row
  active,    \* payment_cards.active
  iban,      \* settings.receipt_iban, 0 without
  changes,   \* how often the requisites have been changed
  details,   \* orders.payment_cards_encrypted: what the buyer was asked to pay to
  proven     \* history: receipts the model approved that show a payment of their order

shop == <<receipts, cards, active, iban, changes>>
receipt == <<order, state, first, repeat, judge, proven>>
vars == <<status, recent, receipt, phase, offered, form, busy, shop, details>>

ReceiptStates == {"analyzing", "retry_allowed_review", "manual_review",
                  "approved", "rejected", "cancelled"}

Init ==
  /\ status = [o \in Orders |-> "absent"]
  /\ recent = [o \in Orders |-> FALSE]
  /\ order = [i \in Images |-> None]
  /\ state = [i \in Images |-> "none"]
  /\ first = [i \in Images |-> FALSE]
  /\ repeat = [i \in Images |-> FALSE]
  /\ judge = [i \in Images |-> "nobody"]
  /\ phase = [i \in Images |-> "over"]
  /\ offered = {}
  /\ form = [u \in Users |-> None]
  /\ busy = [u \in Users |-> None]
  /\ receipts = TRUE
  /\ active = {k \in CardIds : \A j \in CardIds : k <= j}
  /\ cards = [k \in CardIds |-> IF k \in active THEN FirstCard ELSE NoNumber]
  /\ iban = NoNumber /\ changes = 0
  /\ details = [o \in Orders |-> [cards |-> {}, ibans |-> {}]]
  /\ proven = {}

ReceiptsOf(o) == {i \in Images : order[i] = o}
Pending(o) == {i \in ReceiptsOf(o) : state[i] \in {"analyzing", "manual_review"}}
Buyer(i) == Owner[order[i]]

(***************************************************************************)
(* The buyer.  Telegram events of one buyer are handled one at a time,     *)
(* until the lock behind that expires after two minutes.                   *)
(***************************************************************************)
\* The shop's cards and IBAN of the moment; no more than two cards are active.
Requisites == [cards |-> {cards[k] : k \in active}, ibans |-> {iban} \ {NoNumber}]

\* Shop.checkout by card transfer; an unsettled receipt forbids it.
Place(o) ==
  /\ status[o] = "absent"
  /\ busy[Owner[o]] = None
  /\ \A q \in Orders : Owner[q] = Owner[o] => Pending(q) = {}
  /\ receipts /\ active # {}
  /\ status' = [status EXCEPT ![o] = "waiting_payment"]
  /\ details' = [details EXCEPT ![o] = Requisites]
  /\ UNCHANGED <<shop, recent, receipt, phase, offered, form, busy>>

StartReceipt(o) ==
  /\ status[o] = "waiting_payment"
  /\ busy[Owner[o]] = None
  /\ Pending(o) = {} /\ Cardinality(ReceiptsOf(o)) < 2
  /\ form' = [form EXCEPT ![Owner[o]] = o]
  /\ UNCHANGED <<shop, details, status, recent, receipt, phase, offered, busy>>

\* /cancel, another dialogue, or half an hour without an answer.
LeaveDialogue(u) ==
  /\ form[u] # None
  /\ form' = [form EXCEPT ![u] = None]
  /\ UNCHANGED <<shop, details, status, recent, receipt, phase, offered, busy>>

Insert(i, o) ==
  /\ order' = [order EXCEPT ![i] = o]
  /\ state' = [state EXCEPT ![i] = "analyzing"]
  /\ first' = [first EXCEPT ![i] = ReceiptsOf(o) = {}]
  /\ repeat' = [repeat EXCEPT ![i] = \E q \in Orders \ {o} : Owner[q] = Owner[o] /\ recent[q]]
  /\ phase' = [phase EXCEPT ![i] = "analyse"]
  /\ busy' = [busy EXCEPT ![Owner[o]] = i]
  /\ UNCHANGED <<shop, details, status, recent, judge, proven, offered, form>>

\* Mutation: only receipts that were not accepted count as attempts.
SubmitReceipt_CountsRejected(i, o) ==
  /\ form[Owner[o]] = o /\ busy[Owner[o]] = None
  /\ order[i] = None
  /\ status[o] = "waiting_payment"
  /\ Pending(o) = {}
  /\ Cardinality({j \in ReceiptsOf(o) : state[j] = "rejected"}) < 2
  /\ Insert(i, o)

\* receipt_photo up to the call of the model, under the order's lock.
SubmitReceipt(i, o) ==
  /\ form[Owner[o]] = o /\ busy[Owner[o]] = None
  /\ order[i] = None
  /\ status[o] = "waiting_payment"
  /\ Pending(o) = {}
  /\ Cardinality(ReceiptsOf(o)) < 2
  /\ Insert(i, o)

Free(i) == busy' = [busy EXCEPT ![Buyer(i)] = IF @ = i THEN None ELSE @]

\* The dialogue is left after the handler has stored its result; administrators
\* are told when they have to decide.
Leave(i) ==
  /\ phase[i] = "leave"
  /\ form' = [form EXCEPT ![Buyer(i)] = None]
  /\ IF state[i] \in {"manual_review", "retry_allowed_review"}
     THEN phase' = [phase EXCEPT ![i] = "send"] /\ UNCHANGED busy
     ELSE phase' = [phase EXCEPT ![i] = "over"] /\ Free(i)
  /\ UNCHANGED <<shop, details, status, recent, receipt, offered>>

\* No verdict: an administrator decides, and the buyer may try once more.
AnalysisFails(i) ==
  /\ phase[i] = "analyse"
  /\ state' = [state EXCEPT ![i] = "retry_allowed_review"]
  /\ phase' = [phase EXCEPT ![i] = "leave"]
  /\ UNCHANGED <<shop, details, status, recent, order, first, repeat, judge, proven, offered, form, busy>>

Settle(i, to, who) ==
  /\ state' = [state EXCEPT ![i] = to]
  /\ judge' = [judge EXCEPT ![i] = who]

Pay(o) ==
  /\ status' = [status EXCEPT ![o] = "paid"]
  /\ recent' = [recent EXCEPT ![o] = TRUE]

\* Mutation: the requisites of the moment, not those of the order.
Accepted_Moment(i, a) == evaluate_receipt(a, Price, Requisites.cards, Requisites.ibans)

\* evaluate_receipt for the order's price and requisites.
Accepted(i, a) == evaluate_receipt(a, Price, details[order[i]].cards, details[order[i]].ibans)

\* What the screenshot of a payment of the order shows, for the history: one
\* who sent it lost no less than the price, but for the tolerance, to a card or
\* an account of the order, and did so lately.
ShowsPayment(a, o) ==
  /\ a.amount >= Price - PAYMENT_AMOUNT_TOLERANCE_KOPECKS
     \/ a.total >= Price - PAYMENT_AMOUNT_TOLERANCE_KOPECKS
  /\ \/ Suffix(a.card) \in {Suffix(c) : c \in details[o].cards}
     \/ Suffix(a.iban) \in {Suffix(c) : c \in details[o].ibans}
  /\ a.time = "within"

\* Mutation: a state none of the other handlers knows.
Judged_Unknown(i, accepted) ==
  IF accepted /\ ~repeat[i] THEN "approved"
  ELSE IF first[i] /\ ~accepted THEN "rejected"
  ELSE "pending"

\* What becomes of a receipt whose order still waits.
Judged(i, accepted) ==
  IF accepted /\ ~repeat[i] THEN "approved"
  ELSE IF first[i] /\ ~accepted THEN "rejected"
  ELSE "manual_review"

\* Mutation: the order is not looked at again after the analysis.
AnalysisEnds_LateApproval(i, a) ==
  LET to == Judged(i, Accepted(i, a)) IN
  /\ phase[i] = "analyse"
  /\ Settle(i, to, "model")
  /\ IF to = "approved" THEN Pay(order[i]) ELSE UNCHANGED <<status, recent>>
  /\ proven' = proven \cup {j \in {i} : to = "approved" /\ ShowsPayment(a, order[i])}
  /\ phase' = [phase EXCEPT ![i] = "leave"]
  /\ UNCHANGED <<shop, details, order, first, repeat, offered, form, busy>>

\* The verdict on the model's answer is applied under the locks of the receipt
\* and of its order.
AnalysisEnds(i, a) ==
  LET open == status[order[i]] = "waiting_payment"
      to == IF open THEN Judged(i, Accepted(i, a)) ELSE "cancelled"
  IN
  /\ phase[i] = "analyse"
  /\ Settle(i, to, "model")
  /\ IF to = "approved" THEN Pay(order[i]) ELSE UNCHANGED <<status, recent>>
  /\ proven' = proven \cup {j \in {i} : to = "approved" /\ ShowsPayment(a, order[i])}
  /\ phase' = [phase EXCEPT ![i] = "leave"]
  /\ UNCHANGED <<shop, details, order, first, repeat, offered, form, busy>>

\* Mutation: the order's status is not checked.
AskAdministrator_AnyOrder(i) ==
  /\ state[i] = "rejected" /\ phase[i] = "over"
  /\ busy[Buyer(i)] = None
  /\ Settle(i, "manual_review", judge[i])
  /\ phase' = [phase EXCEPT ![i] = "leave"]
  /\ busy' = [busy EXCEPT ![Buyer(i)] = i]
  /\ UNCHANGED <<shop, details, status, recent, order, first, repeat, proven, offered, form>>

\* The buyer hands a rejected receipt to the administrators, by a button of the
\* answer.
AskAdministrator(i) ==
  /\ state[i] = "rejected" /\ phase[i] = "over"
  /\ status[order[i]] = "waiting_payment"
  /\ busy[Buyer(i)] = None
  /\ Settle(i, "manual_review", judge[i])
  /\ phase' = [phase EXCEPT ![i] = "leave"]
  /\ busy' = [busy EXCEPT ![Buyer(i)] = i]
  /\ UNCHANGED <<shop, details, status, recent, order, first, repeat, proven, offered, form>>

\* Refused once there is any receipt, so there is none left to cancel.
CancelPayment(o) ==
  /\ status[o] = "waiting_payment"
  /\ busy[Owner[o]] = None
  /\ ReceiptsOf(o) = {}
  /\ status' = [status EXCEPT ![o] = "cancelled"]
  /\ form' = [form EXCEPT ![Owner[o]] = None]
  /\ UNCHANGED <<shop, details, recent, receipt, phase, offered, busy>>

(***************************************************************************)
(* The administrators.                                                     *)
(***************************************************************************)
\* One more message with the receipt is sent, and may not arrive.
OfferReceipt(i) ==
  /\ phase[i] = "send"
  /\ offered' = offered \cup {i}
  /\ UNCHANGED <<shop, details, status, recent, receipt, phase, form, busy>>

EndOffer(i) ==
  /\ phase[i] = "send"
  /\ phase' = [phase EXCEPT ![i] = "over"]
  /\ Free(i)
  /\ UNCHANGED <<shop, details, status, recent, receipt, offered, form>>

Reviewable(i) == i \in offered /\ state[i] \in {"manual_review", "retry_allowed_review"}

\* The receipt is approved whatever its order has become; the order is paid
\* only if it waits.
Approve(i) ==
  /\ Reviewable(i)
  /\ Settle(i, "approved", "admin")
  /\ IF status[order[i]] = "waiting_payment" THEN Pay(order[i]) ELSE UNCHANGED <<status, recent>>
  /\ UNCHANGED <<shop, details, order, first, repeat, proven, phase, offered, form, busy>>

Reject(i) ==
  /\ Reviewable(i)
  /\ Settle(i, "rejected", "admin")
  /\ status' = [status EXCEPT ![order[i]] = IF @ = "waiting_payment" THEN "cancelled" ELSE @]
  /\ UNCHANGED <<shop, details, recent, order, first, repeat, proven, phase, offered, form, busy>>

\* A change of the shop's requisites: it concerns no order there is.
Change ==
  /\ changes < MaxChanges /\ changes' = changes + 1
  /\ UNCHANGED <<status, recent, receipt, phase, offered, form, busy, details>>

\* The form of a new card; the count it depends on is not locked.
CardAdd(k, n) ==
  /\ \A j \in CardIds : cards[j] # NoNumber => j < k
  /\ Cardinality(active) < 2
  /\ cards' = [cards EXCEPT ![k] = n] /\ active' = active \cup {k}
  /\ Change /\ UNCHANGED <<receipts, iban>>

CardReplace(k, n) ==
  /\ cards[k] \notin {NoNumber, n}
  /\ cards' = [cards EXCEPT ![k] = n]
  /\ Change /\ UNCHANGED <<receipts, active, iban>>

CardToggle(k) ==
  /\ cards[k] # NoNumber
  /\ k \in active \/ Cardinality(active) < 2
  /\ active' = IF k \in active THEN active \ {k} ELSE active \cup {k}
  /\ Change /\ UNCHANGED <<receipts, cards, iban>>

CardDelete(k) ==
  /\ cards[k] # NoNumber
  /\ cards' = [cards EXCEPT ![k] = NoNumber] /\ active' = active \ {k}
  /\ Change /\ UNCHANGED <<receipts, iban>>

IbanSet(n) ==
  /\ iban # n
  /\ iban' = n
  /\ Change /\ UNCHANGED <<receipts, cards, active>>

PaymentMode(allowed) ==
  /\ receipts # allowed /\ (allowed => active # {})
  /\ receipts' = allowed
  /\ Change /\ UNCHANGED <<cards, active, iban>>

ChangeRequisites ==
  \/ \E k \in CardIds : CardToggle(k) \/ CardDelete(k)
  \/ \E k \in CardIds, n \in Numbers : CardAdd(k, n) \/ CardReplace(k, n)
  \/ \E n \in Ibans \cup {NoNumber} : IbanSet(n)
  \/ \E allowed \in BOOLEAN : PaymentMode(allowed)

(***************************************************************************)
(* Time and restarts.                                                      *)
(***************************************************************************)
TwelveMinutesPass(o) ==
  /\ recent[o]
  /\ recent' = [recent EXCEPT ![o] = FALSE]
  /\ UNCHANGED <<shop, details, status, receipt, phase, offered, form, busy>>

LockExpires(u) ==
  /\ busy[u] # None
  /\ busy' = [busy EXCEPT ![u] = None]
  /\ UNCHANGED <<shop, details, status, recent, receipt, phase, offered, form>>

\* Handlers are gone; rows, dialogues (in Redis) and messages stay.
Crash ==
  /\ phase' = [i \in Images |-> "over"]
  /\ busy' = [u \in Users |-> None]
  /\ UNCHANGED <<shop, details, status, recent, receipt, offered, form>>

Handler(i) ==
  \/ AnalysisFails(i) \/ Leave(i) \/ OfferReceipt(i) \/ EndOffer(i)
  \/ \E a \in Analyses : AnalysisEnds(i, a)

Next ==
  \/ \E o \in Orders : \/ Place(o) \/ StartReceipt(o) \/ CancelPayment(o) \/ TwelveMinutesPass(o)
                       \/ \E i \in Images : SubmitReceipt(i, o)
  \/ \E i \in Images : Handler(i) \/ AskAdministrator(i) \/ Approve(i) \/ Reject(i)
  \/ \E u \in Users : LeaveDialogue(u) \/ LockExpires(u)
  \/ ChangeRequisites \/ Crash

Spec == Init /\ [][Next]_vars

(***************************************************************************)
(* Properties.                                                             *)
(***************************************************************************)
\* A receipt has a state exactly when it exists, and a handler at work has one.
OrdersOK ==
  /\ status \in [Orders -> {"absent", "waiting_payment", "paid", "cancelled"}]
  /\ recent \in [Orders -> BOOLEAN]
  /\ order \in [Images -> Orders \cup {None}]
  /\ state \in [Images -> ReceiptStates \cup {"none"}]
  /\ \A i \in Images : order[i] = None <=> state[i] = "none"
  /\ first \in [Images -> BOOLEAN]
  /\ repeat \in [Images -> BOOLEAN]
  /\ judge \in [Images -> {"nobody", "model", "admin"}]
  /\ phase \in [Images -> {"over", "analyse", "leave", "send"}]
  /\ \A i \in Images : phase[i] # "over" => order[i] # None
  /\ offered \subseteq {i \in Images : order[i] # None}
  /\ form \in [Users -> Orders \cup {None}]
  /\ busy \in [Users -> Images \cup {None}]

RequisitesOK ==
  /\ receipts \in BOOLEAN
  /\ cards \in [CardIds -> Numbers \cup {NoNumber}]
  /\ active \subseteq {k \in CardIds : cards[k] # NoNumber}
  /\ iban \in Ibans \cup {NoNumber}
  /\ changes \in 0..MaxChanges
  /\ details \in [Orders -> [cards : SUBSET Numbers, ibans : SUBSET Ibans]]
  /\ proven \subseteq Images

\* Every column holds a value of its kind, and only a card with a row is active.
TypeOK == OrdersOK /\ RequisitesOK

\* "Ліміт: дві квитанції на одну оплату" (bot.py:1783), also when the lock of
\* the buyer's events has expired and two photos are handled at once.
TwoReceiptsAtMost == \A o \in Orders : Cardinality(ReceiptsOf(o)) <= 2

\* An order is paid only by a receipt that was approved, by an administrator or
\* because it shows a payment of this order's price to this order's requisites,
\* whatever has become of the shop's meanwhile (admin.py:1418: "Старі
\* замовлення зберегли свої реквізити").  No order is called off by its buyer
\* while somebody looks at a receipt of it: it is cancelled before the first
\* receipt or by an administrator's rejection.
SettledForAReason ==
  \A o \in Orders :
    /\ status[o] = "paid" =>
         \E i \in ReceiptsOf(o) : state[i] = "approved" /\ (judge[i] = "admin" \/ i \in proven)
    /\ status[o] = "cancelled" =>
         \/ ReceiptsOf(o) = {}
         \/ \E i \in ReceiptsOf(o) : state[i] = "rejected" /\ judge[i] = "admin"

\* Receipts implement PaymentPromise, with the approved receipt as the proof:
\* neither a verdict that comes late nor a decision on the other receipt opens
\* an order again, takes a paid one back, or pays one that is closed
\* (bot.py:1871, admin.py:1443-1446).
Promise == INSTANCE PaymentPromise
             WITH Proofs <- Images, state <- status,
                  accepted <- [i \in Images |-> IF state[i] = "approved" THEN {order[i]} ELSE {}]

Promised == Promise!PromiseSpec

\* What an administrator has decided about a receipt, and an automatic
\* approval, is never changed (admin.py:1430, bot.py:1710).
DecidedOnce ==
  [][\A i \in Images :
       (state[i] = "approved" \/ (state[i] = "rejected" /\ judge[i] = "admin")) =>
         state'[i] = state[i]]_vars
=============================================================================
