-------------------------- MODULE PersonalPayment --------------------------
(***************************************************************************)
(* Payment by a transfer to the owner's card: app/personal.py, the button  *)
(* check_payment of app/bot.py and the replacement of the card in          *)
(* app/admin.py.  The bank's statement is read page by page, backwards,    *)
(* one check at a time (personal_lock); everything else may happen at each *)
(* await of a check.                                                       *)
(***************************************************************************)
EXTENDS Naturals, FiniteSets

CONSTANTS
  Orders,
  Cards,       \* cards of the owner, each with one account
  Transfers,   \* incoming transfers by the bank's id
  To,          \* the card a transfer goes to
  Fits,        \* pairs <<t, o>>: the amount of t is what o costs, within the tolerance
  Page,        \* entries the bank returns at most (500)
  MaxAge,      \* an order is checked no longer than that (30 days)
  MaxTime,     \* bound on the clock
  None

ASSUME PersonalAssumption ==
  /\ Fits \subseteq Transfers \X Orders
  /\ To \in [Transfers -> Cards]
  /\ Page \in Nat \ {0, 1} /\ MaxAge \in Nat /\ MaxTime \in Nat
  /\ IsFiniteSet(Transfers)
  /\ None \notin Orders \cup Cards \cup Transfers \cup Nat

VARIABLES
  clock,     \* the second it is
  status,    \* orders.status
  created,   \* orders.created_at, cut to the second
  made,      \* the time the bank gives a transfer; None before it shows
  used,      \* transfers with a row in payment_events
  paidBy,    \* the transfer an order was paid by (history)
  card,      \* settings.manual_card
  typed,     \* a new card in a session that is not committed
  account,   \* shop.personal_account, by its card
  cursor,    \* shop.personal_cursors
  ready,     \* shop.personal_next has passed
  check      \* the check that holds the lock

orders == <<status, created, paidBy>>
bank == <<made, used>>
admin == <<card, typed>>
shop == <<account, cursor, ready>>
vars == <<clock, orders, bank, admin, shop, check>>

Unset == [o \in Orders |-> None]
Idle == [pc |-> "idle", order |-> None, card |-> None, till |-> None,
         cursors |-> Unset, page |-> {}]

Init ==
  /\ clock = 1
  /\ status = [o \in Orders |-> "absent"]
  /\ created = Unset /\ paidBy = Unset
  /\ made = [t \in Transfers |-> None] /\ used = {}
  /\ card \in Cards /\ typed = None
  /\ account = None /\ cursor = Unset /\ ready = TRUE
  /\ check = Idle

Young(o) == clock <= created[o] + MaxAge
Payable(o) == status[o] = "waiting_payment" /\ Young(o)

(***************************************************************************)
(* Buyers, the bank and time.                                              *)
(***************************************************************************)
\* Mutation: the order's time is left to be written later.
Place_Undated(o) ==
  /\ status[o] = "absent"
  /\ status' = [status EXCEPT ![o] = "waiting_payment"]
  /\ UNCHANGED <<clock, created, paidBy, bank, admin, shop, check>>

Place(o) ==
  /\ status[o] = "absent"
  /\ status' = [status EXCEPT ![o] = "waiting_payment"]
  /\ created' = [created EXCEPT ![o] = clock]
  /\ UNCHANGED <<clock, paidBy, bank, admin, shop, check>>

CancelPayment(o) ==
  /\ status[o] = "waiting_payment"
  /\ status' = [status EXCEPT ![o] = "cancelled"]
  /\ UNCHANGED <<clock, created, paidBy, bank, admin, shop, check>>

\* A transfer shows in the statement, maybe late.  No second has a full page.
TransferShows(t, at) ==
  /\ made[t] = None
  /\ at <= clock
  /\ Cardinality({s \in Transfers : made[s] = at}) + 1 < Page
  /\ made' = [made EXCEPT ![t] = at]
  /\ UNCHANGED <<clock, orders, used, admin, shop, check>>

Tick ==
  /\ clock < MaxTime
  /\ clock' = clock + 1
  /\ UNCHANGED <<orders, bank, admin, shop, check>>

\* Twenty seconds since the last check.
CooldownEnds ==
  /\ ~ready
  /\ ready' = TRUE
  /\ UNCHANGED <<clock, orders, bank, admin, account, cursor, check>>

(***************************************************************************)
(* An administrator replaces the card: what the process remembers is reset *)
(* before the new card is committed.                                       *)
(***************************************************************************)
TypeCard(c) ==
  /\ typed = None
  /\ typed' = c
  /\ account' = None /\ cursor' = Unset /\ ready' = TRUE
  /\ UNCHANGED <<clock, orders, bank, card, check>>

CommitCard ==
  /\ typed # None
  /\ card' = typed /\ typed' = None
  /\ UNCHANGED <<clock, orders, bank, shop, check>>

(***************************************************************************)
(* A check.                                                                *)
(***************************************************************************)
\* The button has looked at the order seconds before, the check reads the card.
BeginCheck(o) ==
  /\ check.pc = "idle"
  /\ status[o] # "absent"
  /\ ready
  /\ ready' = FALSE
  /\ check' = [Idle EXCEPT !.pc = "begun", !.order = o, !.card = card]
  /\ UNCHANGED <<clock, orders, bank, admin, account, cursor>>

\* The request for the statement of card c: from the order's creation to the
\* cursor, or to the present.
Ask(o, c) ==
  check' = [check EXCEPT !.pc = "asked", !.card = c, !.cursors = cursor,
              !.till = IF cursor[o] = None \/ cursor[o] < created[o] THEN clock ELSE cursor[o]]

\* An order that waits no more ends the check, a known account is used.
LookUp(o) ==
  /\ check.pc = "begun" /\ check.order = o
  /\ IF ~Payable(o) THEN check' = Idle
     ELSE IF account = None THEN check' = [check EXCEPT !.pc = "resolving"]
     ELSE Ask(o, account)
  /\ UNCHANGED <<clock, orders, bank, admin, shop>>

\* The bank has told the account of the card read at the beginning.
Resolve(o) ==
  /\ check.pc = "resolving" /\ check.order = o
  /\ account' = check.card
  /\ Ask(o, check.card)
  /\ UNCHANGED <<clock, orders, bank, admin, cursor, ready>>

\* Mutation: the second of the order itself is not asked for.
Asked_After(t, o) ==
  made[t] # None /\ To[t] = check.card /\ created[o] < made[t] /\ made[t] <= check.till

\* An entry of the account within the time asked for.
Asked(t, o) ==
  made[t] # None /\ To[t] = check.card /\ created[o] <= made[t] /\ made[t] <= check.till

\* The bank returns the newest entries it has been asked for.
Answer(o) ==
  /\ check.pc = "asked" /\ check.order = o
  /\ LET entries == {t \in Transfers : Asked(t, o)}
     IN \E page \in SUBSET entries :
          /\ Cardinality(page) <= Page
          /\ page # entries => Cardinality(page) = Page
          /\ \A t \in page, s \in entries \ page : made[s] <= made[t]
          /\ check' = [check EXCEPT !.pc = "answered", !.page = page]
  /\ UNCHANGED <<clock, orders, bank, admin, shop>>

Matches(t, o) == <<t, o>> \in Fits /\ made[t] # None /\ created[o] <= made[t] /\ made[t] <= clock
Oldest(page) == {made[t] : t \in {s \in page : \A r \in page : made[s] <= made[r]}}

\* Mutation: a transfer is not looked up among those used.
Unused_Any(t) == made[t] # None

Unused(t) == t \notin used

\* Mutation: the order is paid as it was read before the request.
PaidNow_AsRead(o) == Young(o)

PaidNow(o) == Payable(o)

NextEnd(page) == IF Cardinality(page) >= Page THEN Oldest(page) ELSE {None}

\* apply_statement in one transaction, then the cursors as the check knew them.
ApplyStatement(o) ==
  LET mine == {t \in check.page : PaidNow(o) /\ Matches(t, o) /\ Unused(t)} IN
  /\ check.pc = "answered" /\ check.order = o
  /\ IF mine = {} THEN UNCHANGED <<status, used, paidBy>>
     ELSE \E t \in mine :
            /\ \A s \in mine : made[s] <= made[t]
            /\ status' = [status EXCEPT ![o] = "paid"]
            /\ paidBy' = [paidBy EXCEPT ![o] = t]
            /\ used' = used \cup {t}
  /\ \E end \in NextEnd(check.page) : cursor' = [check.cursors EXCEPT ![o] = end]
  /\ check' = Idle
  /\ UNCHANGED <<clock, created, made, admin, account, ready>>

\* The bank refuses, does not answer, or answers nonsense.
CheckFails ==
  /\ check.pc \in {"resolving", "asked"}
  /\ check' = Idle
  /\ UNCHANGED <<clock, orders, bank, admin, shop>>

\* What the process remembers is lost; an uncommitted card too.
Crash ==
  /\ check' = Idle /\ typed' = None
  /\ account' = None /\ cursor' = Unset /\ ready' = TRUE
  /\ UNCHANGED <<clock, orders, bank, card>>

CheckStep(o) == LookUp(o) \/ Resolve(o) \/ Answer(o) \/ ApplyStatement(o)

Next ==
  \/ \E o \in Orders : Place(o) \/ CancelPayment(o) \/ BeginCheck(o) \/ CheckStep(o)
  \/ \E t \in Transfers, at \in 1..MaxTime : TransferShows(t, at)
  \/ \E c \in Cards : TypeCard(c)
  \/ Tick \/ CooldownEnds \/ CommitCard \/ CheckFails \/ Crash

Spec == Init /\ [][Next]_vars

\* The buyers go on pressing the button; at some time the bank stops refusing
\* and the process stops restarting.
FairSpec ==
  /\ Spec
  /\ WF_vars(CooldownEnds)
  /\ WF_vars(\E o \in Orders : CheckStep(o))
  /\ \A o \in Orders : SF_vars(BeginCheck(o))
  /\ <>[][~(CheckFails \/ Crash)]_vars

(***************************************************************************)
(* Properties.                                                             *)
(***************************************************************************)
\* Every column and everything the process remembers is of its kind; only a
\* check that was answered has a page, and it is a page of the order's time.
TypeOK ==
  /\ clock \in Nat
  /\ status \in [Orders -> {"absent", "waiting_payment", "paid", "cancelled"}]
  /\ created \in [Orders -> Nat \cup {None}]
  /\ \A o \in Orders : created[o] = None <=> status[o] = "absent"
  /\ paidBy \in [Orders -> Transfers \cup {None}]
  /\ made \in [Transfers -> Nat \cup {None}]
  /\ used \subseteq Transfers
  /\ card \in Cards /\ typed \in Cards \cup {None}
  /\ account \in Cards \cup {None}
  /\ cursor \in [Orders -> Nat \cup {None}]
  /\ ready \in BOOLEAN
  /\ check \in [pc : {"idle", "begun", "resolving", "asked", "answered"},
                order : Orders \cup {None}, card : Cards \cup {None}, till : Nat \cup {None},
                cursors : [Orders -> Nat \cup {None}], page : SUBSET Transfers]
  /\ check.pc # "idle" => check.order # None /\ check.card # None
                          /\ status[check.order] # "absent"
  /\ \A t \in check.page : made[t] # None
  /\ check.page # {} => check.pc = "answered"

\* "Запис використаної транзакції та оплата атомарні" (README.md:110): each
\* paid order was paid by a transfer of its amount that came after it, and no
\* transfer paid two.
PaidByItsOwnTransfer ==
  \A o \in Orders :
    /\ status[o] = "paid" <=> paidBy[o] # None
    /\ status[o] = "paid" => paidBy[o] \in used /\ Matches(paidBy[o], o)
    /\ \A q \in Orders \ {o} : paidBy[o] = paidBy[q] => paidBy[o] = None

\* A check implements PaymentPromise, with the transfer as the proof: an order
\* cancelled while the bank is asked is not paid by the answer, and a transfer
\* that was used pays nothing else (personal.py:59-91).
Promise == INSTANCE PaymentPromise
             WITH Proofs <- Transfers, state <- status,
                  accepted <- [t \in Transfers |-> {o \in Orders : paidBy[o] = t}]

Promised == Promise!PromiseSpec

\* The process remembers no account but that of the owner's card.
Findable(o) ==
  /\ Payable(o)
  /\ typed = None /\ account \in {None, card}
  /\ \E t \in Transfers \ used : Matches(t, o) /\ To[t] = card

\* "Page backwards across dense statements without skipping the oldest
\* transfer" (personal.py:118): a buyer who goes on asking has the order
\* confirmed, unless the transfers go to other orders of that amount or the
\* process remembers another account.
TransferFound == \A o \in Orders : Findable(o) ~> ~Findable(o)
=============================================================================
