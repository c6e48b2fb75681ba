-------------------------------- MODULE Shop --------------------------------
(***************************************************************************)
(* Orders, stock, invoices and provider events: the Shop class of          *)
(* app/services.py (checkout, checkout_cart, payment, cancel_payment,      *)
(* reconcile) with the helpers mark_checkout_paid and release_checkout.    *)
(*                                                                         *)
(* PostgreSQL runs at READ COMMITTED and every transaction below is one    *)
(* action.  A handler that talks to Monobank between two transactions      *)
(* keeps a session open: the rows it has loaded stay in SQLAlchemy's       *)
(* identity map, and a later SELECT ... FOR UPDATE of the same row locks   *)
(* it without reloading its attributes.  task[u].snap is that copy.        *)
(***************************************************************************)
EXTENDS Integers, FiniteSets, Functions

CONSTANTS
  Users,      \* buyers
  Products,   \* products on sale
  OrderIds,   \* ids of the orders ever inserted (bounds the model)
  Tracked,    \* products whose stock_quantity is not NULL
  InitStock,  \* their stock at the start
  Terms,      \* a choice of tip and promo code
  Methods,    \* payment methods the settings may select
  Paths,      \* subset of {"single", "cart"}: which checkouts buyers use
  Flaws,      \* what may be wrong in a signed event: {"none", "amount", "date"}
  MaxDate,    \* bound on the provider's modifiedDate
  MaxAge,     \* bound on age, at most 2
  None        \* NULL

AllMethods == {"acquiring", "personal", "receipt", "free"}

ASSUME ShopAssumption ==
  /\ Tracked \subseteq Products
  /\ InitStock \in [Tracked -> Nat]
  /\ Methods \subseteq AllMethods
  /\ Paths \subseteq {"single", "cart"}
  /\ "none" \in Flaws /\ Flaws \subseteq {"none", "amount", "date"}
  /\ MaxDate \in Nat
  /\ MaxAge \in 0..2
  /\ IsFiniteSet(OrderIds)
  /\ None \notin Users \cup Products \cup OrderIds \cup Terms \cup AllMethods

VARIABLES
  stock,    \* products.stock_quantity of the tracked products
  cart,     \* cart_items: the products in each buyer's cart
  row,      \* the columns of an order fixed by its INSERT; None before it
  status,   \* orders.status
  bound,    \* orders.mono_invoice_id is not NULL
  url,      \* orders.payment_url is not NULL
  date,     \* orders.provider_modified_at (0: NULL)
  age,      \* 0: younger than 2 minutes, 1: than 55, 2: older
  seen,     \* payment_events.digest
  task,     \* the handler running for a buyer (one at a time)
  prov,     \* the provider's invoice for an order
  sent,     \* every event the provider has signed: may arrive late, twice, never
  batch,    \* orders the running reconcile pass still has to poll
  answer    \* the invoice/status answer it holds and has still to apply, or None

vars == <<stock, cart, row, status, bound, url, date, age, seen, task, prov, sent, batch, answer>>
money == <<bound, url, date, seen, prov, sent, batch, answer>>

SUCCESS == {"paid", "delivered"}
Statuses == {"absent", "waiting_payment", "paid", "delivered", "payment_failed", "cancelled"}
Placed == {o \in OrderIds : status[o] # "absent"}

Row == [user : Users, item : Products, method : AllMethods, terms : Terms,
        lead : OrderIds,      \* the order that carries payment_total_snapshot and the invoice
        cart : BOOLEAN]       \* checkout_id is not NULL

InvoiceStatus == {"created", "success", "failure", "reversed"}
Event == [order : OrderIds, status : InvoiceStatus, date : 0..MaxDate, flaw : Flaws]

ASSUME NoneAssumption == None \notin Event

Idle == [pc |-> "idle", item |-> None, terms |-> None, method |-> None, lead |-> None,
         snap |-> [p \in Tracked |-> 0], saw |-> "absent"]

Init ==
  /\ stock = InitStock
  /\ cart = [u \in Users |-> {}]
  /\ row = [o \in OrderIds |-> None]
  /\ status = [o \in OrderIds |-> "absent"]
  /\ bound = [o \in OrderIds |-> FALSE]
  /\ url = [o \in OrderIds |-> FALSE]
  /\ date = [o \in OrderIds |-> 0]
  /\ age = [o \in OrderIds |-> 0]
  /\ seen = {}
  /\ task = [u \in Users |-> Idle]
  /\ prov = [o \in OrderIds |-> None]
  /\ sent = {}
  /\ batch = {}
  /\ answer = None

(***************************************************************************)
(* Helpers shared by the transactions.                                     *)
(***************************************************************************)
CheckoutOrders(o) == {q \in Placed : row[q].lead = row[o].lead}

\* Mutation: the last unit is sold twice.
InStock_OffByOne(n) == n >= 0

InStock(n) == n > 0

\* Tracked products of the orders in Q; the items of one checkout are distinct.
ItemsOf(Q) == {p \in Tracked : \E q \in Q : row[q].item = p}

Waiting(Q) == {q \in Q : status[q] = "waiting_payment"}

\* Mutation: the whole cart is emptied.
MarkCheckoutPaid_EmptiesCart(o) ==
  /\ status' = [q \in OrderIds |->
                  IF q \in CheckoutOrders(o) /\ status[q] \notin SUCCESS THEN "paid" ELSE status[q]]
  /\ cart' = IF row[o].cart THEN [cart EXCEPT ![row[o].user] = {}] ELSE cart
  /\ UNCHANGED stock

\* Mutation: the provider's word for the status is stored.
MarkCheckoutPaid_ProviderWord(o) ==
  /\ status' = [q \in OrderIds |->
                  IF q \in CheckoutOrders(o) /\ status[q] \notin SUCCESS THEN "success" ELSE status[q]]
  /\ UNCHANGED <<cart, stock>>

\* Mutation: the siblings of the order are forgotten.
MarkCheckoutPaid_OneOrder(o) ==
  /\ status' = [status EXCEPT ![o] = IF @ \in SUCCESS THEN @ ELSE "paid"]
  /\ cart' = IF row[o].cart THEN [cart EXCEPT ![row[o].user] = @ \ {row[o].item}] ELSE cart
  /\ UNCHANGED stock

\* Every item of the checkout that is not yet a success becomes paid, whatever
\* it was; the bought products leave the cart.
MarkCheckoutPaid(o) ==
  /\ status' = [q \in OrderIds |->
                  IF q \in CheckoutOrders(o) /\ status[q] \notin SUCCESS THEN "paid" ELSE status[q]]
  /\ cart' = IF row[o].cart
             THEN [cart EXCEPT ![row[o].user] = @ \ {row[q].item : q \in CheckoutOrders(o)}]
             ELSE cart
  /\ UNCHANGED stock

\* Mutation: the units of the released orders are not given back.
ReleaseCheckout_KeepsUnits(o, to) ==
  /\ status' = [q \in OrderIds |-> IF q \in Waiting(CheckoutOrders(o)) THEN to ELSE status[q]]
  /\ UNCHANGED <<cart, stock>>

\* The items still waiting take the status `to` and give their unit back.
ReleaseCheckout(o, to) ==
  LET freed == Waiting(CheckoutOrders(o)) IN
  /\ status' = [q \in OrderIds |-> IF q \in freed THEN to ELSE status[q]]
  /\ stock' = [p \in Tracked |-> IF p \in ItemsOf(freed) THEN stock[p] + 1 ELSE stock[p]]
  /\ UNCHANGED cart

(***************************************************************************)
(* Checkout of one product.                                                *)
(***************************************************************************)

\* Mutation: only the last two minutes are searched.
Reusable_TwoMinutes(u, p, m, t) ==
  {o \in Placed :
     /\ row[o].user = u /\ row[o].item = p /\ row[o].method = m /\ row[o].terms = t
     /\ status[o] \in {"waiting_payment"} \cup (IF m = "free" THEN SUCCESS ELSE {})
     /\ age[o] < 1
     /\ m # "acquiring" \/ url[o]}

\* The order a repeated click gets back instead of a new one.
Reusable(u, p, m, t) ==
  {o \in Placed :
     /\ row[o].user = u /\ row[o].item = p /\ row[o].method = m /\ row[o].terms = t
     /\ status[o] \in {"waiting_payment"} \cup (IF m = "free" THEN SUCCESS ELSE {})
     /\ age[o] < 2
     /\ m # "acquiring" \/ url[o]}

\* The product row is read without a lock and stays in the session.
BeginCheckout(u, p, m, t) ==
  /\ "single" \in Paths
  /\ task[u].pc = "idle"
  /\ Reusable(u, p, m, t) = {}
  /\ task' = [task EXCEPT ![u] = [Idle EXCEPT !.pc = "chosen", !.item = p, !.method = m,
                                              !.terms = t, !.snap = stock]]
  /\ UNCHANGED <<stock, cart, row, status, age, money>>

\* The row is locked now, but the stock tested and written is the session's copy.
ReserveSingle(u, o, free) ==
  LET t == task[u] IN
  /\ t.pc = "chosen"
  /\ o \notin Placed
  /\ free \in (IF t.method = "free" THEN {TRUE} ELSE {FALSE, "free" \in Methods})
  /\ t.item \in Tracked => InStock(t.snap[t.item])
  /\ row' = [row EXCEPT ![o] = [user |-> u, item |-> t.item, terms |-> t.terms, lead |-> o,
                                method |-> IF free THEN "free" ELSE t.method, cart |-> FALSE]]
  /\ status' = [status EXCEPT ![o] = IF free THEN "delivered" ELSE "waiting_payment"]
  /\ stock' = [p \in Tracked |-> IF p = t.item THEN t.snap[p] - 1 ELSE stock[p]]
  /\ task' = [task EXCEPT ![u] =
                IF t.method = "acquiring" THEN [Idle EXCEPT !.pc = "create", !.lead = o, !.snap = stock']
                ELSE Idle]
  /\ UNCHANGED <<cart, age, money>>

\* Out of stock, or the promo code no longer holds under its lock.
RefuseCheckout(u) ==
  /\ task[u].pc = "chosen"
  /\ task' = [task EXCEPT ![u] = Idle]
  /\ UNCHANGED <<stock, cart, row, status, age, money>>

(***************************************************************************)
(* Checkout of the cart: one order per product, the products locked and    *)
(* read in the same statement.                                             *)
(***************************************************************************)
AddToCart(u, p) ==
  /\ "cart" \in Paths
  /\ task[u].pc = "idle"
  /\ p \notin cart[u]
  /\ p \in Tracked => stock[p] # 0
  /\ cart' = [cart EXCEPT ![u] = @ \cup {p}]
  /\ UNCHANGED <<stock, row, status, age, task, money>>

RemoveFromCart(u, p) ==
  /\ task[u].pc = "idle"
  /\ p \in cart[u]
  /\ cart' = [cart EXCEPT ![u] = @ \ {p}]
  /\ UNCHANGED <<stock, row, status, age, task, money>>

ReserveCart(u, m, t, ids, first) ==
  /\ task[u].pc = "idle"
  /\ first \in cart[u]
  /\ ids \in Injection(cart[u], OrderIds \ Placed)
  /\ \A p \in cart[u] \cap Tracked : stock[p] # 0
  /\ row' = [o \in OrderIds |->
               IF \E p \in cart[u] : ids[p] = o
               THEN [user |-> u, item |-> CHOOSE p \in cart[u] : ids[p] = o, method |-> m,
                     terms |-> t, lead |-> ids[first], cart |-> TRUE]
               ELSE row[o]]
  /\ status' = [o \in OrderIds |->
                  IF \E p \in cart[u] : ids[p] = o
                  THEN IF m = "free" THEN "paid" ELSE "waiting_payment"
                  ELSE status[o]]
  /\ stock' = [p \in Tracked |-> IF p \in cart[u] THEN stock[p] - 1 ELSE stock[p]]
  /\ cart' = IF m = "free" THEN [cart EXCEPT ![u] = {}] ELSE cart
  /\ task' = [task EXCEPT ![u] =
                IF m = "acquiring"
                THEN [Idle EXCEPT !.pc = "create", !.lead = ids[first], !.snap = stock']
                ELSE Idle]
  /\ UNCHANGED <<age, money>>

(***************************************************************************)
(* invoice/create, called after the reservation is committed.  The         *)
(* provider may create the invoice and the answer still be lost.           *)
(***************************************************************************)
Signed(o, s, d, f) == [order |-> o, status |-> s, date |-> d, flaw |-> f]

\* The provider's invoice takes state e and a signed callback for it exists.
ProviderReports(e) ==
  /\ prov' = [prov EXCEPT ![e.order] = e]
  /\ sent' = sent \cup {e}

InvoiceCreated(u, f) ==
  /\ task[u].pc = "create"
  /\ ProviderReports(Signed(task[u].lead, "created", 0, f))
  /\ \E answered \in BOOLEAN :
       task' = [task EXCEPT ![u].pc = IF answered THEN "answered" ELSE "failed"]
  /\ UNCHANGED <<stock, cart, row, status, age, bound, url, date, seen, batch, answer>>

InvoiceRefused(u) ==
  /\ task[u].pc = "create"
  /\ task' = [task EXCEPT ![u].pc = "failed"]
  /\ UNCHANGED <<stock, cart, row, status, age, money>>

\* Mutation: the page's address is checked after the commit and not before it.
StoreInvoice_ChecksLate(u) ==
  /\ task[u].pc = "answered"
  /\ bound' = [bound EXCEPT ![task[u].lead] = TRUE]
  /\ url' = [url EXCEPT ![task[u].lead] = TRUE]
  /\ \E ok \in BOOLEAN :
       task' = [task EXCEPT ![u] = IF ok THEN Idle ELSE [@ EXCEPT !.pc = "failed"]]
  /\ UNCHANGED <<stock, cart, row, status, age, date, seen, prov, sent, batch, answer>>

\* Only the two changed columns are written.
StoreInvoice(u) ==
  /\ task[u].pc = "answered"
  /\ bound' = [bound EXCEPT ![task[u].lead] = TRUE]
  /\ url' = [url EXCEPT ![task[u].lead] = TRUE]
  /\ task' = [task EXCEPT ![u] = Idle]
  /\ UNCHANGED <<stock, cart, row, status, age, date, seen, prov, sent, batch, answer>>

\* session.refresh of the lead order, without a lock.
RefreshOrder(u) ==
  /\ task[u].pc = "failed"
  /\ task' = [task EXCEPT ![u].pc = "refreshed", ![u].saw = status[task[u].lead]]
  /\ UNCHANGED <<stock, cart, row, status, age, money>>

\* The orders given up by a handler that read `saw` in the lead order: as its
\* session sees them, the siblings of a cart's lead order are still waiting.
GivenUp(u, saw) ==
  LET lead == task[u].lead IN
  IF row[lead].cart
  THEN {q \in CheckoutOrders(lead) : q = lead => saw = "waiting_payment"}
  ELSE {q \in {lead} : saw \notin SUCCESS}

\* An attribute set to the value it was loaded with is not written; the stock
\* written is the session's copy plus one.
GiveUp(u, saw) ==
  LET failed == GivenUp(u, saw) IN
  /\ status' = [q \in OrderIds |->
                  IF q \in failed /\ ~(q = task[u].lead /\ saw = "payment_failed")
                  THEN "payment_failed" ELSE status[q]]
  /\ stock' = [p \in Tracked |-> IF p \in ItemsOf(failed) THEN task[u].snap[p] + 1 ELSE stock[p]]
  /\ task' = [task EXCEPT ![u] = Idle]

FailCheckout(u) ==
  /\ task[u].pc = "refreshed"
  /\ GiveUp(u, task[u].saw)
  /\ UNCHANGED <<cart, row, age, money>>

\* The answer names no https page: the refresh flushes the invoice's columns
\* and so locks the row until the failure is committed.
PageRefused(u) ==
  /\ task[u].pc = "answered"
  /\ bound' = [bound EXCEPT ![task[u].lead] = TRUE]
  /\ url' = [url EXCEPT ![task[u].lead] = TRUE]
  /\ GiveUp(u, status[task[u].lead])
  /\ UNCHANGED <<cart, row, age, date, seen, prov, sent, batch, answer>>

(***************************************************************************)
(* Shop.payment: a signed webhook, or the payload a reconcile pass fetched. *)
(* The two bodies differ in form, so their digests differ.                 *)
(***************************************************************************)
\* Mutations: events are applied in any order; an event as old as the last is stale.
Stale_Never(e) == FALSE
Stale_Ties(e) == e.date <= date[e.order]

Stale(e) == e.date < date[e.order]

\* Mutation: what was paid is not compared with what is due.
Counts_AnyAmount(e) == e.flaw # "date" /\ ~Stale(e)

\* Amount, currency and reference match, the date is readable and not outdated.
Counts(e) == e.flaw = "none" /\ ~Stale(e)

Payment(channel, e) ==
  LET o == e.order IN
  /\ row[o].method = "acquiring"
  /\ <<channel, e>> \notin seen
  /\ seen' = seen \cup {<<channel, e>>}
  /\ bound' = [bound EXCEPT ![o] = @ \/ e.flaw # "amount"]
  /\ date' = [date EXCEPT ![o] = IF Counts(e) THEN e.date ELSE @]
  /\ CASE Counts(e) /\ e.status = "success" /\ status[o] \notin SUCCESS -> MarkCheckoutPaid(o)
       [] Counts(e) /\ e.status \in {"failure", "reversed"} /\ status[o] = "waiting_payment" ->
            ReleaseCheckout(o, "payment_failed")
       [] OTHER -> UNCHANGED <<status, cart, stock>>

Webhook(e) ==
  /\ Payment("hook", e)
  /\ UNCHANGED <<row, age, task, url, prov, sent, batch, answer>>

\* Orders a reconcile pass polls.
Unsettled == {o \in Placed : status[o] = "waiting_payment" /\ bound[o] /\ age[o] >= 1}

StartReconcile ==
  /\ batch = {} /\ answer = None
  /\ batch' = Unsettled
  /\ batch' # {}
  /\ UNCHANGED <<stock, cart, row, status, bound, url, date, age, seen, task, prov, sent, answer>>

\* invoice/status answers with the invoice's current state.
Ask(o) ==
  /\ o \in batch /\ answer = None
  /\ batch' = batch \ {o}
  /\ answer' = prov[o]
  /\ UNCHANGED <<stock, cart, row, status, bound, url, date, age, seen, task, prov, sent>>

\* The answer may be outdated by now; what was seen changes nothing.
ApplyAnswer(o) ==
  /\ answer # None /\ answer.order = o
  /\ answer' = None
  /\ \/ Payment("poll", answer)
     \/ /\ row[o].method # "acquiring" \/ <<"poll", answer>> \in seen
        /\ UNCHANGED <<stock, cart, status, bound, date, seen>>
  /\ UNCHANGED <<row, age, task, url, prov, sent, batch>>

PollFails(o) ==
  /\ o \in batch /\ answer = None
  /\ batch' = batch \ {o}
  /\ UNCHANGED <<stock, cart, row, status, bound, url, date, age, seen, task, prov, sent, answer>>

(***************************************************************************)
(* Other ways an order changes.                                            *)
(***************************************************************************)
BuyerCancels(u, o) ==
  /\ task[u].pc = "idle"
  /\ o \in Placed
  /\ row[o].user = u
  /\ status[o] = "waiting_payment"
  /\ ReleaseCheckout(o, "cancelled")
  /\ UNCHANGED <<row, age, task, money>>

\* A personal transfer found in the statement, or an accepted receipt.
ConfirmTransfer(o) ==
  /\ o \in Placed
  /\ row[o].method \in {"personal", "receipt"}
  /\ status[o] = "waiting_payment"
  /\ MarkCheckoutPaid(o)
  /\ UNCHANGED <<row, age, task, money>>

\* The worker's deliver_one, from its claim to its last commit.
Deliver(o) ==
  /\ status[o] = "paid"
  /\ status' = [status EXCEPT ![o] = "delivered"]
  /\ UNCHANGED <<stock, cart, row, age, task, money>>

\* The provider's side: an invoice is paid, fails, or is paid and reversed.
\* modifiedDate never goes back and may repeat.
ProviderMoves(o, s, d, f) ==
  /\ prov[o] # None
  /\ \/ prov[o].status = "created" /\ s \in {"success", "failure"}
     \/ prov[o].status = "success" /\ s = "reversed"
  /\ d \in {prov[o].date, prov[o].date + 1} \cap 0..MaxDate
  /\ ProviderReports(Signed(o, s, d, f))
  /\ UNCHANGED <<stock, cart, row, status, age, task, bound, url, date, seen, batch, answer>>

\* The age of an order is asked for when its invoice is polled, and when a
\* click on its product might get it back.
TimePasses(o) ==
  /\ o \in Placed
  /\ status[o] = "waiting_payment" \/ row[o].method = "free"
  /\ age[o] < MaxAge
  /\ age' = [age EXCEPT ![o] = @ + 1]
  /\ UNCHANGED <<stock, cart, row, status, task, money>>

\* The process restarts: handlers and the reconcile pass are gone, rows stay.
Crash ==
  /\ task' = [u \in Users |-> Idle]
  /\ batch' = {} /\ answer' = None
  /\ UNCHANGED <<stock, cart, row, status, age, bound, url, date, seen, prov, sent>>

BuyerStep(u) ==
  \/ \E p \in Products, m \in Methods, t \in Terms : BeginCheckout(u, p, m, t)
  \/ \E o \in OrderIds, free \in BOOLEAN : ReserveSingle(u, o, free)
  \/ RefuseCheckout(u)
  \/ \E p \in Products : AddToCart(u, p) \/ RemoveFromCart(u, p)
  \/ \E m \in Methods, t \in Terms, first \in cart[u] :
       \E ids \in [cart[u] -> OrderIds] : ReserveCart(u, m, t, ids, first)
  \/ \E f \in Flaws : InvoiceCreated(u, f)
  \/ InvoiceRefused(u) \/ StoreInvoice(u) \/ PageRefused(u) \/ RefreshOrder(u) \/ FailCheckout(u)
  \/ \E o \in OrderIds : BuyerCancels(u, o)

Next ==
  \/ \E u \in Users : BuyerStep(u)
  \/ \E e \in sent : Webhook(e)
  \/ StartReconcile
  \/ \E o \in OrderIds :
       \/ Ask(o) \/ ApplyAnswer(o) \/ PollFails(o) \/ ConfirmTransfer(o) \/ Deliver(o) \/ TimePasses(o)
       \/ \E s \in InvoiceStatus, d \in 0..MaxDate, f \in Flaws : ProviderMoves(o, s, d, f)
  \/ Crash

Spec == Init /\ [][Next]_vars

(***************************************************************************)
(* Properties.                                                             *)
(***************************************************************************)
Task == [pc : {"idle", "chosen", "create", "answered", "failed", "refreshed"},
         item : Products \cup {None}, terms : Terms \cup {None},
         method : AllMethods \cup {None}, lead : OrderIds \cup {None},
         snap : [Tracked -> Int], saw : Statuses]

\* Every column and every handler's session holds a value of its kind, and an
\* order has its columns exactly when it has been inserted.
TypeOK ==
  /\ stock \in [Tracked -> Int]
  /\ cart \in [Users -> SUBSET Products]
  /\ row \in [OrderIds -> Row \cup {None}]
  /\ status \in [OrderIds -> Statuses]
  /\ \A o \in Placed : row[o] \in Row
  /\ bound \in [OrderIds -> BOOLEAN]
  /\ url \in [OrderIds -> BOOLEAN]
  /\ date \in [OrderIds -> 0..MaxDate]
  /\ age \in [OrderIds -> 0..2]
  /\ seen \subseteq {"hook", "poll"} \X Event
  /\ task \in [Users -> Task]
  /\ prov \in [OrderIds -> Event \cup {None}]
  /\ sent \subseteq Event
  /\ batch \subseteq OrderIds
  /\ answer \in Event \cup {None}

\* Stock never goes below zero, so the CHECK on products.stock_quantity
\* (models.py:55) never fails a payment, although a reservation may test and
\* write a copy of the stock older than its lock (services.py:413 and 492).
StockNonNegative == \A p \in Tracked : stock[p] >= 0

Good(e) == e.status = "success" /\ e.flaw = "none"

\* A paid or delivered acquiring order is one whose checkout the provider has
\* signed a success for, with the amount, currency and reference that match:
\* duplicated, reordered, flawed and late events never give access by
\* themselves (services.py:733-791).
AccessNeedsPayment ==
  \A o \in Placed :
    (row[o].method = "acquiring" /\ status[o] \in SUCCESS) =>
      \E e \in sent : e.order = row[o].lead /\ Good(e)

\* A buyer who was given a payment page, or who paid by transfer or needed to
\* pay nothing, keeps a purchase for good: no later failure or reversal, no
\* cancellation and no handler still running takes it away, and no success told
\* again makes it wait for its delivery again.
PurchaseIsFinal ==
  [][\A o \in Placed :
       (status[o] \in SUCCESS /\ (row[o].method # "acquiring" \/ url[row[o].lead])) =>
         status'[o] \in {status[o], "delivered"}]_vars

\* A success that the provider dated before an event already applied is not
\* applied any more: an order becomes paid only by a success at least as
\* recent as everything it has been told (services.py:779).
OldSuccessIgnored ==
  [][\A o \in Placed :
       (/\ row[o].method = "acquiring" /\ row[o].lead = o
        /\ status[o] \notin SUCCESS /\ status'[o] \in SUCCESS) =>
         \E e \in sent : e.order = o /\ Good(e) /\ e.date >= date[o]]_vars

Payable(o) ==
  /\ ~row[o].cart
  /\ status[o] = "waiting_payment"
  /\ age[o] < 2
  /\ row[o].method = "acquiring" => url[o]

\* Repeated clicks get the same order back: a buyer never has two payable orders
\* for one product under the same terms at once (services.py:466).
OneActiveOrder ==
  \A o, q \in {x \in Placed : Payable(x)} :
    (/\ row[o].user = row[q].user /\ row[o].item = row[q].item
     /\ row[o].method = row[q].method /\ row[o].terms = row[q].terms) => o = q

BuysFromCart(o, u, p) ==
  /\ status[o] \notin SUCCESS /\ status'[o] \in SUCCESS
  /\ row'[o].cart /\ row'[o].user = u /\ row'[o].item = p

\* A product leaves a cart by its owner's hand, or in the step that buys it:
\* cancelled and failed checkouts keep the cart, and an event that is told twice
\* does not take out what was put there again meanwhile (services.py:756, 260).
CartKept ==
  [][\A u \in Users : \A p \in cart[u] \ cart'[u] :
       RemoveFromCart(u, p) \/ \E o \in OrderIds : BuysFromCart(o, u, p)]_vars

\* Units held by orders that wait or have been bought.
Held(p) == Cardinality({o \in Placed : /\ row[o].item = p
                                       /\ status[o] \in SUCCESS \cup {"waiting_payment"}})

\* Only carts sold p, and not by acquiring: nothing of it is created at the
\* provider, so no handler gives back an old copy of its stock and no late
\* success revives a released order of it.
SoldByCart(p) == \A o \in Placed : row[o].item = p => row[o].cart /\ row[o].method # "acquiring"

\* No unit of such a product is lost or sold twice by its reservations,
\* cancellations and confirmations, whatever their order (services.py:270 and 565).
StockConserved == \A p \in Tracked : SoldByCart(p) => stock[p] + Held(p) = InitStock[p]

\* The row is locked and its stock tested before a unit is taken
\* (services.py:492-500), so a new order finds a unit in stock.
NeverOversold ==
  [][\A o \in OrderIds :
       (status[o] = "absent" /\ status'[o] # "absent" /\ row'[o].item \in Tracked) =>
         stock[row'[o].item] > 0]_vars

\* A signed success that reaches an order while its invoice/create answer is
\* lost pays the checkout (README.md:121): the handler that reads it back after
\* its own failure leaves the purchases alone.
PaymentSeenIsKept ==
  [][\A u \in Users :
       (task[u].pc = "refreshed" /\ task[u].saw \in SUCCESS) =>
         \A o \in Placed : status[o] \in SUCCESS => status'[o] \in SUCCESS]_vars

\* Orders paid by transfer implement PaymentPromise, whatever happens to others
\* meanwhile: the orders of a cart are placed, paid and given up together, and
\* a checkout is confirmed once (services.py:255-275).
TransferState(o) ==
  IF o \notin Placed \/ row[o].method \notin {"personal", "receipt"} THEN "absent"
  ELSE IF status[o] = "waiting_payment" THEN "waiting_payment"
  ELSE IF status[o] \in SUCCESS THEN "paid" ELSE "cancelled"

Transfers == INSTANCE PaymentPromise
               WITH Orders <- OrderIds, Proofs <- OrderIds,
                    state <- [o \in OrderIds |-> TransferState(o)],
                    accepted <- [l \in OrderIds |->
                                   {o \in OrderIds : TransferState(o) = "paid" /\ row[o].lead = l}]

TransfersPromised == Transfers!PromiseSpec

ReportedPaid(o) == prov[o] # None /\ Good(prov[o])
ReportedBadly(o) == prov[o] # None /\ prov[o].flaw # "none"

\* An invoice the shop knows and the provider reports as paid does not stay
\* unnoticed when every webhook is lost: a reconcile pass settles it.
PaidInvoiceNoticed ==
  \A o \in OrderIds :
    (status[o] = "waiting_payment" /\ bound[o] /\ ReportedPaid(o)) ~>
      (status[o] # "waiting_payment" \/ ReportedBadly(o))

\* The worker calls reconcile about once a minute; an order's status request
\* does not fail forever, and crashes do not always come before its answer is
\* applied.  Nothing is assumed of buyers and webhooks.
Fairness ==
  /\ WF_vars(StartReconcile)
  /\ \A o \in OrderIds : WF_vars(TimePasses(o)) /\ SF_vars(Ask(o)) /\ SF_vars(ApplyAnswer(o))

FairSpec == Spec /\ Fairness
=============================================================================
