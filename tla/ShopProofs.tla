----------------------------- MODULE ShopProofs -----------------------------
(***************************************************************************)
(* Proofs about Shop for any buyers, products, stock, payment methods and  *)
(* provider events.                                                        *)
(***************************************************************************)
EXTENDS Shop, FiniteSetTheorems, TLAPS

Working == {"create", "answered", "failed", "refreshed"}

(***************************************************************************)
(* The inductive invariant.                                                *)
(***************************************************************************)
\* A handler that has reserved holds the lead order of its own buyer, which
\* has no payment page yet.
TasksHoldLeads ==
  \A u \in Users :
    /\ task[u].pc = "chosen" =>
         task[u].item \in Products /\ task[u].terms \in Terms /\ task[u].method \in AllMethods
    /\ task[u].pc \in Working =>
         LET l == task[u].lead IN
         /\ l \in Placed /\ ~url[l]
         /\ row[l].lead = l /\ row[l].user = u
         /\ row[l].method \in {"acquiring", "free"}
         /\ row[l].cart => row[l].method = "acquiring"

\* The orders of a checkout share its lead order and payment method.
CheckoutsHaveLeads ==
  \A o \in Placed :
    LET l == row[o].lead IN
    l \in Placed /\ row[l].lead = l /\ row[l].method = row[o].method

\* The provider knows lead orders only, and the shop only invoices that exist.
InvoicesExist ==
  /\ \A e \in sent : e.order \in Placed /\ row[e.order].lead = e.order /\ prov[e.order] # None
  /\ \A o \in OrderIds : prov[o] # None => prov[o] \in sent /\ prov[o].order = o
  /\ \A o \in OrderIds : bound[o] => prov[o] # None
  /\ \A o \in batch : bound[o]
  /\ answer \in sent \cup {None}
  /\ \A u \in Users : task[u].pc = "answered" => prov[task[u].lead] # None
  /\ \A o \in OrderIds : url[o] => o \in Placed

\* What costs nothing is bought at once, and a handler that reads it sees so.
FreeIsBought ==
  /\ \A o \in Placed : row[o].method = "free" => status[o] \in SUCCESS
  /\ \A u \in Users : (task[u].pc = "refreshed" /\ row[task[u].lead].method = "free") =>
                        task[u].saw \in SUCCESS

\* Neither the stock nor a session's copy of it is negative.
StockCounted ==
  /\ \A p \in Tracked : stock[p] >= 0
  /\ \A u \in Users : \A p \in Tracked : task[u].snap[p] >= 0

IInv ==
  /\ TypeOK
  /\ TasksHoldLeads /\ CheckoutsHaveLeads /\ InvoicesExist
  /\ FreeIsBought /\ StockCounted /\ AccessNeedsPayment

(***************************************************************************)
(* Effects of the helpers the transactions share.                          *)
(***************************************************************************)
\* A handler at rest is a handler.
LEMMA IdleIsTask == Idle \in Task
<1>1. [p \in Tracked |-> 0] \in [Tracked -> Int]
  OBVIOUS
<1> QED
  BY <1>1 DEF Idle, Task, Statuses

\* A handler that only moves to another place keeps what its session holds.
LEMMA PcChange ==
  ASSUME TypeOK, NEW u \in Users, NEW c \in {"answered", "failed", "refreshed"},
         NEW s \in Statuses
  PROVE  /\ [task EXCEPT ![u].pc = c] \in [Users -> Task]
         /\ [task EXCEPT ![u].pc = c, ![u].saw = s] \in [Users -> Task]
<1>1. task[u] \in Task
  BY DEF TypeOK
<1>2. /\ [task[u] EXCEPT !.pc = c] \in Task
      /\ [[task[u] EXCEPT !.pc = c] EXCEPT !.saw = s] \in Task
  BY <1>1 DEF Task
<1> QED
  BY <1>2 DEF TypeOK

\* A confirmed checkout changes nothing but statuses and the buyer's cart.
LEMMA MarkEffect ==
  ASSUME TypeOK, NEW o \in Placed, MarkCheckoutPaid(o)
  PROVE  /\ status' \in [OrderIds -> Statuses] /\ Placed' = Placed
         /\ cart' \in [Users -> SUBSET Products] /\ stock' = stock
         /\ \A q \in Placed : /\ status[q] \in SUCCESS => status'[q] = status[q]
                              /\ row[q].lead # row[o].lead => status'[q] = status[q]
<1>1. status' \in [OrderIds -> Statuses] /\ Placed' = Placed
  BY DEF TypeOK, MarkCheckoutPaid, Placed, CheckoutOrders, Statuses, SUCCESS
<1>2. row[o].user \in Users
  BY DEF TypeOK, Row, Placed
<1>3. cart' \in [Users -> SUBSET Products]
  BY <1>2 DEF TypeOK, MarkCheckoutPaid
<1>4. \A q \in Placed : /\ status[q] \in SUCCESS => status'[q] = status[q]
                        /\ row[q].lead # row[o].lead => status'[q] = status[q]
  BY DEF TypeOK, MarkCheckoutPaid, Placed, CheckoutOrders
<1> QED
  BY <1>1, <1>3, <1>4 DEF MarkCheckoutPaid

\* A released checkout loses waiting orders only, and only adds units.
LEMMA ReleaseEffect ==
  ASSUME TypeOK, NEW o \in Placed, NEW to \in {"payment_failed", "cancelled"},
         ReleaseCheckout(o, to)
  PROVE  /\ status' \in [OrderIds -> Statuses] /\ Placed' = Placed
         /\ cart' = cart /\ stock' \in [Tracked -> Int]
         /\ \A p \in Tracked : stock'[p] >= stock[p]
         /\ \A q \in Placed : status[q] # "waiting_payment" => status'[q] = status[q]
         /\ \A q \in Placed : status'[q] \in SUCCESS => status[q] \in SUCCESS
<1>1. status' \in [OrderIds -> Statuses] /\ Placed' = Placed
  BY DEF TypeOK, ReleaseCheckout, Placed, CheckoutOrders, Waiting, Statuses
<1>2. stock' \in [Tracked -> Int] /\ \A p \in Tracked : stock'[p] >= stock[p]
  BY DEF TypeOK, ReleaseCheckout
<1>3. \A q \in Placed : status[q] # "waiting_payment" => status'[q] = status[q]
  BY DEF TypeOK, ReleaseCheckout, Placed, Waiting
<1>4. \A q \in Placed : status'[q] \in SUCCESS => status[q] \in SUCCESS
  BY DEF TypeOK, ReleaseCheckout, Placed, Waiting, SUCCESS
<1> QED
  BY <1>1, <1>2, <1>3, <1>4 DEF ReleaseCheckout

\* A handler that gives up touches the orders of its own checkout only, and
\* writes its own copy of the stock.
LEMMA GiveUpEffect ==
  ASSUME TypeOK, NEW u \in Users, NEW saw \in Statuses, task[u].lead \in Placed, GiveUp(u, saw)
  PROVE  /\ status' \in [OrderIds -> Statuses] /\ Placed' = Placed
         /\ stock' \in [Tracked -> Int]
         /\ task' = [task EXCEPT ![u] = Idle] /\ task' \in [Users -> Task]
         /\ \A q \in OrderIds : status'[q] # status[q] => q \in GivenUp(u, saw)
         /\ \A q \in Placed : status'[q] \in SUCCESS => status[q] \in SUCCESS
<1>1. GivenUp(u, saw) \subseteq Placed
  BY DEF GivenUp, CheckoutOrders
<1>2. task[u].snap \in [Tracked -> Int]
  BY DEF TypeOK, Task
<1>3. stock' \in [Tracked -> Int]
  BY <1>2 DEF TypeOK, GiveUp
<1>4. task' = [task EXCEPT ![u] = Idle] /\ task' \in [Users -> Task]
  BY IdleIsTask DEF GiveUp, TypeOK
<1>5. \A q \in OrderIds : status'[q] = status[q] \/ (q \in GivenUp(u, saw) /\ status'[q] = "payment_failed")
  BY DEF TypeOK, GiveUp
<1>6. status' \in [OrderIds -> Statuses] /\ Placed' = Placed
  BY <1>1 DEF TypeOK, GiveUp, Placed, Statuses
<1> QED
  BY <1>3, <1>4, <1>5, <1>6 DEF SUCCESS, Placed

\* Every step keeps the types, given that handlers and events name orders.
LEMMA TypeStep == TypeOK /\ TasksHoldLeads /\ InvoicesExist /\ [Next]_vars => TypeOK'
<1> SUFFICES ASSUME TypeOK, TasksHoldLeads, InvoicesExist, [Next]_vars PROVE TypeOK'
  OBVIOUS
<1> USE ShopAssumption DEF TypeOK, money
<1>1. ASSUME NEW u \in Users, NEW p \in Products, NEW m \in Methods, NEW t \in Terms,
             BeginCheckout(u, p, m, t)
      PROVE  TypeOK'
  <2>1. [Idle EXCEPT !.pc = "chosen", !.item = p, !.method = m, !.terms = t, !.snap = stock] \in Task
    BY IdleIsTask DEF Task
  <2> QED
    BY <1>1, <2>1 DEF BeginCheckout, Placed
<1>2. ASSUME NEW u \in Users, NEW o \in OrderIds, NEW free \in BOOLEAN, ReserveSingle(u, o, free)
      PROVE  TypeOK'
  <2>1. stock' \in [Tracked -> Int]
    BY <1>2 DEF ReserveSingle, Task
  <2>2. task' \in [Users -> Task]
    <3>1. [Idle EXCEPT !.pc = "create", !.lead = o, !.snap = stock'] \in Task
      BY <2>1, IdleIsTask DEF Task
    <3> QED
      BY <1>2, <3>1, IdleIsTask DEF ReserveSingle
  <2>3. row' \in [OrderIds -> Row \cup {None}] /\ row'[o] \in Row
    BY <1>2 DEF ReserveSingle, TasksHoldLeads, Row, AllMethods
  <2>4. status' \in [OrderIds -> Statuses]
    BY <1>2 DEF ReserveSingle, Statuses
  <2>5. \A q \in Placed' : row'[q] \in Row
    BY <1>2, <2>3 DEF ReserveSingle, Placed
  <2> QED
    BY <1>2, <2>1, <2>2, <2>3, <2>4, <2>5 DEF ReserveSingle
<1>3. ASSUME NEW u \in Users, RefuseCheckout(u) PROVE TypeOK'
  BY <1>3, IdleIsTask DEF RefuseCheckout, Placed
<1>4. ASSUME NEW u \in Users, NEW p \in Products, AddToCart(u, p) \/ RemoveFromCart(u, p)
      PROVE  TypeOK'
  BY <1>4 DEF AddToCart, RemoveFromCart, Placed
<1>5. ASSUME NEW u \in Users, NEW m \in Methods, NEW t \in Terms, NEW first \in cart[u],
             NEW ids \in [cart[u] -> OrderIds], ReserveCart(u, m, t, ids, first)
      PROVE  TypeOK'
  <2>1. stock' \in [Tracked -> Int] /\ cart' \in [Users -> SUBSET Products]
    BY <1>5 DEF ReserveCart
  <2>2. task' \in [Users -> Task]
    <3>1. [Idle EXCEPT !.pc = "create", !.lead = ids[first], !.snap = stock'] \in Task
      BY <2>1, IdleIsTask DEF Task
    <3> QED
      BY <1>5, <3>1, IdleIsTask DEF ReserveCart
  <2>3. \A o \in OrderIds : (\E p \in cart[u] : ids[p] = o) => row'[o] \in Row
    <3> SUFFICES ASSUME NEW o \in OrderIds, \E p \in cart[u] : ids[p] = o PROVE row'[o] \in Row
      OBVIOUS
    <3>1. (CHOOSE p \in cart[u] : ids[p] = o) \in Products
      OBVIOUS
    <3> QED
      BY <1>5, <3>1 DEF ReserveCart, Row, AllMethods
  <2>4. \A o \in OrderIds : ~(\E p \in cart[u] : ids[p] = o) => row'[o] = row[o] /\ status'[o] = status[o]
    BY <1>5 DEF ReserveCart
  <2>5. row' \in [OrderIds -> Row \cup {None}]
    BY <1>5, <2>3, <2>4 DEF ReserveCart
  <2>6. status' \in [OrderIds -> Statuses]
    BY <1>5 DEF ReserveCart, Statuses
  <2>7. \A o \in Placed' : row'[o] \in Row
    BY <2>3, <2>4 DEF Placed
  <2> QED
    BY <1>5, <2>1, <2>2, <2>5, <2>6, <2>7 DEF ReserveCart
<1>6. ASSUME NEW u \in Users, NEW f \in Flaws, InvoiceCreated(u, f) PROVE TypeOK'
  <2>1. Signed(task[u].lead, "created", 0, f) \in Event
    BY <1>6 DEF InvoiceCreated, Signed, Event, InvoiceStatus, TasksHoldLeads, Working, Placed
  <2>2. prov' \in [OrderIds -> Event \cup {None}] /\ sent' \subseteq Event
    BY <1>6, <2>1 DEF InvoiceCreated, ProviderReports
  <2>3. task' \in [Users -> Task]
    <3>1. PICK c \in {"answered", "failed"} : task' = [task EXCEPT ![u].pc = c]
      BY <1>6 DEF InvoiceCreated
    <3> QED
      BY <3>1, PcChange DEF Statuses
  <2> QED
    BY <1>6, <2>2, <2>3 DEF InvoiceCreated, Placed
<1>7. ASSUME NEW u \in Users, InvoiceRefused(u) \/ RefreshOrder(u) PROVE TypeOK'
  <2>1. task' \in [Users -> Task]
    <3>1. CASE InvoiceRefused(u)
      BY <3>1, PcChange DEF InvoiceRefused, Statuses
    <3>2. CASE RefreshOrder(u)
      <4>1. status[task[u].lead] \in Statuses
        BY <3>2 DEF RefreshOrder, TasksHoldLeads, Working, Placed
      <4> QED
        BY <3>2, <4>1, PcChange DEF RefreshOrder
    <3> QED
      BY <1>7, <3>1, <3>2
  <2> QED
    BY <1>7, <2>1 DEF InvoiceRefused, RefreshOrder, Placed
<1>8. ASSUME NEW u \in Users, StoreInvoice(u) PROVE TypeOK'
  BY <1>8, IdleIsTask DEF StoreInvoice, Placed
<1>9. ASSUME NEW u \in Users, PageRefused(u) \/ FailCheckout(u) PROVE TypeOK'
  <2>1. task[u].lead \in Placed
    BY <1>9 DEF PageRefused, FailCheckout, TasksHoldLeads, Working
  <2>2. PICK saw \in Statuses : GiveUp(u, saw)
    BY <1>9, <2>1 DEF PageRefused, FailCheckout, Task, Placed
  <2>3. bound' \in [OrderIds -> BOOLEAN] /\ url' \in [OrderIds -> BOOLEAN]
    BY <1>9 DEF PageRefused, FailCheckout
  <2> QED
    BY <1>9, <2>1, <2>2, <2>3, GiveUpEffect DEF PageRefused, FailCheckout
<1>10. ASSUME NEW u \in Users, NEW o \in OrderIds, BuyerCancels(u, o) PROVE TypeOK'
  BY <1>10, ReleaseEffect DEF BuyerCancels
<1>11. ASSUME NEW e \in sent, NEW c \in {"hook", "poll"}, Payment(c, e),
              UNCHANGED <<row, age, task, url, prov, sent, batch>>, answer' \in {answer, None}
       PROVE  TypeOK'
  <2>1. e.order \in Placed /\ e \in Event
    BY DEF InvoicesExist
  <2>2. seen' \subseteq {"hook", "poll"} \X Event /\ bound' \in [OrderIds -> BOOLEAN]
    <3>1. <<c, e>> \in {"hook", "poll"} \X Event /\ seen' = seen \cup {<<c, e>>}
      BY <1>11, <2>1 DEF Payment
    <3>2. bound' \in [OrderIds -> BOOLEAN]
      BY <1>11 DEF Payment
    <3> QED
      BY <3>1, <3>2
  <2>3. date' \in [OrderIds -> 0..MaxDate]
    BY <1>11, <2>1 DEF Payment, Event
  <2>4. status' \in [OrderIds -> Statuses] /\ Placed' = Placed
        /\ cart' \in [Users -> SUBSET Products] /\ stock' \in [Tracked -> Int]
    <3>1. \/ MarkCheckoutPaid(e.order) \/ ReleaseCheckout(e.order, "payment_failed")
          \/ UNCHANGED <<status, cart, stock>>
      BY <1>11 DEF Payment
    <3> QED
      BY <2>1, <3>1, MarkEffect, ReleaseEffect DEF Placed
  <2> QED
    BY <1>11, <2>2, <2>3, <2>4
<1>12. ASSUME NEW e \in sent, Webhook(e) PROVE TypeOK'
  BY <1>11, <1>12 DEF Webhook
<1>13. CASE StartReconcile
  BY <1>13 DEF StartReconcile, Unsettled, Placed
<1>14. ASSUME NEW o \in OrderIds, ApplyAnswer(o) PROVE TypeOK'
  <2>1. answer \in sent
    BY <1>14 DEF ApplyAnswer, InvoicesExist
  <2>2. CASE Payment("poll", answer)
    BY <1>11, <1>14, <2>1, <2>2 DEF ApplyAnswer
  <2>3. CASE UNCHANGED <<stock, cart, status, bound, date, seen>>
    BY <1>14, <2>3 DEF ApplyAnswer, Placed
  <2> QED
    BY <1>14, <2>2, <2>3 DEF ApplyAnswer
<1>15. ASSUME NEW o \in OrderIds, Ask(o) \/ PollFails(o) PROVE TypeOK'
  BY <1>15 DEF Ask, PollFails, Placed
<1>16. ASSUME NEW o \in OrderIds, ConfirmTransfer(o) PROVE TypeOK'
  BY <1>16, MarkEffect DEF ConfirmTransfer
<1>17. ASSUME NEW o \in OrderIds, Deliver(o) PROVE TypeOK'
  BY <1>17 DEF Deliver, Statuses, Placed
<1>18. ASSUME NEW o \in OrderIds, NEW s \in InvoiceStatus, NEW d \in 0..MaxDate, NEW f \in Flaws,
              ProviderMoves(o, s, d, f)
       PROVE  TypeOK'
  <2>1. Signed(o, s, d, f) \in Event
    BY DEF Signed, Event
  <2> QED
    BY <1>18, <2>1 DEF ProviderMoves, ProviderReports, Signed, Placed
<1>19. ASSUME NEW o \in OrderIds, TimePasses(o) PROVE TypeOK'
  BY <1>19 DEF TimePasses, Placed
<1>20. CASE Crash
  BY <1>20, IdleIsTask DEF Crash, Placed
<1>21. CASE UNCHANGED vars
  BY <1>21 DEF vars, Placed
<1>22. ASSUME NEW u \in Users, BuyerStep(u) PROVE TypeOK'
  BY <1>1, <1>2, <1>3, <1>4, <1>5, <1>6, <1>7, <1>8, <1>9, <1>10, <1>22 DEF BuyerStep
<1> QED
  BY <1>12, <1>13, <1>14, <1>15, <1>16, <1>17, <1>18, <1>19, <1>20, <1>21, <1>22 DEF Next

\* A reservation of one product adds one order that is its own lead.
LEMMA ReserveSingleEffect ==
  ASSUME IInv, NEW u \in Users, NEW o \in OrderIds, NEW free \in BOOLEAN,
         ReserveSingle(u, o, free)
  PROVE  /\ o \notin Placed /\ ~url[o] /\ Placed' = Placed \cup {o}
         /\ \A q \in Placed : row'[q] = row[q] /\ status'[q] = status[q]
         /\ row'[o].lead = o /\ row'[o].user = u /\ ~row'[o].cart
         /\ row'[o].method = IF free THEN "free" ELSE task[u].method
         /\ status'[o] = IF free THEN "delivered" ELSE "waiting_payment"
         /\ task[u].method = "free" => free
<1> USE DEF IInv, TypeOK
<1>1. o \notin Placed /\ ~url[o]
  BY DEF ReserveSingle, InvoicesExist
<1>2. Placed' = Placed \cup {o}
  BY <1>1 DEF ReserveSingle, Placed
<1>3. \A q \in Placed : row'[q] = row[q] /\ status'[q] = status[q]
  BY <1>1 DEF ReserveSingle, Placed
<1>4. /\ row'[o].lead = o /\ row'[o].user = u /\ ~row'[o].cart
      /\ row'[o].method = IF free THEN "free" ELSE task[u].method
      /\ status'[o] = IF free THEN "delivered" ELSE "waiting_payment"
  BY DEF ReserveSingle
<1>5. task[u].method = "free" => free
  BY DEF ReserveSingle
<1> QED
  BY <1>1, <1>2, <1>3, <1>4, <1>5

Inserted(ids, u) == {ids[p] : p \in cart[u]}

\* A reservation of a cart adds orders that share one of them as their lead.
LEMMA ReserveCartEffect ==
  ASSUME IInv, NEW u \in Users, NEW m \in Methods, NEW t \in Terms, NEW first \in cart[u],
         NEW ids \in [cart[u] -> OrderIds], ReserveCart(u, m, t, ids, first)
  PROVE  /\ Inserted(ids, u) \subseteq OrderIds \ Placed /\ ids[first] \in Inserted(ids, u) /\ Placed' = Placed \cup Inserted(ids, u)
         /\ \A q \in Inserted(ids, u) : ~url[q]
         /\ \A q \in Placed : row'[q] = row[q] /\ status'[q] = status[q]
         /\ \A q \in Inserted(ids, u) : /\ row'[q].lead = ids[first] /\ row'[q].user = u
                           /\ row'[q].method = m
                           /\ status'[q] = IF m = "free" THEN "paid" ELSE "waiting_payment"
<1> USE DEF IInv, TypeOK, Inserted
<1>1. ids \in [cart[u] -> OrderIds \ Placed]
  BY DEF ReserveCart, Injection
<1>2. Inserted(ids, u) \subseteq OrderIds \ Placed /\ ids[first] \in Inserted(ids, u)
  BY <1>1
<1>3. \A q \in Inserted(ids, u) : ~url[q]
  BY <1>2 DEF InvoicesExist
<1>4. \A q \in OrderIds : (\E p \in cart[u] : ids[p] = q) <=> q \in Inserted(ids, u)
  OBVIOUS
<1>5. \A q \in Placed : q \in OrderIds \ Inserted(ids, u)
  BY <1>2 DEF Placed
<1>6. \A q \in Placed : row'[q] = row[q] /\ status'[q] = status[q]
  BY <1>4, <1>5 DEF ReserveCart
<1>7. \A q \in Inserted(ids, u) : /\ row'[q].lead = ids[first] /\ row'[q].user = u
                     /\ row'[q].method = m
                     /\ status'[q] = IF m = "free" THEN "paid" ELSE "waiting_payment"
  BY <1>2, <1>4 DEF ReserveCart
<1>8. Placed' = Placed \cup Inserted(ids, u)
  <2>1. \A q \in OrderIds \ Inserted(ids, u) : status'[q] = status[q]
    BY <1>4 DEF ReserveCart
  <2> QED
    BY <1>2, <1>7, <2>1 DEF Placed
<1> QED
  BY <1>2, <1>3, <1>6, <1>7, <1>8

\* A step that places no order, keeps its rows, invoices and events, leaves
\* every handler where it is or idle, and takes no free purchase away.
LEMMA QuietStep ==
  ASSUME IInv, TypeOK', Placed' = Placed, row' = row, prov' = prov, sent' = sent,
         \A u \in Users : task'[u] = task[u] \/ task'[u] = Idle,
         \A u \in Users : task'[u] = task[u] => (task[u].pc \in Working => ~url'[task[u].lead]),
         \A o \in OrderIds : url'[o] => o \in Placed,
         \A o \in OrderIds : bound'[o] => prov[o] # None,
         \A o \in batch' : bound'[o],
         answer' \in sent \cup {None},
         \A p \in Tracked : stock'[p] >= 0,
         \A o \in Placed : row[o].method = "free" => status'[o] \in SUCCESS,
         AccessNeedsPayment'
  PROVE  IInv'
<1> USE DEF IInv
<1>1. TasksHoldLeads'
  BY DEF TasksHoldLeads, Working, Idle
<1>2. CheckoutsHaveLeads'
  BY DEF CheckoutsHaveLeads
<1>3. InvoicesExist'
  BY DEF InvoicesExist, Idle
<1>4. FreeIsBought'
  BY DEF FreeIsBought, Idle
<1>5. StockCounted'
  BY DEF StockCounted, Idle
<1> QED
  BY <1>1, <1>2, <1>3, <1>4, <1>5

\* Nor does a step that leaves stock, orders and money alone break it.
LEMMA NothingBought ==
  ASSUME IInv, TypeOK', UNCHANGED <<stock, row, status, money>>,
         \A u \in Users : task'[u] = task[u] \/ task'[u] = Idle
  PROVE  IInv'
<1>1. Placed' = Placed /\ UNCHANGED <<row, bound, url, prov, sent, batch, answer>>
  BY DEF Placed, money
<1>2. \A u \in Users : task[u].pc \in Working => ~url[task[u].lead]
  BY DEF IInv, TasksHoldLeads
<1>3. /\ \A o \in OrderIds : url[o] => o \in Placed
      /\ \A o \in OrderIds : bound[o] => prov[o] # None
      /\ \A o \in batch : bound[o]
      /\ answer \in sent \cup {None}
  BY DEF IInv, InvoicesExist
<1>4. /\ \A p \in Tracked : stock'[p] >= 0
      /\ \A o \in Placed : row[o].method = "free" => status'[o] \in SUCCESS
  BY DEF IInv, StockCounted, FreeIsBought
<1>5. AccessNeedsPayment'
  BY <1>1 DEF IInv, AccessNeedsPayment
<1> QED
  BY <1>1, <1>2, <1>3, <1>4, <1>5, QuietStep

\* A handler that gives up keeps the invariant.
LEMMA GiveUpStep ==
  ASSUME IInv, TypeOK', NEW u \in Users, PageRefused(u) \/ FailCheckout(u)
  PROVE  IInv'
<1> USE DEF IInv, money
<1>1. task[u].pc \in Working /\ task[u].lead \in Placed
  BY DEF PageRefused, FailCheckout, Working, TasksHoldLeads
<1>2. PICK saw \in Statuses : /\ GiveUp(u, saw)
                              /\ row[task[u].lead].method = "free" => saw \in SUCCESS
  <2>1. CASE PageRefused(u)
    BY <1>1, <2>1 DEF PageRefused, FreeIsBought, Placed, TypeOK
  <2>2. CASE FailCheckout(u)
    BY <2>2 DEF FailCheckout, FreeIsBought, TypeOK, Task
  <2> QED
    BY <2>1, <2>2
<1>3. /\ Placed' = Placed /\ task' = [task EXCEPT ![u] = Idle]
      /\ \A q \in OrderIds : status'[q] # status[q] => q \in GivenUp(u, saw)
      /\ \A q \in Placed : status'[q] \in SUCCESS => status[q] \in SUCCESS
  BY <1>1, <1>2, GiveUpEffect
<1>4. \A v \in Users : task'[v] = task[v] \/ task'[v] = Idle
  BY <1>3 DEF TypeOK
<1>5. \A v \in Users : (task'[v] = task[v] /\ task[v].pc \in Working) => ~url'[task[v].lead]
  <2> SUFFICES ASSUME NEW v \in Users, task'[v] = task[v], task[v].pc \in Working
               PROVE  ~url'[task[v].lead]
    OBVIOUS
  <2>1. v # u
    BY <1>1, <1>3 DEF TypeOK, Idle, Working
  <2>2. task[v].lead # task[u].lead
    BY <1>1, <2>1 DEF TasksHoldLeads
  <2> QED
    BY <2>2 DEF PageRefused, FailCheckout, TasksHoldLeads, TypeOK, Placed
<1>6. /\ \A o \in OrderIds : url'[o] => o \in Placed
      /\ \A o \in OrderIds : bound'[o] => prov[o] # None
      /\ \A o \in batch' : bound'[o]
      /\ answer' \in sent \cup {None}
  BY <1>1 DEF PageRefused, FailCheckout, InvoicesExist, TypeOK, Placed
<1>7. \A p \in Tracked : stock'[p] >= 0
  BY <1>2 DEF GiveUp, StockCounted, TypeOK, Task
<1>8. \A o \in Placed : row[o].method = "free" => status'[o] \in SUCCESS
  <2> SUFFICES ASSUME NEW o \in Placed, row[o].method = "free", status'[o] # status[o]
               PROVE  FALSE
    BY DEF FreeIsBought
  <2>1. o \in GivenUp(u, saw)
    BY <1>3 DEF Placed
  <2>2. row[o].lead = task[u].lead
    BY <1>1, <2>1 DEF GivenUp, CheckoutOrders, TasksHoldLeads
  <2>3. row[task[u].lead].method = "free"
    BY <2>2 DEF CheckoutsHaveLeads
  <2>4. ~row[task[u].lead].cart
    BY <1>1, <2>3 DEF TasksHoldLeads
  <2>5. o = task[u].lead /\ saw \notin SUCCESS
    BY <2>1, <2>4 DEF GivenUp
  <2> QED
    BY <1>2, <2>3, <2>5
<1>9. row' = row /\ prov' = prov /\ sent' = sent
  BY DEF PageRefused, FailCheckout
<1>10. AccessNeedsPayment'
  BY <1>3, <1>9 DEF AccessNeedsPayment
<1> QED
  BY <1>3, <1>4, <1>5, <1>6, <1>7, <1>8, <1>9, <1>10, QuietStep

\* A provider event keeps the invariant: it confirms a checkout only by a
\* success that is signed and sound.
LEMMA PaymentStep ==
  ASSUME IInv, TypeOK', NEW e \in sent, NEW c \in {"hook", "poll"}, Payment(c, e),
         UNCHANGED <<row, age, task, url, prov, sent, batch>>, answer' \in {answer, None}
  PROVE  IInv'
<1> USE DEF IInv
<1>1. e.order \in Placed /\ row[e.order].lead = e.order /\ prov[e.order] # None
  BY DEF InvoicesExist
<1>2. \/ MarkCheckoutPaid(e.order) /\ Good(e)
      \/ ReleaseCheckout(e.order, "payment_failed")
      \/ UNCHANGED <<status, cart, stock>>
  BY DEF Payment, Counts, Good
<1>3. Placed' = Placed
  BY <1>1, <1>2, MarkEffect, ReleaseEffect DEF Placed
<1>4. \A p \in Tracked : stock'[p] >= 0
  <2>1. \A p \in Tracked : stock[p] \in Int /\ stock'[p] \in Int /\ stock'[p] >= stock[p]
    BY <1>1, <1>2, MarkEffect, ReleaseEffect DEF TypeOK
  <2> QED
    BY <2>1 DEF StockCounted
<1>5. \A o \in Placed : status[o] \in SUCCESS => status'[o] \in SUCCESS
  BY <1>1, <1>2, MarkEffect, ReleaseEffect DEF SUCCESS
<1>6. AccessNeedsPayment'
  <2> SUFFICES ASSUME NEW o \in Placed, row[o].method = "acquiring", status'[o] \in SUCCESS
               PROVE  \E f \in sent : f.order = row[o].lead /\ Good(f)
    BY <1>3 DEF AccessNeedsPayment, Good
  <2>1. CASE status[o] \in SUCCESS
    BY <2>1 DEF AccessNeedsPayment
  <2>2. CASE status[o] \notin SUCCESS
    <3>1. MarkCheckoutPaid(e.order) /\ Good(e)
      BY <1>1, <1>2, <2>2, ReleaseEffect
    <3>2. row[o].lead = e.order
      BY <1>1, <2>2, <3>1, MarkEffect
    <3> QED
      BY <3>1, <3>2
  <2> QED
    BY <2>1, <2>2
<1>7. \A o \in OrderIds : bound'[o] => prov[o] # None
  BY <1>1 DEF Payment, InvoicesExist, TypeOK
<1>8. (\A o \in batch' : bound'[o]) /\ answer' \in sent \cup {None}
  BY <1>1 DEF Payment, InvoicesExist, TypeOK
<1>9. \A o \in OrderIds : url'[o] => o \in Placed
  BY DEF InvoicesExist
<1>10. \A u \in Users : task[u].pc \in Working => ~url'[task[u].lead]
  BY DEF TasksHoldLeads
<1>11. \A o \in Placed : row[o].method = "free" => status'[o] \in SUCCESS
  BY <1>5 DEF FreeIsBought
<1> QED
  BY <1>3, <1>4, <1>6, <1>7, <1>8, <1>9, <1>10, <1>11, QuietStep

\* Every step keeps the invariant.
LEMMA InvStep == IInv /\ [Next]_vars => IInv'
<1> SUFFICES ASSUME IInv, [Next]_vars PROVE IInv'
  OBVIOUS
<1>0. TypeOK /\ TypeOK'
  BY TypeStep DEF IInv
<1> USE <1>0 DEF IInv, money
<1>1. ASSUME NEW u \in Users, NEW p \in Products, NEW m \in Methods, NEW t \in Terms,
             BeginCheckout(u, p, m, t)
      PROVE  IInv'
  <2>1. Placed' = Placed /\ row' = row /\ status' = status /\ stock' = stock /\ UNCHANGED money
    BY <1>1 DEF BeginCheckout, Placed
  <2>2. /\ task'[u].pc = "chosen" /\ task'[u].item = p /\ task'[u].terms = t
        /\ task'[u].method = m /\ task'[u].snap = stock
        /\ \A v \in Users \ {u} : task'[v] = task[v]
    BY <1>1 DEF BeginCheckout, TypeOK, Idle
  <2>3. TasksHoldLeads' /\ FreeIsBought'
    BY <2>1, <2>2, ShopAssumption DEF TasksHoldLeads, FreeIsBought, Working
  <2>4. StockCounted'
    BY <2>1, <2>2 DEF StockCounted
  <2>5. CheckoutsHaveLeads' /\ InvoicesExist' /\ AccessNeedsPayment'
    BY <2>1, <2>2 DEF CheckoutsHaveLeads, InvoicesExist, AccessNeedsPayment
  <2> QED
    BY <2>3, <2>4, <2>5
<1>2. ASSUME NEW u \in Users, NEW o \in OrderIds, NEW free \in BOOLEAN, ReserveSingle(u, o, free)
      PROVE  IInv'
  <2>1. /\ o \notin Placed /\ ~url[o] /\ Placed' = Placed \cup {o}
        /\ \A q \in Placed : row'[q] = row[q] /\ status'[q] = status[q]
        /\ row'[o].lead = o /\ row'[o].user = u /\ ~row'[o].cart
        /\ row'[o].method = IF free THEN "free" ELSE task[u].method
        /\ status'[o] = IF free THEN "delivered" ELSE "waiting_payment"
        /\ task[u].method = "free" => free
    BY <1>2, ReserveSingleEffect
  <2>2. UNCHANGED money /\ \A v \in Users \ {u} : task'[v] = task[v]
    BY <1>2 DEF ReserveSingle, TypeOK
  <2>3. \/ task'[u].pc = "idle" /\ \A p \in Tracked : task'[u].snap[p] = 0
        \/ /\ task'[u].pc = "create" /\ task'[u].lead = o /\ task'[u].snap = stock'
           /\ task[u].method = "acquiring"
    BY <1>2 DEF ReserveSingle, TypeOK, Idle
  <2>4. TasksHoldLeads'
    BY <2>1, <2>2, <2>3 DEF TasksHoldLeads, Working
  <2>5. CheckoutsHaveLeads'
    BY <2>1 DEF CheckoutsHaveLeads
  <2>6. InvoicesExist'
    BY <2>1, <2>2, <2>3 DEF InvoicesExist
  <2>7. FreeIsBought'
    <3>1. \A v \in Users : task'[v].pc = "refreshed" => task'[v] = task[v] /\ task[v].lead \in Placed
      BY <2>2, <2>3 DEF TasksHoldLeads, Working
    <3>2. \A q \in Placed' : row'[q].method = "free" => status'[q] \in SUCCESS
      BY <1>2, <2>1 DEF FreeIsBought, SUCCESS, ReserveSingle, TasksHoldLeads
    <3> QED
      BY <2>1, <3>1, <3>2 DEF FreeIsBought
  <2>8. StockCounted'
    <3>1. \A p \in Tracked : stock'[p] >= 0
      <4>1. task[u].snap \in [Tracked -> Int]
        BY DEF TypeOK, Task
      <4> QED
        BY <1>2, <4>1 DEF ReserveSingle, InStock, StockCounted, TypeOK
    <3> QED
      BY <2>2, <2>3, <3>1 DEF StockCounted
  <2>9. AccessNeedsPayment'
    <3>1. ~(row'[o].method = "acquiring" /\ status'[o] \in SUCCESS)
      BY <2>1 DEF SUCCESS
    <3>2. \A q \in Placed : q # o
      BY <2>1
    <3> QED
      BY <2>1, <2>2, <3>1, <3>2 DEF AccessNeedsPayment
  <2> QED
    BY <2>4, <2>5, <2>6, <2>7, <2>8, <2>9
<1>3. ASSUME NEW u \in Users, RefuseCheckout(u) PROVE IInv'
  <2>1. \A v \in Users : task'[v] = task[v] \/ task'[v] = Idle
    BY <1>3 DEF RefuseCheckout, TypeOK
  <2> QED
    BY <1>3, <2>1, NothingBought DEF RefuseCheckout
<1>4. ASSUME NEW u \in Users, NEW p \in Products, AddToCart(u, p) \/ RemoveFromCart(u, p)
      PROVE  IInv'
  BY <1>4, NothingBought DEF AddToCart, RemoveFromCart
<1>5. ASSUME NEW u \in Users, NEW m \in Methods, NEW t \in Terms, NEW first \in cart[u],
             NEW ids \in [cart[u] -> OrderIds], ReserveCart(u, m, t, ids, first)
      PROVE  IInv'
  <2> DEFINE New == Inserted(ids, u)
  <2>1. /\ New \subseteq OrderIds \ Placed /\ ids[first] \in New /\ Placed' = Placed \cup New
        /\ \A q \in New : ~url[q]
        /\ \A q \in Placed : row'[q] = row[q] /\ status'[q] = status[q]
        /\ \A q \in New : /\ row'[q].lead = ids[first] /\ row'[q].user = u
                          /\ row'[q].method = m
                          /\ status'[q] = IF m = "free" THEN "paid" ELSE "waiting_payment"
    BY <1>5, ReserveCartEffect
  <2> HIDE DEF New
  <2>2. UNCHANGED money /\ \A v \in Users \ {u} : task'[v] = task[v]
    BY <1>5 DEF ReserveCart, TypeOK
  <2>3. \/ task'[u].pc = "idle" /\ \A p \in Tracked : task'[u].snap[p] = 0
        \/ /\ task'[u].pc = "create" /\ task'[u].lead = ids[first] /\ task'[u].snap = stock'
           /\ m = "acquiring"
    BY <1>5 DEF ReserveCart, TypeOK, Idle
  <2>4. TasksHoldLeads'
    BY <2>1, <2>2, <2>3 DEF TasksHoldLeads, Working
  <2>5. CheckoutsHaveLeads'
    BY <2>1 DEF CheckoutsHaveLeads
  <2>6. InvoicesExist'
    BY <2>1, <2>2, <2>3 DEF InvoicesExist
  <2>7. FreeIsBought'
    <3>1. \A v \in Users : task'[v].pc = "refreshed" => task'[v] = task[v] /\ task[v].lead \in Placed
      BY <2>2, <2>3 DEF TasksHoldLeads, Working
    <3>2. \A q \in Placed' : row'[q].method = "free" => status'[q] \in SUCCESS
      BY <2>1 DEF FreeIsBought, SUCCESS
    <3> QED
      BY <2>1, <3>1, <3>2 DEF FreeIsBought
  <2>8. StockCounted'
    <3>1. \A p \in Tracked : stock'[p] >= 0
      BY <1>5 DEF ReserveCart, StockCounted, TypeOK
    <3> QED
      BY <2>2, <2>3, <3>1 DEF StockCounted
  <2>9. AccessNeedsPayment'
    <3>1. \A q \in New : ~(row'[q].method = "acquiring" /\ status'[q] \in SUCCESS)
      BY <2>1 DEF SUCCESS
    <3> QED
      BY <2>1, <2>2, <3>1 DEF AccessNeedsPayment
  <2> QED
    BY <2>4, <2>5, <2>6, <2>7, <2>8, <2>9
<1>6. ASSUME NEW u \in Users, NEW f \in Flaws, InvoiceCreated(u, f) PROVE IInv'
  <2> DEFINE l == task[u].lead
             e == Signed(l, "created", 0, f)
  <2>1. PICK c \in {"answered", "failed"} : task' = [task EXCEPT ![u].pc = c]
    BY <1>6 DEF InvoiceCreated
  <2>2. /\ \A v \in Users \ {u} : task'[v] = task[v]
        /\ task'[u].pc = c /\ task'[u].lead = l /\ task'[u].snap = task[u].snap
    BY <2>1 DEF TypeOK, Task
  <2>3. task[u].pc = "create" /\ l \in Placed /\ row[l].lead = l
    BY <1>6 DEF InvoiceCreated, TasksHoldLeads, Working
  <2>4. Placed' = Placed /\ UNCHANGED <<row, status, stock, bound, url, batch, answer>>
    BY <1>6 DEF InvoiceCreated, Placed
  <2>5. e.order = l /\ e # None
    <3>1. e \in Event
      BY <2>3, ShopAssumption DEF Signed, Event, InvoiceStatus, Placed
    <3> QED
      BY <3>1, NoneAssumption DEF Signed
  <2>6. prov' = [prov EXCEPT ![l] = e] /\ sent' = sent \cup {e}
    BY <1>6, <2>5 DEF InvoiceCreated, ProviderReports
  <2> HIDE DEF e
  <2>7. TasksHoldLeads' /\ CheckoutsHaveLeads'
    BY <2>2, <2>3, <2>4 DEF TasksHoldLeads, CheckoutsHaveLeads, Working
  <2>8. InvoicesExist'
    BY <2>2, <2>3, <2>4, <2>5, <2>6 DEF InvoicesExist, TypeOK, Placed
  <2>9. FreeIsBought' /\ StockCounted'
    BY <2>2, <2>4 DEF FreeIsBought, StockCounted
  <2>10. AccessNeedsPayment'
    BY <2>4, <2>6 DEF AccessNeedsPayment
  <2> QED
    BY <2>7, <2>8, <2>9, <2>10
<1>7. ASSUME NEW u \in Users, InvoiceRefused(u) \/ RefreshOrder(u) PROVE IInv'
  <2>1. Placed' = Placed /\ UNCHANGED <<row, status, stock, bound, url, batch, answer, prov, sent>>
    BY <1>7 DEF InvoiceRefused, RefreshOrder, Placed
  <2>2. /\ \A v \in Users \ {u} : task'[v] = task[v]
        /\ task[u].pc \in Working /\ task'[u].pc \in {"failed", "refreshed"}
        /\ task'[u].lead = task[u].lead /\ task'[u].snap = task[u].snap
        /\ task'[u].pc = "refreshed" => task'[u].saw = status[task[u].lead]
    <3>1. CASE InvoiceRefused(u)
      BY <3>1 DEF InvoiceRefused, TypeOK, Task, Working
    <3>2. CASE RefreshOrder(u)
      BY <3>2 DEF RefreshOrder, TypeOK, Task, Working
    <3> QED
      BY <1>7, <3>1, <3>2
  <2>3. TasksHoldLeads' /\ CheckoutsHaveLeads'
    BY <2>1, <2>2 DEF TasksHoldLeads, CheckoutsHaveLeads, Working
  <2>4. InvoicesExist'
    BY <2>1, <2>2 DEF InvoicesExist
  <2>5. FreeIsBought'
    BY <2>1, <2>2 DEF FreeIsBought, TasksHoldLeads
  <2>6. StockCounted' /\ AccessNeedsPayment'
    BY <2>1, <2>2 DEF StockCounted, AccessNeedsPayment
  <2> QED
    BY <2>3, <2>4, <2>5, <2>6
<1>8. ASSUME NEW u \in Users, StoreInvoice(u) PROVE IInv'
  <2> DEFINE l == task[u].lead
  <2>1. l \in Placed /\ prov[l] # None /\ task[u].pc \in Working
    BY <1>8 DEF StoreInvoice, TasksHoldLeads, InvoicesExist, Working
  <2>2. /\ Placed' = Placed /\ UNCHANGED <<row, status, stock, prov, sent, batch, answer>>
        /\ bound' = [bound EXCEPT ![l] = TRUE] /\ url' = [url EXCEPT ![l] = TRUE]
        /\ task' = [task EXCEPT ![u] = Idle]
    BY <1>8 DEF StoreInvoice, Placed
  <2>3. \A v \in Users : task'[v] = task[v] \/ task'[v] = Idle
    BY <2>2 DEF TypeOK
  <2>4. \A v \in Users : (task'[v] = task[v] /\ task[v].pc \in Working) => ~url'[task[v].lead]
    BY <2>1, <2>2 DEF TasksHoldLeads, TypeOK, Idle, Working, Placed
  <2>5. /\ \A o \in OrderIds : url'[o] => o \in Placed
        /\ \A o \in OrderIds : bound'[o] => prov[o] # None
        /\ \A o \in batch' : bound'[o]
        /\ answer' \in sent \cup {None}
    BY <2>1, <2>2 DEF InvoicesExist, TypeOK, Placed
  <2> QED
    BY <2>2, <2>3, <2>4, <2>5, QuietStep DEF StockCounted, FreeIsBought, AccessNeedsPayment
<1>9. ASSUME NEW u \in Users, PageRefused(u) \/ FailCheckout(u) PROVE IInv'
  BY <1>9, GiveUpStep
<1>10. ASSUME NEW o \in OrderIds, NEW to \in {"payment_failed", "cancelled"}, o \in Placed,
              ReleaseCheckout(o, to), UNCHANGED <<row, age, task, money>>
       PROVE  IInv'
  <2>1. /\ Placed' = Placed
        /\ \A p \in Tracked : stock'[p] \in Int /\ stock'[p] >= stock[p]
        /\ \A q \in Placed : status[q] # "waiting_payment" => status'[q] = status[q]
        /\ \A q \in Placed : status'[q] \in SUCCESS => status[q] \in SUCCESS
    BY <1>10, ReleaseEffect
  <2>2. \A p \in Tracked : stock'[p] >= 0
    BY <2>1 DEF StockCounted, TypeOK
  <2>3. \A q \in Placed : row[q].method = "free" => status'[q] \in SUCCESS
    BY <2>1 DEF FreeIsBought, SUCCESS
  <2>4. AccessNeedsPayment'
    BY <1>10, <2>1 DEF AccessNeedsPayment
  <2> QED
    BY <1>10, <2>1, <2>2, <2>3, <2>4, QuietStep DEF TasksHoldLeads, InvoicesExist
<1>11. ASSUME NEW u \in Users, NEW o \in OrderIds, BuyerCancels(u, o) PROVE IInv'
  BY <1>10, <1>11 DEF BuyerCancels
<1>12. ASSUME NEW e \in sent, Webhook(e) PROVE IInv'
  BY <1>12, PaymentStep DEF Webhook
<1>13. CASE StartReconcile
  <2>1. Placed' = Placed /\ \A o \in batch' : bound'[o]
    BY <1>13 DEF StartReconcile, Unsettled, Placed
  <2> QED
    BY <1>13, <2>1, QuietStep DEF StartReconcile, TasksHoldLeads, InvoicesExist, StockCounted,
                                  FreeIsBought, AccessNeedsPayment
<1>14. ASSUME NEW o \in OrderIds, ApplyAnswer(o) PROVE IInv'
  <2>1. answer \in sent
    BY <1>14 DEF ApplyAnswer, InvoicesExist
  <2>2. CASE Payment("poll", answer)
    BY <1>14, <2>1, <2>2, PaymentStep DEF ApplyAnswer
  <2>3. CASE UNCHANGED <<stock, cart, status, bound, date, seen>>
    <3>1. Placed' = Placed /\ \A q \in batch' : bound'[q]
      BY <1>14, <2>3 DEF ApplyAnswer, InvoicesExist, Placed
    <3> QED
      BY <1>14, <2>3, <3>1, QuietStep DEF ApplyAnswer, TasksHoldLeads, InvoicesExist,
                                          StockCounted, FreeIsBought, AccessNeedsPayment
  <2> QED
    BY <1>14, <2>2, <2>3 DEF ApplyAnswer
<1>15. ASSUME NEW o \in OrderIds, Ask(o) \/ PollFails(o) PROVE IInv'
  <2>1. Placed' = Placed /\ (\A q \in batch' : bound'[q]) /\ answer' \in sent \cup {None}
    BY <1>15 DEF Ask, PollFails, InvoicesExist, Placed
  <2> QED
    BY <1>15, <2>1, QuietStep DEF Ask, PollFails, TasksHoldLeads, InvoicesExist, StockCounted,
                                  FreeIsBought, AccessNeedsPayment
<1>16. ASSUME NEW o \in OrderIds, ConfirmTransfer(o) PROVE IInv'
  <2>1. /\ Placed' = Placed /\ stock' = stock
        /\ \A q \in Placed : /\ status[q] \in SUCCESS => status'[q] = status[q]
                             /\ row[q].lead # row[o].lead => status'[q] = status[q]
    BY <1>16, MarkEffect DEF ConfirmTransfer
  <2>2. \A q \in Placed : row[q].method = "acquiring" => row[q].lead # row[o].lead
    BY <1>16 DEF ConfirmTransfer, CheckoutsHaveLeads
  <2>3. AccessNeedsPayment'
    BY <1>16, <2>1, <2>2 DEF ConfirmTransfer, AccessNeedsPayment
  <2>4. \A q \in Placed : row[q].method = "free" => status'[q] \in SUCCESS
    BY <2>1 DEF FreeIsBought
  <2> QED
    BY <1>16, <2>1, <2>3, <2>4, QuietStep DEF ConfirmTransfer, TasksHoldLeads, InvoicesExist,
                                              StockCounted
<1>17. ASSUME NEW o \in OrderIds, Deliver(o) PROVE IInv'
  <2>1. Placed' = Placed /\ \A q \in Placed : status'[q] \in SUCCESS <=> status[q] \in SUCCESS
    BY <1>17 DEF Deliver, TypeOK, Placed, SUCCESS
  <2>2. AccessNeedsPayment' /\ \A q \in Placed : row[q].method = "free" => status'[q] \in SUCCESS
    BY <1>17, <2>1 DEF Deliver, AccessNeedsPayment, FreeIsBought
  <2> QED
    BY <1>17, <2>1, <2>2, QuietStep DEF Deliver, TasksHoldLeads, InvoicesExist, StockCounted
<1>18. ASSUME NEW o \in OrderIds, NEW s \in InvoiceStatus, NEW d \in 0..MaxDate, NEW f \in Flaws,
              ProviderMoves(o, s, d, f)
       PROVE  IInv'
  <2> DEFINE e == Signed(o, s, d, f)
  <2>1. e.order = o /\ e # None
    <3>1. e \in Event
      BY DEF Signed, Event
    <3> QED
      BY <3>1, NoneAssumption DEF Signed
  <2>2. prov' = [prov EXCEPT ![o] = e] /\ sent' = sent \cup {e} /\ prov[o] # None
    BY <1>18, <2>1 DEF ProviderMoves, ProviderReports
  <2> HIDE DEF e
  <2>3. Placed' = Placed /\ UNCHANGED <<row, status, stock, bound, url, task, batch, answer>>
    BY <1>18 DEF ProviderMoves, Placed
  <2>4. o \in Placed /\ row[o].lead = o
    BY <2>2 DEF InvoicesExist
  <2>5. InvoicesExist'
    BY <2>1, <2>2, <2>3, <2>4 DEF InvoicesExist, TypeOK, Placed
  <2>6. TasksHoldLeads' /\ CheckoutsHaveLeads' /\ FreeIsBought' /\ StockCounted'
    BY <2>3 DEF TasksHoldLeads, CheckoutsHaveLeads, FreeIsBought, StockCounted
  <2>7. AccessNeedsPayment'
    BY <2>2, <2>3 DEF AccessNeedsPayment
  <2> QED
    BY <2>5, <2>6, <2>7
<1>19. ASSUME NEW o \in OrderIds, TimePasses(o) PROVE IInv'
  BY <1>19, QuietStep DEF TimePasses, Placed, TypeOK, TasksHoldLeads, InvoicesExist,
                          StockCounted, FreeIsBought, AccessNeedsPayment
<1>20. CASE Crash
  BY <1>20, QuietStep DEF Crash, Placed, TypeOK, TasksHoldLeads, InvoicesExist, StockCounted,
                          FreeIsBought, AccessNeedsPayment
<1>21. CASE UNCHANGED vars
  BY <1>21, QuietStep DEF vars, Placed, TypeOK, TasksHoldLeads, InvoicesExist, StockCounted,
                          FreeIsBought, AccessNeedsPayment
<1>22. ASSUME NEW u \in Users, BuyerStep(u) PROVE IInv'
  BY <1>1, <1>2, <1>3, <1>4, <1>5, <1>6, <1>7, <1>8, <1>9, <1>11, <1>22 DEF BuyerStep
<1> QED
  BY <1>12, <1>13, <1>14, <1>15, <1>16, <1>17, <1>18, <1>19, <1>20, <1>21, <1>22 DEF Next

\* The program starts in a state of the invariant.
LEMMA InvInit == Init => IInv
<1> SUFFICES ASSUME Init PROVE IInv
  OBVIOUS
<1>1. Placed = {}
  BY DEF Init, Placed
<1>2. TypeOK
  BY <1>1, IdleIsTask, ShopAssumption DEF Init, TypeOK, Statuses
<1>3. \A u \in Users : task[u].pc = "idle" /\ \A p \in Tracked : task[u].snap[p] = 0
  BY DEF Init, Idle
<1>4. TasksHoldLeads /\ CheckoutsHaveLeads /\ FreeIsBought /\ AccessNeedsPayment
  BY <1>1, <1>3 DEF TasksHoldLeads, CheckoutsHaveLeads, FreeIsBought, AccessNeedsPayment, Working
<1>5. InvoicesExist
  BY <1>1, <1>3 DEF Init, InvoicesExist
<1>6. StockCounted
  BY <1>3, ShopAssumption DEF Init, StockCounted
<1> QED
  BY <1>2, <1>4, <1>5, <1>6 DEF IInv

\* The invariant holds in every state the program reaches.
LEMMA Invariance == Spec => []IInv
  BY InvInit, InvStep, PTL DEF Spec

(***************************************************************************)
(* The theorems.                                                           *)
(***************************************************************************)
\* Every column and every handler's session always hold values of their kind.
THEOREM TypeCorrect == Spec => []TypeOK
  BY Invariance, PTL DEF IInv

\* Stock never goes below zero, for any number of buyers and units, although
\* handlers test and write old copies of it.
THEOREM StockStaysNonNegative == Spec => []StockNonNegative
<1>1. IInv => StockNonNegative
  BY DEF IInv, StockCounted, StockNonNegative
<1> QED
  BY <1>1, Invariance, PTL

\* No sequence of lost, late, repeated or flawed events gives access without
\* a signed and sound success.
THEOREM AccessIsPaidFor == Spec => []AccessNeedsPayment
  BY Invariance, PTL DEF IInv

Secured(o) == status[o] \in SUCCESS /\ (row[o].method # "acquiring" \/ url[row[o].lead])

\* The only steps that can take a success away are those of a handler that
\* gives up, and they concern orders without a payment page.
LEMMA SecuredKept == IInv /\ [Next]_vars => \A o \in Placed : Secured(o) => status'[o] \in {status[o], "delivered"}
<1> SUFFICES ASSUME IInv, [Next]_vars, NEW o \in Placed, Secured(o) PROVE status'[o] \in {status[o], "delivered"}
  OBVIOUS
<1> USE DEF IInv, Secured
<1>1. ASSUME NEW u \in Users, PageRefused(u) \/ FailCheckout(u) PROVE status'[o] \in {status[o], "delivered"}
  <2>1. task[u].pc \in Working /\ task[u].lead \in Placed
    BY <1>1 DEF PageRefused, FailCheckout, Working, TasksHoldLeads
  <2>2. PICK saw \in Statuses : /\ GiveUp(u, saw)
                                /\ row[task[u].lead].method = "free" => saw \in SUCCESS
    <3>1. CASE PageRefused(u)
      BY <2>1, <3>1 DEF PageRefused, FreeIsBought, Placed, TypeOK
    <3>2. CASE FailCheckout(u)
      BY <3>2 DEF FailCheckout, FreeIsBought, TypeOK, Task
    <3> QED
      BY <1>1, <3>1, <3>2
  <2> SUFFICES ASSUME status'[o] # status[o] PROVE FALSE
    OBVIOUS
  <2>3. o \in GivenUp(u, saw)
    BY <2>1, <2>2, GiveUpEffect DEF Placed
  <2>4. row[o].lead = task[u].lead
    BY <2>1, <2>3 DEF GivenUp, CheckoutOrders, TasksHoldLeads
  <2>5. row[o].method = row[task[u].lead].method /\ ~url[task[u].lead]
    BY <2>1, <2>4 DEF CheckoutsHaveLeads, TasksHoldLeads
  <2>6. row[task[u].lead].method = "free"
    BY <2>1, <2>4, <2>5 DEF TasksHoldLeads
  <2>7. ~row[task[u].lead].cart
    BY <2>1, <2>6 DEF TasksHoldLeads
  <2> QED
    BY <2>2, <2>3, <2>6, <2>7 DEF GivenUp
<1>2. ASSUME NEW q \in Placed, NEW to \in {"payment_failed", "cancelled"},
             MarkCheckoutPaid(q) \/ ReleaseCheckout(q, to)
      PROVE  status'[o] \in {status[o], "delivered"}
  BY <1>2, MarkEffect, ReleaseEffect DEF SUCCESS
<1>3. ASSUME NEW e \in sent, NEW c \in {"hook", "poll"}, Payment(c, e)
      PROVE  status'[o] \in {status[o], "delivered"}
  <2>1. e.order \in Placed
    BY DEF InvoicesExist
  <2> QED
    BY <1>2, <1>3, <2>1 DEF Payment
<1>4. ASSUME NEW q \in OrderIds, ApplyAnswer(q) PROVE status'[o] \in {status[o], "delivered"}
  BY <1>3, <1>4 DEF ApplyAnswer, InvoicesExist
<1>5. ASSUME NEW q \in OrderIds, \/ ConfirmTransfer(q) \/ Deliver(q) \/ Ask(q)
                                 \/ PollFails(q) \/ TimePasses(q)
      PROVE  status'[o] \in {status[o], "delivered"}
  BY <1>2, <1>5 DEF ConfirmTransfer, Deliver, Ask, PollFails, TimePasses, TypeOK, Placed, SUCCESS
<1>6. ASSUME NEW u \in Users, NEW q \in OrderIds, BuyerCancels(u, q) PROVE status'[o] \in {status[o], "delivered"}
  BY <1>2, <1>6 DEF BuyerCancels
<1>7. ASSUME NEW u \in Users, NEW q \in OrderIds, NEW free \in BOOLEAN, ReserveSingle(u, q, free)
      PROVE  status'[o] \in {status[o], "delivered"}
  BY <1>7, ReserveSingleEffect
<1>8. ASSUME NEW u \in Users, NEW m \in Methods, NEW t \in Terms, NEW first \in cart[u],
             NEW ids \in [cart[u] -> OrderIds], ReserveCart(u, m, t, ids, first)
      PROVE  status'[o] \in {status[o], "delivered"}
  BY <1>8, ReserveCartEffect
<1>9. ASSUME NEW u \in Users, BuyerStep(u) PROVE status'[o] \in {status[o], "delivered"}
  <2>1. ASSUME status' = status PROVE status'[o] \in {status[o], "delivered"}
    BY <2>1
  <2> QED
    BY <1>1, <1>6, <1>7, <1>8, <1>9, <2>1
    DEF BuyerStep, BeginCheckout, RefuseCheckout, AddToCart, RemoveFromCart, InvoiceCreated,
        InvoiceRefused, StoreInvoice, RefreshOrder
<1>10. CASE StartReconcile \/ Crash \/ UNCHANGED vars
  BY <1>10 DEF StartReconcile, Crash, vars
<1>11. ASSUME NEW q \in OrderIds, NEW s \in InvoiceStatus, NEW d \in 0..MaxDate, NEW f \in Flaws,
              ProviderMoves(q, s, d, f)
       PROVE  status'[o] \in {status[o], "delivered"}
  BY <1>11 DEF ProviderMoves
<1> QED
  BY <1>3, <1>4, <1>5, <1>9, <1>10, <1>11 DEF Next, Webhook

\* Once a buyer has a payment page, or pays by transfer, or pays nothing, a
\* purchase is never taken away.
THEOREM PurchasesAreFinal == Spec => PurchaseIsFinal
<1>1. IInv /\ [Next]_vars =>
        [\A o \in Placed :
           (status[o] \in SUCCESS /\ (row[o].method # "acquiring" \/ url[row[o].lead])) =>
             status'[o] \in {status[o], "delivered"}]_vars
  BY SecuredKept DEF Secured
<1> QED
  BY <1>1, Invariance, PTL DEF Spec, PurchaseIsFinal

(***************************************************************************)
(* What a step may do to orders.                                           *)
(***************************************************************************)
\* Who pays confirms a checkout: a transfer or receipt for a waiting order, or a
\* sound success of the lead order's invoice that is not outdated.
Warranted(o) ==
  \/ row[o].method \in {"personal", "receipt"} /\ status[o] = "waiting_payment"
  \/ /\ row[o].method = "acquiring" /\ row[o].lead = o
     /\ \E e \in sent : e.order = o /\ Good(e) /\ e.date >= date[o]

Confirms(o) == /\ status[o] \notin SUCCESS /\ MarkCheckoutPaid(o) /\ Warranted(o)
               /\ UNCHANGED <<row, age, task, url>>
Releases(o) == /\ \E to \in {"payment_failed", "cancelled"} : ReleaseCheckout(o, to)
               /\ UNCHANGED <<row, age, task, url>>
Delivers(o) == Deliver(o) /\ UNCHANGED url
Rests == UNCHANGED <<stock, row, status>>

LEMMA PaymentMoves ==
  ASSUME IInv, NEW e \in sent, NEW c \in {"hook", "poll"}, Payment(c, e),
         UNCHANGED <<row, age, task, url>>
  PROVE  e.order \in Placed /\ (Confirms(e.order) \/ Releases(e.order) \/ Rests)
<1>1. e.order \in Placed /\ row[e.order].lead = e.order
  BY DEF IInv, InvoicesExist
<1>2. e.date \in Int /\ date[e.order] \in Int
  BY <1>1, ShopAssumption DEF IInv, TypeOK, Event, Placed
<1>3. \/ Counts(e) /\ e.status = "success" /\ status[e.order] \notin SUCCESS /\ MarkCheckoutPaid(e.order)
      \/ ReleaseCheckout(e.order, "payment_failed")
      \/ UNCHANGED <<status, cart, stock>>
  BY DEF Payment
<1>4. Counts(e) /\ e.status = "success" => Warranted(e.order)
  BY <1>1, <1>2 DEF Payment, Warranted, Counts, Stale, Good
<1> QED
  BY <1>1, <1>3, <1>4 DEF Confirms, Releases, Rests

LEMMA Steps ==
  ASSUME IInv, [Next]_vars
  PROVE  \/ \E u \in Users, o \in OrderIds, free \in BOOLEAN : ReserveSingle(u, o, free)
         \/ \E u \in Users, m \in Methods, t \in Terms : \E first \in cart[u] :
              \E ids \in [cart[u] -> OrderIds] : ReserveCart(u, m, t, ids, first)
         \/ \E o \in Placed : Confirms(o) \/ Releases(o)
         \/ \E u \in Users : PageRefused(u) \/ FailCheckout(u)
         \/ \E o \in OrderIds : Delivers(o)
         \/ Rests
<1> DEFINE Goal ==
             \/ \E u \in Users, o \in OrderIds, free \in BOOLEAN : ReserveSingle(u, o, free)
             \/ \E u \in Users, m \in Methods, t \in Terms : \E first \in cart[u] :
                  \E ids \in [cart[u] -> OrderIds] : ReserveCart(u, m, t, ids, first)
             \/ \E o \in Placed : Confirms(o) \/ Releases(o)
             \/ \E u \in Users : PageRefused(u) \/ FailCheckout(u)
             \/ \E o \in OrderIds : Delivers(o)
             \/ Rests
<1>1. ASSUME NEW u \in Users, BuyerStep(u) PROVE Goal
  <2>1. CASE \E p \in Products, m \in Methods, t \in Terms : BeginCheckout(u, p, m, t)
    BY <2>1 DEF BeginCheckout, Rests
  <2>2. CASE \E p \in Products : AddToCart(u, p) \/ RemoveFromCart(u, p)
    BY <2>2 DEF AddToCart, RemoveFromCart, Rests
  <2>3. CASE \/ RefuseCheckout(u) \/ InvoiceRefused(u) \/ StoreInvoice(u) \/ RefreshOrder(u)
             \/ \E f \in Flaws : InvoiceCreated(u, f)
    BY <2>3 DEF RefuseCheckout, InvoiceRefused, StoreInvoice, RefreshOrder, InvoiceCreated, Rests
  <2>4. CASE \E o \in OrderIds : BuyerCancels(u, o)
    BY <2>4 DEF BuyerCancels, Releases, money
  <2>5. CASE PageRefused(u) \/ FailCheckout(u)
    BY <2>5
  <2>6. CASE \E o \in OrderIds, free \in BOOLEAN : ReserveSingle(u, o, free)
    BY <2>6
  <2>7. CASE \E m \in Methods, t \in Terms, first \in cart[u] :
               \E ids \in [cart[u] -> OrderIds] : ReserveCart(u, m, t, ids, first)
    BY <2>7
  <2> QED
    BY <1>1, <2>1, <2>2, <2>3, <2>4, <2>5, <2>6, <2>7 DEF BuyerStep
<1>2. ASSUME NEW e \in sent, Webhook(e) PROVE Goal
  BY <1>2, PaymentMoves DEF Webhook
<1>3. ASSUME NEW o \in OrderIds, ApplyAnswer(o) PROVE Goal
  <2>1. answer \in sent
    BY <1>3 DEF ApplyAnswer, IInv, InvoicesExist
  <2>2. CASE Payment("poll", answer)
    BY <1>3, <2>1, <2>2, PaymentMoves DEF ApplyAnswer
  <2>3. CASE UNCHANGED <<stock, cart, status, bound, date, seen>>
    BY <1>3, <2>3 DEF ApplyAnswer, Rests
  <2> QED
    BY <1>3, <2>2, <2>3 DEF ApplyAnswer
<1>4. ASSUME NEW o \in OrderIds, ConfirmTransfer(o) PROVE Goal
  BY <1>4 DEF ConfirmTransfer, Confirms, Warranted, money, SUCCESS
<1>5. ASSUME NEW o \in OrderIds, Deliver(o) PROVE Goal
  BY <1>5 DEF Deliver, Delivers, money
<1>6. ASSUME NEW o \in OrderIds,
             \/ Ask(o) \/ PollFails(o) \/ TimePasses(o)
             \/ \E s \in InvoiceStatus, d \in 0..MaxDate, f \in Flaws : ProviderMoves(o, s, d, f)
      PROVE  Goal
  BY <1>6 DEF Ask, PollFails, TimePasses, ProviderMoves, Rests
<1>7. CASE StartReconcile \/ Crash \/ UNCHANGED vars
  BY <1>7 DEF StartReconcile, Crash, vars, Rests
<1> QED
  BY <1>1, <1>2, <1>3, <1>4, <1>5, <1>6, <1>7 DEF Next

\* A handler that gives up places no order and confirms none.
LEMMA GivesUp ==
  ASSUME IInv, NEW u \in Users, PageRefused(u) \/ FailCheckout(u)
  PROVE  /\ Placed' = Placed /\ row' = row /\ age' = age
         /\ task' = [task EXCEPT ![u] = Idle]
         /\ \A q \in OrderIds : status'[q] = status[q] \/ status'[q] = "payment_failed"
         /\ \A q \in Placed : status'[q] \in SUCCESS => status[q] \in SUCCESS
<1> USE DEF IInv
<1>1. task[u].lead \in Placed
  BY DEF PageRefused, FailCheckout, Working, TasksHoldLeads
<1>2. PICK saw \in Statuses : GiveUp(u, saw)
  BY <1>1 DEF PageRefused, FailCheckout, Placed, TypeOK, Task
<1>3. /\ Placed' = Placed /\ task' = [task EXCEPT ![u] = Idle]
      /\ \A q \in Placed : status'[q] \in SUCCESS => status[q] \in SUCCESS
  BY <1>1, <1>2, GiveUpEffect
<1>4. \A q \in OrderIds : status'[q] = status[q] \/ status'[q] = "payment_failed"
  BY <1>2 DEF GiveUp
<1> QED
  BY <1>3, <1>4 DEF PageRefused, FailCheckout, money

\* An order becomes paid only by a success that is not outdated.
THEOREM OldSuccessesAreIgnored == Spec => OldSuccessIgnored
<1>1. ASSUME IInv, [Next]_vars, NEW o \in Placed, row[o].method = "acquiring", row[o].lead = o,
             status[o] \notin SUCCESS, status'[o] \in SUCCESS
      PROVE  \E e \in sent : e.order = o /\ Good(e) /\ e.date >= date[o]
  <2> USE <1>1
  <2>1. ASSUME NEW u \in Users, NEW q \in OrderIds, NEW free \in BOOLEAN, ReserveSingle(u, q, free)
        PROVE  FALSE
    BY <2>1, ReserveSingleEffect
  <2>2. ASSUME NEW u \in Users, NEW m \in Methods, NEW t \in Terms, NEW first \in cart[u],
               NEW ids \in [cart[u] -> OrderIds], ReserveCart(u, m, t, ids, first)
        PROVE  FALSE
    BY <2>2, ReserveCartEffect
  <2>3. ASSUME NEW q \in Placed, Releases(q) PROVE FALSE
    BY <2>3, ReleaseEffect DEF Releases, IInv
  <2>4. ASSUME NEW u \in Users, PageRefused(u) \/ FailCheckout(u) PROVE FALSE
    BY <2>4, GivesUp
  <2>5. ASSUME NEW q \in OrderIds, Delivers(q) PROVE FALSE
    BY <2>5 DEF Delivers, Deliver, SUCCESS, IInv, TypeOK, Placed
  <2>6. ~Rests
    BY DEF Rests
  <2>7. PICK q \in Placed : Confirms(q)
    BY <2>1, <2>2, <2>3, <2>4, <2>5, <2>6, Steps
  <2>8. row[q].lead = o
    BY <2>7, MarkEffect DEF Confirms, IInv
  <2>9. row[q].method = "acquiring"
    BY <2>8 DEF IInv, CheckoutsHaveLeads
  <2> QED
    BY <2>7, <2>8, <2>9 DEF Confirms, Warranted
<1>2. IInv /\ [Next]_vars =>
        [\A o \in Placed :
           (/\ row[o].method = "acquiring" /\ row[o].lead = o
            /\ status[o] \notin SUCCESS /\ status'[o] \in SUCCESS) =>
             \E e \in sent : e.order = o /\ Good(e) /\ e.date >= date[o]]_vars
  BY <1>1
<1> QED
  BY <1>2, Invariance, PTL DEF Spec, OldSuccessIgnored

(***************************************************************************)
(* The orders of one checkout.                                             *)
(***************************************************************************)
\* They are of one buyer and one kind, and of different products.
SameCheckout ==
  \A o \in Placed :
    LET l == row[o].lead IN
    /\ row[l].user = row[o].user /\ row[l].cart = row[o].cart
    /\ ~row[o].cart => l = o
    /\ \A q \in Placed : row[q].lead = l /\ row[q].item = row[o].item => q = o

\* The orders a cart is turned into are one for each of its products.
LEMMA ReserveCartRows ==
  ASSUME IInv, NEW u \in Users, NEW m \in Methods, NEW t \in Terms, NEW first \in cart[u],
         NEW ids \in [cart[u] -> OrderIds], ReserveCart(u, m, t, ids, first)
  PROVE  /\ \A p \in cart[u] : row'[ids[p]].item = p /\ row'[ids[p]].cart
         /\ \A p, q \in cart[u] : ids[p] = ids[q] => p = q
<1>1. \A p, q \in cart[u] : ids[p] = ids[q] => p = q
  BY DEF ReserveCart, Injection, IsInjective
<1>2. ASSUME NEW p \in cart[u] PROVE row'[ids[p]].item = p /\ row'[ids[p]].cart
  <2>1. (CHOOSE q \in cart[u] : ids[q] = ids[p]) = p
    BY <1>1
  <2> QED
    BY <2>1 DEF ReserveCart
<1> QED
  BY <1>1, <1>2

\* Only a reservation writes the columns fixed by an INSERT.
LEMMA RowsKept ==
  ASSUME IInv, [Next]_vars
  PROVE  \/ \E u \in Users, o \in OrderIds, free \in BOOLEAN : ReserveSingle(u, o, free)
         \/ \E u \in Users, m \in Methods, t \in Terms : \E first \in cart[u] :
              \E ids \in [cart[u] -> OrderIds] : ReserveCart(u, m, t, ids, first)
         \/ Placed' = Placed /\ row' = row
<1>1. ASSUME NEW q \in Placed, Confirms(q) \/ Releases(q) PROVE Placed' = Placed /\ row' = row
  BY <1>1, MarkEffect, ReleaseEffect DEF Confirms, Releases, IInv
<1>2. ASSUME NEW u \in Users, PageRefused(u) \/ FailCheckout(u) PROVE Placed' = Placed /\ row' = row
  BY <1>2, GivesUp DEF PageRefused, FailCheckout
<1>3. ASSUME NEW q \in OrderIds, Delivers(q) PROVE Placed' = Placed /\ row' = row
  BY <1>3 DEF Delivers, Deliver, IInv, TypeOK, Placed
<1>4. Rests => Placed' = Placed /\ row' = row
  BY DEF Rests, Placed
<1> QED
  BY <1>1, <1>2, <1>3, <1>4, Steps

LEMMA SameCheckoutStep == IInv /\ SameCheckout /\ [Next]_vars => SameCheckout'
<1> SUFFICES ASSUME IInv, SameCheckout, [Next]_vars PROVE SameCheckout'
  OBVIOUS
<1>1. ASSUME NEW u \in Users, NEW o \in OrderIds, NEW free \in BOOLEAN, ReserveSingle(u, o, free)
      PROVE  SameCheckout'
  BY <1>1, ReserveSingleEffect DEF IInv, SameCheckout, CheckoutsHaveLeads
<1>2. ASSUME NEW u \in Users, NEW m \in Methods, NEW t \in Terms, NEW first \in cart[u],
             NEW ids \in [cart[u] -> OrderIds], ReserveCart(u, m, t, ids, first)
      PROVE  SameCheckout'
  <2> DEFINE New == Inserted(ids, u)
  <2>1. /\ New \subseteq OrderIds \ Placed /\ ids[first] \in New /\ Placed' = Placed \cup New
        /\ \A q \in Placed : row'[q] = row[q]
        /\ \A q \in New : row'[q].lead = ids[first] /\ row'[q].user = u
    BY <1>2, ReserveCartEffect
  <2>2. \A q \in New : row'[q].cart /\ \A o \in New : row'[o].item = row'[q].item => o = q
    BY <1>2, ReserveCartRows DEF Inserted
  <2> HIDE DEF New
  <2> DEFINE Fits(o) == LET l == row'[o].lead IN
                        /\ row'[l].user = row'[o].user /\ row'[l].cart = row'[o].cart
                        /\ ~row'[o].cart => l = o
                        /\ \A q \in Placed' : row'[q].lead = l /\ row'[q].item = row'[o].item => q = o
  <2>3. ASSUME NEW o \in Placed PROVE Fits(o)
    <3>1. row'[o] = row[o] /\ row[o].lead \in Placed /\ row'[row[o].lead] = row[row[o].lead]
      BY <2>1 DEF IInv, CheckoutsHaveLeads
    <3>2. \A q \in New : row'[q].lead # row[o].lead
      BY <2>1, <3>1
    <3> QED
      BY <2>1, <3>1, <3>2 DEF SameCheckout
  <2>4. ASSUME NEW o \in New PROVE Fits(o)
    <3>1. row'[o].lead = ids[first] /\ \A q \in Placed : row'[q].lead # ids[first]
      BY <2>1 DEF IInv, CheckoutsHaveLeads
    <3>2. \A q \in New : row'[q].item = row'[o].item => q = o
      BY <2>2
    <3>3. row'[ids[first]].cart = row'[o].cart
      <4>1. row'[o] \in Row /\ row'[ids[first]] \in Row
        BY <2>1, TypeStep DEF IInv, TypeOK
      <4> QED
        BY <2>1, <2>2, <4>1 DEF Row
    <3> QED
      BY <2>1, <2>2, <3>1, <3>2, <3>3
  <2> QED
    BY <2>1, <2>3, <2>4 DEF SameCheckout
<1>3. Placed' = Placed /\ row' = row => SameCheckout'
  BY DEF SameCheckout
<1> QED
  BY <1>1, <1>2, <1>3, RowsKept

LEMMA CheckoutsAreOne == Spec => [](IInv /\ SameCheckout)
<1>1. Init => IInv /\ SameCheckout
  BY InvInit DEF Init, SameCheckout, Placed
<1>2. IInv /\ SameCheckout /\ [Next]_vars => (IInv /\ SameCheckout)'
  BY InvStep, SameCheckoutStep
<1> QED
  BY <1>1, <1>2, PTL DEF Spec

(***************************************************************************)
(* Repeated clicks.                                                        *)
(***************************************************************************)
Alike(o, u, p, m, t) ==
  row[o].user = u /\ row[o].item = p /\ row[o].method = m /\ row[o].terms = t

\* No payable order is like the one a buyer is about to place, nor like the one
\* whose payment page a handler is still asking for.
ClicksAnswered ==
  /\ \A u \in Users : task[u].pc = "chosen" =>
       \A o \in Placed : Payable(o) => ~Alike(o, u, task[u].item, task[u].method, task[u].terms)
  /\ \A u \in Users : LET l == task[u].lead IN
       (task[u].pc \in Working /\ ~row[l].cart) =>
         \A o \in Placed : Payable(o) => ~Alike(o, u, row[l].item, row[l].method, row[l].terms)

\* Nothing becomes payable, and no handler starts.
NothingOffered ==
  /\ Placed' = Placed /\ row' = row
  /\ \A o \in Placed : Payable(o)' => Payable(o)
  /\ \A u \in Users : \/ task'[u] = task[u] \/ task'[u] = Idle
                      \/ /\ task[u].pc \in Working /\ task'[u].pc \in Working
                         /\ task'[u].lead = task[u].lead

LEMMA NothingOfferedStep ==
  ASSUME OneActiveOrder, ClicksAnswered, NothingOffered
  PROVE  OneActiveOrder' /\ ClicksAnswered'
<1>1. OneActiveOrder'
  BY DEF NothingOffered, OneActiveOrder
<1>2. \A u \in Users : task'[u].pc = "chosen" => task'[u] = task[u]
  BY DEF NothingOffered, Idle, Working
<1>3. \A u \in Users : task'[u].pc \in Working =>
                         task[u].pc \in Working /\ task'[u].lead = task[u].lead
  BY DEF NothingOffered, Idle, Working
<1> QED
  BY <1>1, <1>2, <1>3 DEF NothingOffered, ClicksAnswered, Alike

\* What confirms, releases or delivers orders offers none.
LEMMA StatusOnly ==
  ASSUME IInv, NEW o \in Placed, Confirms(o) \/ Releases(o) \/ Delivers(o)
  PROVE  NothingOffered
<1> USE DEF IInv, TypeOK
<1>1. Placed' = Placed /\ row' = row /\ url' = url /\ age' = age /\ task' = task
  BY MarkEffect, ReleaseEffect DEF Confirms, Releases, Delivers, Deliver, Placed
<1>2. \A q \in Placed : status'[q] = "waiting_payment" => status[q] = "waiting_payment"
  BY DEF Confirms, Releases, Delivers, Deliver, MarkCheckoutPaid, ReleaseCheckout, Placed
<1> QED
  BY <1>1, <1>2 DEF NothingOffered, Payable

LEMMA PaymentOffersNothing ==
  ASSUME IInv, NEW e \in sent, NEW c \in {"hook", "poll"}, Payment(c, e),
         UNCHANGED <<row, age, task, url>>
  PROVE  NothingOffered
<1>1. UNCHANGED status => NothingOffered
  BY DEF NothingOffered, Payable, Placed
<1>2. e.order \in Placed /\ (Confirms(e.order) \/ Releases(e.order) \/ Rests)
  BY PaymentMoves
<1> QED
  BY <1>1, <1>2, StatusOnly DEF Rests

\* A handler that gives up offers nothing: the address it may just have stored
\* belongs to an order that is not waiting any more.
LEMMA GivingUpOffersNothing ==
  ASSUME IInv, NEW u \in Users, PageRefused(u) \/ FailCheckout(u)
  PROVE  NothingOffered
<1> DEFINE l == task[u].lead
<1> USE DEF IInv
<1>1. /\ Placed' = Placed /\ row' = row /\ age' = age /\ task' = [task EXCEPT ![u] = Idle]
      /\ \A q \in OrderIds : status'[q] = status[q] \/ status'[q] = "payment_failed"
  BY GivesUp
<1>2. \A q \in Placed : url'[q] = url[q] \/ (q = l /\ PageRefused(u))
  BY DEF PageRefused, FailCheckout, money, TypeOK, Placed
<1>3. ASSUME PageRefused(u), ~row[l].cart PROVE status'[l] # "waiting_payment"
  <2>1. l \in Placed /\ l \in OrderIds
    BY <1>3 DEF PageRefused, Working, TasksHoldLeads, Placed
  <2>2. GivenUp(u, status[l]) = {q \in {l} : status[l] \notin SUCCESS}
    BY <1>3 DEF GivenUp
  <2>3. status[l] = "waiting_payment" => status'[l] = "payment_failed"
    BY <1>3, <2>1, <2>2 DEF PageRefused, GiveUp, SUCCESS
  <2> QED
    BY <1>1, <2>1, <2>3
<1>4. \A q \in Placed : Payable(q)' => Payable(q)
  <2> SUFFICES ASSUME NEW q \in Placed, Payable(q)' PROVE Payable(q)
    OBVIOUS
  <2>1. /\ ~row[q].cart /\ status'[q] = "waiting_payment" /\ age[q] < 2
        /\ row[q].method = "acquiring" => url'[q]
    BY <1>1 DEF Payable
  <2>2. status[q] = "waiting_payment" /\ url'[q] = url[q]
    BY <1>1, <1>2, <1>3, <2>1 DEF Placed
  <2> QED
    BY <2>1, <2>2 DEF Payable
<1>5. \A v \in Users : task'[v] = task[v] \/ task'[v] = Idle
  BY <1>1 DEF TypeOK
<1> QED
  BY <1>1, <1>4, <1>5 DEF NothingOffered

LEMMA HandlerMoves ==
  ASSUME IInv, NEW u \in Users,
         InvoiceRefused(u) \/ RefreshOrder(u) \/ \E f \in Flaws : InvoiceCreated(u, f)
  PROVE  NothingOffered
<1> USE DEF IInv, money
<1>1. Placed' = Placed /\ UNCHANGED <<row, status, age, url>>
  BY DEF InvoiceRefused, RefreshOrder, InvoiceCreated, Placed
<1>2. \A q \in Placed : Payable(q)' => Payable(q)
  BY <1>1 DEF Payable
<1>3. /\ \A v \in Users \ {u} : task'[v] = task[v]
      /\ task[u].pc \in Working /\ task'[u].pc \in Working /\ task'[u].lead = task[u].lead
  <2>1. CASE InvoiceRefused(u)
    BY <2>1 DEF InvoiceRefused, TypeOK, Task, Working
  <2>2. CASE RefreshOrder(u)
    BY <2>2 DEF RefreshOrder, TypeOK, Task, Working
  <2>3. CASE \E f \in Flaws : InvoiceCreated(u, f)
    <3>1. task[u].pc = "create" /\ \E c \in {"answered", "failed"} : task' = [task EXCEPT ![u].pc = c]
      BY <2>3 DEF InvoiceCreated
    <3> QED
      BY <3>1 DEF TypeOK, Task, Working
  <2> QED
    BY <2>1, <2>2, <2>3
<1> QED
  BY <1>1, <1>2, <1>3 DEF NothingOffered

\* Every other step is a click, a reservation or an invoice stored.
LEMMA Offers ==
  ASSUME IInv, [Next]_vars
  PROVE  \/ \E u \in Users, p \in Products, m \in Methods, t \in Terms : BeginCheckout(u, p, m, t)
         \/ \E u \in Users, o \in OrderIds, free \in BOOLEAN : ReserveSingle(u, o, free)
         \/ \E u \in Users, m \in Methods, t \in Terms : \E first \in cart[u] :
              \E ids \in [cart[u] -> OrderIds] : ReserveCart(u, m, t, ids, first)
         \/ \E u \in Users : StoreInvoice(u)
         \/ NothingOffered
<1> DEFINE Goal ==
             \/ \E u \in Users, p \in Products, m \in Methods, t \in Terms : BeginCheckout(u, p, m, t)
             \/ \E u \in Users, o \in OrderIds, free \in BOOLEAN : ReserveSingle(u, o, free)
             \/ \E u \in Users, m \in Methods, t \in Terms : \E first \in cart[u] :
                  \E ids \in [cart[u] -> OrderIds] : ReserveCart(u, m, t, ids, first)
             \/ \E u \in Users : StoreInvoice(u)
             \/ NothingOffered
<1>0. ASSUME UNCHANGED <<row, status, age, url>>, \A u \in Users : task'[u] = task[u] \/ task'[u] = Idle
      PROVE  Goal
  BY <1>0 DEF NothingOffered, Payable, Placed
<1>1. ASSUME NEW u \in Users, BuyerStep(u) PROVE Goal
  <2>1. CASE RefuseCheckout(u) \/ \E p \in Products : AddToCart(u, p) \/ RemoveFromCart(u, p)
    <3>1. \A v \in Users : task'[v] = task[v] \/ task'[v] = Idle
      BY <2>1 DEF RefuseCheckout, AddToCart, RemoveFromCart, IInv, TypeOK
    <3> QED
      BY <1>0, <2>1, <3>1 DEF RefuseCheckout, AddToCart, RemoveFromCart, money
  <2>2. CASE InvoiceRefused(u) \/ RefreshOrder(u) \/ \E f \in Flaws : InvoiceCreated(u, f)
    BY <2>2, HandlerMoves
  <2>3. CASE \E o \in OrderIds : BuyerCancels(u, o)
    BY <2>3, StatusOnly DEF BuyerCancels, Releases, money
  <2>4. CASE PageRefused(u) \/ FailCheckout(u)
    BY <2>4, GivingUpOffersNothing
  <2>5. CASE \E o \in OrderIds, free \in BOOLEAN : ReserveSingle(u, o, free)
    BY <2>5
  <2>6. CASE \E m \in Methods, t \in Terms, first \in cart[u] :
               \E ids \in [cart[u] -> OrderIds] : ReserveCart(u, m, t, ids, first)
    BY <2>6
  <2>7. CASE \E p \in Products, m \in Methods, t \in Terms : BeginCheckout(u, p, m, t)
    BY <2>7
  <2> QED
    BY <1>1, <2>1, <2>2, <2>3, <2>4, <2>5, <2>6, <2>7 DEF BuyerStep
<1>2. ASSUME NEW e \in sent, Webhook(e) PROVE Goal
  BY <1>2, PaymentOffersNothing DEF Webhook
<1>3. ASSUME NEW o \in OrderIds, ApplyAnswer(o) PROVE Goal
  <2>1. answer \in sent
    BY <1>3 DEF ApplyAnswer, IInv, InvoicesExist
  <2>2. CASE Payment("poll", answer)
    BY <1>3, <2>1, <2>2, PaymentOffersNothing DEF ApplyAnswer
  <2>3. CASE UNCHANGED <<stock, cart, status, bound, date, seen>>
    BY <1>0, <1>3, <2>3 DEF ApplyAnswer
  <2> QED
    BY <1>3, <2>2, <2>3 DEF ApplyAnswer
<1>4. ASSUME NEW o \in OrderIds, ConfirmTransfer(o) PROVE Goal
  BY <1>4, StatusOnly DEF ConfirmTransfer, Confirms, Warranted, money, SUCCESS
<1>5. ASSUME NEW o \in OrderIds, Deliver(o) PROVE Goal
  BY <1>5, StatusOnly DEF Deliver, Delivers, money, Placed
<1>6. ASSUME NEW o \in OrderIds, TimePasses(o) PROVE Goal
  BY <1>6 DEF TimePasses, NothingOffered, Payable, money, Placed, IInv, TypeOK
<1>7. ASSUME NEW o \in OrderIds,
             \/ Ask(o) \/ PollFails(o)
             \/ \E s \in InvoiceStatus, d \in 0..MaxDate, f \in Flaws : ProviderMoves(o, s, d, f)
      PROVE  Goal
  BY <1>0, <1>7 DEF Ask, PollFails, ProviderMoves
<1>8. CASE StartReconcile \/ Crash \/ UNCHANGED vars
  BY <1>0, <1>8 DEF StartReconcile, Crash, vars
<1> QED
  BY <1>1, <1>2, <1>3, <1>4, <1>5, <1>6, <1>7, <1>8 DEF Next

\* An order placed by a click is like no payable one, and a page is stored for
\* an order that is like no payable one.
LEMMA ClicksStep ==
  IInv /\ OneActiveOrder /\ ClicksAnswered /\ [Next]_vars => OneActiveOrder' /\ ClicksAnswered'
<1> SUFFICES ASSUME IInv, OneActiveOrder, ClicksAnswered, [Next]_vars
             PROVE  OneActiveOrder' /\ ClicksAnswered'
  OBVIOUS
<1> USE DEF IInv
<1>1. ASSUME NEW u \in Users, NEW p \in Products, NEW m \in Methods, NEW t \in Terms,
             BeginCheckout(u, p, m, t)
      PROVE  OneActiveOrder' /\ ClicksAnswered'
  <2>1. /\ Placed' = Placed /\ UNCHANGED <<row, status, age, url>>
        /\ \A o \in Placed : Payable(o)' <=> Payable(o)
    BY <1>1 DEF BeginCheckout, money, Payable, Placed
  <2>2. /\ task'[u].pc = "chosen" /\ task'[u].item = p /\ task'[u].terms = t
        /\ task'[u].method = m /\ \A v \in Users \ {u} : task'[v] = task[v]
    BY <1>1 DEF BeginCheckout, TypeOK, Idle
  <2>3. \A o \in Placed : Payable(o) => ~Alike(o, u, p, m, t)
    BY <1>1 DEF BeginCheckout, Reusable, Payable, Alike
  <2>4. OneActiveOrder'
    BY <2>1 DEF OneActiveOrder
  <2>5. ClicksAnswered'
    BY <2>1, <2>2, <2>3 DEF ClicksAnswered, Alike, Working
  <2> QED
    BY <2>4, <2>5
<1>2. ASSUME NEW u \in Users, NEW o \in OrderIds, NEW free \in BOOLEAN, ReserveSingle(u, o, free)
      PROVE  OneActiveOrder' /\ ClicksAnswered'
  <2>1. /\ o \notin Placed /\ ~url[o] /\ Placed' = Placed \cup {o}
        /\ \A q \in Placed : row'[q] = row[q] /\ status'[q] = status[q]
        /\ row'[o].user = u /\ ~row'[o].cart
        /\ row'[o].method = IF free THEN "free" ELSE task[u].method
        /\ status'[o] = IF free THEN "delivered" ELSE "waiting_payment"
    BY <1>2, ReserveSingleEffect
  <2>2. row'[o].item = task[u].item /\ row'[o].terms = task[u].terms /\ task[u].pc = "chosen"
    BY <1>2 DEF ReserveSingle, TypeOK
  <2>3. age' = age /\ url' = url /\ \A v \in Users \ {u} : task'[v] = task[v]
    BY <1>2 DEF ReserveSingle, money, TypeOK
  <2>4. \A q \in Placed : Payable(q)' <=> Payable(q)
    BY <2>1, <2>3 DEF Payable
  <2>5. Payable(o)' => ~free /\ task[u].method # "acquiring"
    BY <2>1, <2>3 DEF Payable
  <2>6. \A q \in Placed : Payable(q) =>
          ~Alike(q, u, task[u].item, task[u].method, task[u].terms)
    BY <2>2 DEF ClicksAnswered
  <2>7. OneActiveOrder'
    <3> SUFFICES ASSUME NEW a \in Placed', NEW b \in Placed', Payable(a)', Payable(b)',
                        row'[a].user = row'[b].user, row'[a].item = row'[b].item,
                        row'[a].method = row'[b].method, row'[a].terms = row'[b].terms
                 PROVE  a = b
      BY DEF OneActiveOrder
    <3>1. CASE a \in Placed /\ b \in Placed
      BY <2>1, <2>4, <3>1 DEF OneActiveOrder
    <3>2. CASE a = o /\ b \in Placed
      BY <2>1, <2>2, <2>4, <2>5, <2>6, <3>2 DEF Alike
    <3>3. CASE b = o /\ a \in Placed
      BY <2>1, <2>2, <2>4, <2>5, <2>6, <3>3 DEF Alike
    <3> QED
      BY <2>1, <3>1, <3>2, <3>3
  <2>8. \/ task'[u].pc = "idle"
        \/ task'[u].pc = "create" /\ task'[u].lead = o /\ task[u].method = "acquiring"
    BY <1>2 DEF ReserveSingle, TypeOK, Idle
  <2>9. ASSUME NEW v \in Users, task'[v].pc = "chosen", NEW q \in Placed', Payable(q)'
        PROVE  ~Alike(q, v, task[v].item, task[v].method, task[v].terms)' /\ v # u
    <3>1. v # u /\ task'[v] = task[v]
      BY <2>3, <2>8, <2>9
    <3> QED
      BY <2>1, <2>4, <2>9, <3>1 DEF ClicksAnswered, Alike
  <2>10. ASSUME NEW v \in Users, task'[v].pc \in Working, ~row'[task'[v].lead].cart,
                NEW q \in Placed', Payable(q)'
         PROVE  ~Alike(q, v, row[task[v].lead].item, row[task[v].lead].method,
                       row[task[v].lead].terms)'
    <3>1. CASE v # u
      <4>1. task'[v] = task[v] /\ task[v].lead \in Placed /\ row'[task[v].lead] = row[task[v].lead]
        BY <2>1, <2>3, <2>10, <3>1 DEF TasksHoldLeads
      <4>2. q = o \/ (q \in Placed /\ Payable(q) /\ row'[q] = row[q])
        BY <2>1, <2>4, <2>10
      <4> QED
        BY <2>1, <2>10, <3>1, <4>1, <4>2 DEF ClicksAnswered, Alike
    <3>2. CASE v = u
      <4>1. task'[v].lead = o /\ task[u].method = "acquiring" /\ q # o
        BY <2>5, <2>8, <2>10, <3>2 DEF Working
      <4>2. q \in Placed /\ Payable(q) /\ row'[q] = row[q] /\ status[q] = "waiting_payment"
        BY <2>1, <2>4, <2>10, <4>1 DEF Payable
      <4>3. row[q].method # "free"
        BY <4>2 DEF FreeIsBought, SUCCESS
      <4> QED
        BY <2>1, <2>2, <2>6, <3>2, <4>1, <4>2, <4>3 DEF Alike
    <3> QED
      BY <3>1, <3>2
  <2> QED
    BY <2>7, <2>9, <2>10 DEF ClicksAnswered
<1>3. ASSUME NEW u \in Users, NEW m \in Methods, NEW t \in Terms, NEW first \in cart[u],
             NEW ids \in [cart[u] -> OrderIds], ReserveCart(u, m, t, ids, first)
      PROVE  OneActiveOrder' /\ ClicksAnswered'
  <2> DEFINE New == Inserted(ids, u)
  <2>1. /\ New \subseteq OrderIds \ Placed /\ ids[first] \in New /\ Placed' = Placed \cup New
        /\ \A q \in Placed : row'[q] = row[q] /\ status'[q] = status[q]
    BY <1>3, ReserveCartEffect
  <2>2. \A q \in New : row'[q].cart
    BY <1>3, ReserveCartRows DEF Inserted
  <2> HIDE DEF New
  <2>3. age' = age /\ url' = url /\ \A v \in Users \ {u} : task'[v] = task[v]
    BY <1>3 DEF ReserveCart, money, TypeOK
  <2>4. \A q \in Placed' : Payable(q)' => q \in Placed /\ Payable(q)
    BY <2>1, <2>2, <2>3 DEF Payable
  <2>5. task'[u].pc # "chosen" /\ (task'[u].pc \in Working => task'[u].lead = ids[first])
    BY <1>3 DEF ReserveCart, TypeOK, Idle, Working
  <2>6. OneActiveOrder'
    BY <2>1, <2>4 DEF OneActiveOrder
  <2>7. \A v \in Users : task'[v].pc = "chosen" =>
          \A q \in Placed' : Payable(q)' => ~Alike(q, v, task[v].item, task[v].method, task[v].terms)'
    BY <2>1, <2>3, <2>4, <2>5 DEF ClicksAnswered, Alike
  <2>8. ASSUME NEW v \in Users, task'[v].pc \in Working, ~row'[task'[v].lead].cart,
               NEW q \in Placed', Payable(q)'
        PROVE  ~Alike(q, v, row[task[v].lead].item, row[task[v].lead].method,
                      row[task[v].lead].terms)'
    <3>1. v # u /\ task'[v] = task[v]
      BY <2>1, <2>2, <2>3, <2>5, <2>8
    <3>2. task[v].lead \in Placed /\ row'[task[v].lead] = row[task[v].lead]
      BY <2>1, <2>8, <3>1 DEF TasksHoldLeads
    <3>3. q \in Placed /\ Payable(q) /\ row'[q] = row[q]
      BY <2>1, <2>4, <2>8
    <3> QED
      BY <2>8, <3>1, <3>2, <3>3 DEF ClicksAnswered, Alike
  <2> QED
    BY <2>6, <2>7, <2>8 DEF ClicksAnswered
<1>4. ASSUME NEW u \in Users, StoreInvoice(u) PROVE OneActiveOrder' /\ ClicksAnswered'
  <2> DEFINE l == task[u].lead
  <2>1. /\ Placed' = Placed /\ UNCHANGED <<row, status, age>>
        /\ url' = [url EXCEPT ![l] = TRUE] /\ task' = [task EXCEPT ![u] = Idle]
        /\ task[u].pc \in Working
    BY <1>4 DEF StoreInvoice, Placed, Working
  <2>2. row[l].user = u
    BY <2>1 DEF TasksHoldLeads
  <2>3. \A q \in Placed : Payable(q)' => Payable(q) \/ (q = l /\ ~row[l].cart)
    BY <2>1 DEF Payable, TypeOK, Placed
  <2>4. \A v \in Users \ {u} : task'[v] = task[v]
    BY <2>1 DEF TypeOK
  <2>5. task'[u].pc = "idle"
    BY <2>1 DEF TypeOK, Idle
  <2>6. ~row[l].cart => \A q \in Placed : Payable(q) =>
                          ~Alike(q, u, row[l].item, row[l].method, row[l].terms)
    BY <2>1 DEF ClicksAnswered
  <2>7. OneActiveOrder'
    BY <2>1, <2>2, <2>3, <2>6 DEF OneActiveOrder, Alike
  <2>8. ClicksAnswered'
    BY <2>1, <2>2, <2>3, <2>4, <2>5 DEF ClicksAnswered, Alike, Working
  <2> QED
    BY <2>7, <2>8
<1> QED
  BY <1>1, <1>2, <1>3, <1>4, Offers, NothingOfferedStep

\* A buyer never has two payable orders for one product under the same terms,
\* however clicks, payments and failures interleave, for every payment method.
THEOREM ActiveOrderIsUnique == Spec => []OneActiveOrder
<1>1. Init => OneActiveOrder /\ ClicksAnswered
  BY DEF Init, OneActiveOrder, ClicksAnswered, Placed, Idle, Working
<1>2. IInv /\ OneActiveOrder /\ ClicksAnswered /\ [Next]_vars => (OneActiveOrder /\ ClicksAnswered)'
  BY ClicksStep
<1> QED
  BY <1>1, <1>2, Invariance, PTL DEF Spec

(***************************************************************************)
(* Orders that wait together.                                              *)
(***************************************************************************)
\* The orders of a checkout that is not paid by acquiring wait together.
WaitTogether ==
  \A o, q \in Placed :
    (row[o].lead = row[q].lead /\ row[o].method # "acquiring" /\ status[o] = "waiting_payment") =>
      status[q] = "waiting_payment"

HeldStatus == SUCCESS \cup {"waiting_payment"}
Holders(p) == {o \in Placed : row[o].item = p /\ status[o] \in HeldStatus}

\* A handler gives up orders that were to be paid by acquiring only.
LEMMA GivesUpAcquiring ==
  ASSUME IInv, NEW u \in Users, PageRefused(u) \/ FailCheckout(u)
  PROVE  \E Q \in SUBSET Placed :
           /\ \A q \in Q : row[q].method = "acquiring"
           /\ \A q \in Placed \ Q : status'[q] = status[q]
           /\ \A p \in Tracked : p \notin ItemsOf(Q) => stock'[p] = stock[p]
<1> USE DEF IInv
<1> DEFINE l == task[u].lead
<1>1. task[u].pc \in Working /\ l \in Placed
  BY DEF PageRefused, FailCheckout, Working, TasksHoldLeads
<1>2. PICK saw \in Statuses : GiveUp(u, saw) /\ (row[l].method = "free" => saw \in SUCCESS)
  <2>1. CASE PageRefused(u)
    BY <1>1, <2>1 DEF PageRefused, FreeIsBought, Placed, TypeOK
  <2>2. CASE FailCheckout(u)
    BY <2>2 DEF FailCheckout, FreeIsBought, TypeOK, Task
  <2> QED
    BY <2>1, <2>2
<1>3. ASSUME NEW q \in GivenUp(u, saw) PROVE q \in Placed /\ row[q].method = "acquiring"
  <2>1. q \in Placed /\ row[q].lead = l
    BY <1>1, <1>3 DEF GivenUp, CheckoutOrders, TasksHoldLeads
  <2>2. row[q].method = row[l].method
    BY <2>1 DEF CheckoutsHaveLeads
  <2>3. row[l].method # "free"
    BY <1>1, <1>2, <1>3 DEF GivenUp, TasksHoldLeads
  <2> QED
    BY <1>1, <2>1, <2>2, <2>3 DEF TasksHoldLeads
<1>4. /\ \A q \in Placed \ GivenUp(u, saw) : status'[q] = status[q]
      /\ \A p \in Tracked : p \notin ItemsOf(GivenUp(u, saw)) => stock'[p] = stock[p]
  BY <1>2 DEF GiveUp, Placed
<1> QED
  BY <1>3, <1>4

LEMMA WaitTogetherStep == IInv /\ WaitTogether /\ [Next]_vars => WaitTogether'
<1> SUFFICES ASSUME IInv, WaitTogether, [Next]_vars PROVE WaitTogether'
  OBVIOUS
<1> USE DEF IInv
<1>1. ASSUME NEW u \in Users, NEW o \in OrderIds, NEW free \in BOOLEAN, ReserveSingle(u, o, free)
      PROVE  WaitTogether'
  BY <1>1, ReserveSingleEffect DEF WaitTogether, CheckoutsHaveLeads
<1>2. ASSUME NEW u \in Users, NEW m \in Methods, NEW t \in Terms, NEW first \in cart[u],
             NEW ids \in [cart[u] -> OrderIds], ReserveCart(u, m, t, ids, first)
      PROVE  WaitTogether'
  <2> DEFINE New == Inserted(ids, u)
  <2>1. /\ New \subseteq OrderIds \ Placed /\ ids[first] \in New /\ Placed' = Placed \cup New
        /\ \A q \in Placed : row'[q] = row[q] /\ status'[q] = status[q]
        /\ \A q \in New : /\ row'[q].lead = ids[first]
                          /\ status'[q] = IF m = "free" THEN "paid" ELSE "waiting_payment"
    BY <1>2, ReserveCartEffect
  <2> HIDE DEF New
  <2>2. \A q \in Placed : row'[q].lead # ids[first]
    BY <2>1 DEF CheckoutsHaveLeads
  <2> QED
    BY <2>1, <2>2 DEF WaitTogether
<1>3. ASSUME NEW x \in Placed, Confirms(x) \/ Releases(x) PROVE WaitTogether'
  <2>1. Placed' = Placed /\ row' = row
    BY <1>3, MarkEffect, ReleaseEffect DEF Confirms, Releases
  <2>2. \A q \in Placed : row[q].lead = row[x].lead => status'[q] # "waiting_payment"
    BY <1>3 DEF Confirms, Releases, MarkCheckoutPaid, ReleaseCheckout, CheckoutOrders, Waiting,
                Placed, SUCCESS
  <2>3. \A q \in Placed : row[q].lead # row[x].lead => status'[q] = status[q]
    BY <1>3 DEF Confirms, Releases, MarkCheckoutPaid, ReleaseCheckout, CheckoutOrders, Waiting,
                Placed
  <2> QED
    BY <2>1, <2>2, <2>3 DEF WaitTogether
<1>4. ASSUME NEW u \in Users, PageRefused(u) \/ FailCheckout(u) PROVE WaitTogether'
  <2>1. Placed' = Placed /\ row' = row
    BY <1>4, GivesUp
  <2>2. \A q \in Placed : row[q].method # "acquiring" => status'[q] = status[q]
    BY <1>4, GivesUpAcquiring
  <2>3. \A o, q \in Placed : row[o].lead = row[q].lead => row[o].method = row[q].method
    BY DEF CheckoutsHaveLeads
  <2> QED
    BY <2>1, <2>2, <2>3 DEF WaitTogether
<1>5. ASSUME NEW o \in OrderIds, Delivers(o) PROVE WaitTogether'
  BY <1>5 DEF Delivers, Deliver, WaitTogether, TypeOK, Placed
<1>6. CASE Rests
  BY <1>6 DEF Rests, WaitTogether, Placed
<1> QED
  BY <1>1, <1>2, <1>3, <1>4, <1>5, <1>6, Steps

(***************************************************************************)
(* Carts.                                                                  *)
(***************************************************************************)
\* Nobody has bought a part of a checkout whose lead order is not bought.
LeadsBought == \A o \in Placed : status[o] \in SUCCESS => status[row[o].lead] \in SUCCESS

LEMMA LeadsBoughtStep == IInv /\ SameCheckout /\ LeadsBought /\ [Next]_vars => LeadsBought'
<1> SUFFICES ASSUME IInv, SameCheckout, LeadsBought, [Next]_vars PROVE LeadsBought'
  OBVIOUS
<1> USE DEF IInv, TypeOK
<1>1. ASSUME NEW u \in Users, NEW o \in OrderIds, NEW free \in BOOLEAN, ReserveSingle(u, o, free)
      PROVE  LeadsBought'
  <2>1. /\ o \notin Placed /\ Placed' = Placed \cup {o} /\ row'[o].lead = o
        /\ \A q \in Placed : row'[q] = row[q] /\ status'[q] = status[q]
    BY <1>1, ReserveSingleEffect
  <2>2. \A q \in Placed : row[q].lead \in Placed
    BY DEF CheckoutsHaveLeads
  <2> QED
    BY <2>1, <2>2 DEF LeadsBought
<1>2. ASSUME NEW u \in Users, NEW m \in Methods, NEW t \in Terms, NEW first \in cart[u],
             NEW ids \in [cart[u] -> OrderIds], ReserveCart(u, m, t, ids, first)
      PROVE  LeadsBought'
  BY <1>2, ReserveCartEffect DEF LeadsBought, CheckoutsHaveLeads
<1>3. ASSUME NEW q \in Placed, Confirms(q) PROVE LeadsBought'
  <2>1. Placed' = Placed /\ row' = row
    BY <1>3, MarkEffect DEF Confirms
  <2>2. \A o \in CheckoutOrders(q) : o \in Placed => status'[o] \in SUCCESS
    BY <1>3 DEF Confirms, MarkCheckoutPaid, SUCCESS, Placed
  <2> SUFFICES ASSUME NEW o \in Placed, status'[o] \in SUCCESS PROVE status'[row[o].lead] \in SUCCESS
    BY <2>1 DEF LeadsBought
  <2>3. row[o].lead \in Placed /\ row[row[o].lead].lead = row[o].lead
    BY DEF CheckoutsHaveLeads
  <2>4. CASE row[o].lead = row[q].lead
    BY <2>2, <2>3, <2>4 DEF CheckoutOrders
  <2>5. CASE row[o].lead # row[q].lead
    BY <1>3, <2>3, <2>5, MarkEffect DEF Confirms, LeadsBought
  <2> QED
    BY <2>4, <2>5
<1>4. ASSUME NEW q \in Placed, Releases(q) PROVE LeadsBought'
  <2>1. /\ Placed' = Placed /\ row' = row
        /\ \A o \in Placed : status[o] # "waiting_payment" => status'[o] = status[o]
        /\ \A o \in Placed : status'[o] \in SUCCESS => status[o] \in SUCCESS
    BY <1>4, ReleaseEffect DEF Releases
  <2> QED
    BY <2>1 DEF LeadsBought, CheckoutsHaveLeads, SUCCESS
<1>5. ASSUME NEW u \in Users, PageRefused(u) \/ FailCheckout(u) PROVE LeadsBought'
  <2> DEFINE l == task[u].lead
  <2>1. /\ l \in Placed /\ row[l].lead = l
        /\ Placed' = Placed /\ row' = row
        /\ \A o \in Placed : status'[o] \in SUCCESS => status[o] \in SUCCESS
    BY <1>5, GivesUp DEF PageRefused, FailCheckout, Working, TasksHoldLeads
  <2>2. PICK saw \in Statuses : GiveUp(u, saw)
    BY <1>5, <2>1 DEF PageRefused, FailCheckout, Placed, Task
  <2> SUFFICES ASSUME NEW o \in Placed, status'[o] \in SUCCESS PROVE status'[row[o].lead] \in SUCCESS
    BY <2>1 DEF LeadsBought
  <2>3. status[o] \in SUCCESS /\ status[row[o].lead] \in SUCCESS /\ row[o].lead \in Placed
    BY <2>1 DEF LeadsBought, CheckoutsHaveLeads
  <2>4. o \notin GivenUp(u, saw) \/ (o = l /\ saw = "payment_failed")
    BY <2>2 DEF GiveUp, SUCCESS, Placed
  <2>5. row[o].lead \notin GivenUp(u, saw) \/ (row[o].lead = l /\ saw = "payment_failed")
    <3> SUFFICES ASSUME row[o].lead \in GivenUp(u, saw)
                 PROVE  row[o].lead = l /\ saw = "payment_failed"
      OBVIOUS
    <3>1. row[o].lead = l
      BY <2>1 DEF GivenUp, CheckoutOrders, CheckoutsHaveLeads
    <3>2. CASE row[l].cart
      <4>1. saw = "waiting_payment"
        BY <3>1, <3>2 DEF GivenUp
      <4>2. o \in GivenUp(u, saw)
        BY <2>1, <3>1, <3>2, <4>1 DEF GivenUp, CheckoutOrders
      <4> QED
        BY <2>4, <3>1, <4>1, <4>2
    <3>3. CASE ~row[l].cart
      <4>1. row[l].cart = row[o].cart /\ (~row[o].cart => l = o)
        BY <3>1 DEF SameCheckout
      <4>2. o = l
        BY <3>3, <4>1
      <4> QED
        BY <2>4, <3>1, <4>2
    <3> QED
      BY <3>2, <3>3
  <2> QED
    BY <2>2, <2>3, <2>5 DEF GiveUp, Placed
<1>6. ASSUME NEW q \in OrderIds, Delivers(q) PROVE LeadsBought'
  <2>1. \A o \in OrderIds : (status'[o] \in SUCCESS) = (status[o] \in SUCCESS)
    BY <1>6 DEF Delivers, Deliver, SUCCESS, Placed
  <2>2. Placed' = Placed /\ row' = row
    BY <1>6 DEF Delivers, Deliver, Placed
  <2> QED
    BY <2>1, <2>2 DEF LeadsBought, CheckoutsHaveLeads, Placed
<1>7. Rests => LeadsBought'
  BY DEF Rests, LeadsBought, Placed
<1> QED
  BY <1>1, <1>2, <1>3, <1>4, <1>5, <1>6, <1>7, Steps

\* Who changes carts.
LEMMA CartSteps ==
  ASSUME IInv, [Next]_vars
  PROVE  \/ cart' = cart
         \/ \E u \in Users, p \in Products : AddToCart(u, p) \/ RemoveFromCart(u, p)
         \/ \E u \in Users, m \in Methods, t \in Terms : \E first \in cart[u] :
              \E ids \in [cart[u] -> OrderIds] : ReserveCart(u, m, t, ids, first)
         \/ \E o \in Placed : Confirms(o)
<1> DEFINE Goal ==
             \/ cart' = cart
             \/ \E u \in Users, p \in Products : AddToCart(u, p) \/ RemoveFromCart(u, p)
             \/ \E u \in Users, m \in Methods, t \in Terms : \E first \in cart[u] :
                  \E ids \in [cart[u] -> OrderIds] : ReserveCart(u, m, t, ids, first)
             \/ \E o \in Placed : Confirms(o)
<1>1. ASSUME NEW u \in Users, BuyerStep(u) PROVE Goal
  <2>1. CASE \E p \in Products : AddToCart(u, p) \/ RemoveFromCart(u, p)
    BY <2>1
  <2>2. CASE \E m \in Methods, t \in Terms, first \in cart[u] :
               \E ids \in [cart[u] -> OrderIds] : ReserveCart(u, m, t, ids, first)
    BY <2>2
  <2>3. CASE \/ \E p \in Products, m \in Methods, t \in Terms : BeginCheckout(u, p, m, t)
             \/ \E o \in OrderIds, free \in BOOLEAN : ReserveSingle(u, o, free)
             \/ \E o \in OrderIds : BuyerCancels(u, o)
    BY <2>3 DEF BeginCheckout, ReserveSingle, BuyerCancels, ReleaseCheckout
  <2>4. CASE \/ RefuseCheckout(u) \/ InvoiceRefused(u) \/ StoreInvoice(u) \/ RefreshOrder(u)
             \/ PageRefused(u) \/ FailCheckout(u) \/ \E f \in Flaws : InvoiceCreated(u, f)
    BY <2>4 DEF RefuseCheckout, InvoiceRefused, StoreInvoice, RefreshOrder, PageRefused, FailCheckout,
                InvoiceCreated
  <2> QED
    BY <1>1, <2>1, <2>2, <2>3, <2>4 DEF BuyerStep
<1>2. ASSUME NEW e \in sent, NEW c \in {"hook", "poll"}, Payment(c, e), UNCHANGED <<row, age, task, url>>
      PROVE  Goal
  <2>1. e.order \in Placed /\ (Confirms(e.order) \/ Releases(e.order) \/ Rests)
    BY <1>2, PaymentMoves
  <2>2. CASE MarkCheckoutPaid(e.order) /\ status[e.order] \notin SUCCESS /\ Counts(e)
    <3>1. Payment(c, e) /\ Counts(e) /\ status[e.order] \notin SUCCESS
      BY <1>2, <2>2
    <3>2. Releases(e.order) \/ Rests => \A q \in OrderIds : status'[q] \in SUCCESS => status[q] \in SUCCESS
      BY DEF Releases, ReleaseCheckout, Rests, SUCCESS
    <3>3. status'[e.order] \in SUCCESS
      BY <2>1, <2>2 DEF MarkCheckoutPaid, CheckoutOrders, Placed, SUCCESS
    <3>4. e.order \in OrderIds
      BY <2>1 DEF Placed
    <3> QED
      BY <2>1, <3>1, <3>2, <3>3, <3>4
  <2>3. CASE ReleaseCheckout(e.order, "payment_failed")
    BY <2>3 DEF ReleaseCheckout
  <2> QED
    BY <1>2, <2>2, <2>3 DEF Payment
<1>3. ASSUME NEW e \in sent, Webhook(e) PROVE Goal
  BY <1>2, <1>3 DEF Webhook
<1>4. ASSUME NEW o \in OrderIds, ApplyAnswer(o) PROVE Goal
  <2>1. answer \in sent
    BY <1>4 DEF ApplyAnswer, IInv, InvoicesExist
  <2> QED
    BY <1>2, <1>4, <2>1 DEF ApplyAnswer
<1>5. ASSUME NEW o \in OrderIds, ConfirmTransfer(o) PROVE Goal
  BY <1>5 DEF ConfirmTransfer, Confirms, Warranted, money, SUCCESS
<1>6. ASSUME NEW o \in OrderIds,
             \/ Deliver(o) \/ Ask(o) \/ PollFails(o) \/ TimePasses(o)
             \/ \E s \in InvoiceStatus, d \in 0..MaxDate, f \in Flaws : ProviderMoves(o, s, d, f)
      PROVE  Goal
  BY <1>6 DEF Deliver, Ask, PollFails, TimePasses, ProviderMoves
<1>7. CASE StartReconcile \/ Crash \/ UNCHANGED vars
  BY <1>7 DEF StartReconcile, Crash, vars
<1> QED
  BY <1>1, <1>3, <1>4, <1>5, <1>6, <1>7 DEF Next

\* A product leaves a cart by its owner's hand or in the step that buys it, however
\* often the events that pay the checkout are told.
THEOREM CartsAreKept == Spec => CartKept
<1>1. ASSUME IInv, SameCheckout, WaitTogether, LeadsBought, [Next]_vars, NEW u \in Users, NEW p \in cart[u] \ cart'[u]
      PROVE  RemoveFromCart(u, p) \/ \E o \in OrderIds : BuysFromCart(o, u, p)
  <2> USE <1>1
  <2>1. ASSUME NEW v \in Users, NEW q \in Products, AddToCart(v, q) \/ RemoveFromCart(v, q)
        PROVE  RemoveFromCart(u, p)
    BY <2>1 DEF AddToCart, RemoveFromCart, IInv, TypeOK
  <2>2. ASSUME NEW v \in Users, NEW m \in Methods, NEW t \in Terms, NEW first \in cart[v],
               NEW ids \in [cart[v] -> OrderIds], ReserveCart(v, m, t, ids, first)
        PROVE  \E o \in OrderIds : BuysFromCart(o, u, p)
    <3>1. v = u /\ m = "free" /\ p \in cart[u]
      BY <2>2 DEF ReserveCart, IInv, TypeOK
    <3>2. ids[p] \in Inserted(ids, v)
      BY <3>1 DEF Inserted
    <3>3. /\ ids[p] \in OrderIds \ Placed /\ row'[ids[p]].user = u /\ status'[ids[p]] = "paid"
          /\ row'[ids[p]].item = p /\ row'[ids[p]].cart /\ ids[p] \in Placed'
      BY <2>2, <3>1, <3>2, ReserveCartEffect, ReserveCartRows
    <3> QED
      BY <3>3 DEF BuysFromCart, SUCCESS, Placed
  <2>3. ASSUME NEW q \in Placed, Confirms(q) PROVE \E o \in OrderIds : BuysFromCart(o, u, p)
    <3>1. row[q].cart /\ row[q].user = u /\ \E o \in CheckoutOrders(q) : row[o].item = p
      BY <2>3 DEF Confirms, MarkCheckoutPaid, IInv, TypeOK
    <3>2. PICK o \in CheckoutOrders(q) : row[o].item = p
      BY <3>1
    <3>3. o \in Placed /\ row[o].user = u /\ row[o].cart /\ row[o].lead = row[q].lead
      BY <3>1, <3>2 DEF CheckoutOrders, SameCheckout
    <3>4. status'[o] \in SUCCESS
      BY <2>3, <3>2, <3>3 DEF Confirms, MarkCheckoutPaid, SUCCESS, Placed
    <3>5. status[o] \notin SUCCESS
      <4>1. CASE row[q].method = "acquiring"
        BY <2>3, <3>3, <4>1 DEF Confirms, Warranted, LeadsBought
      <4>2. CASE row[q].method # "acquiring"
        <5>1. status[q] = "waiting_payment" /\ row[o].method = row[q].method
          BY <2>3, <3>3, <4>2 DEF Confirms, Warranted, IInv, CheckoutsHaveLeads
        <5> QED
          BY <3>3, <4>2, <5>1 DEF WaitTogether, SUCCESS
      <4> QED
        BY <4>1, <4>2
    <3>6. row' = row
      BY <2>3 DEF Confirms
    <3> QED
      BY <3>2, <3>3, <3>4, <3>5, <3>6 DEF BuysFromCart, Placed
  <2> QED
    BY <2>1, <2>2, <2>3, CartSteps
<1>2. IInv /\ SameCheckout /\ WaitTogether /\ LeadsBought /\ [Next]_vars =>
        [\A u \in Users : \A p \in cart[u] \ cart'[u] :
           RemoveFromCart(u, p) \/ \E o \in OrderIds : BuysFromCart(o, u, p)]_vars
  BY <1>1
<1>3. Init => WaitTogether /\ LeadsBought
  BY DEF Init, WaitTogether, LeadsBought, Placed
<1> QED
  BY <1>2, <1>3, WaitTogetherStep, LeadsBoughtStep, CheckoutsAreOne, PTL DEF Spec, CartKept

(***************************************************************************)
(* Units of stock.                                                         *)
(***************************************************************************)
\* What Held counts, and what one order more or less means for it.
LEMMA HeldCounts ==
  ASSUME NEW p
  PROVE  IsFiniteSet(Holders(p)) /\ Held(p) = Cardinality(Holders(p)) /\ Held(p) \in Nat
<1>1. Holders(p) \subseteq OrderIds
  BY DEF Holders, Placed
<1>2. IsFiniteSet(Holders(p))
  BY <1>1, FS_Subset, ShopAssumption
<1>3. Held(p) = Cardinality(Holders(p))
  BY DEF Held, Holders, HeldStatus
<1> QED
  BY <1>2, <1>3, FS_CardinalityType

LEMMA HeldKept ==
  ASSUME NEW p, Holders(p)' = Holders(p)
  PROVE  Held(p)' = Held(p)
<1>1. Held(p) = Cardinality(Holders(p))
  BY HeldCounts
<1>2. Held(p)' = Cardinality(Holders(p)')
  BY DEF Held, Holders, HeldStatus
<1> QED
  BY <1>1, <1>2

LEMMA HeldMore ==
  ASSUME NEW p, NEW o, o \notin Holders(p), Holders(p)' = Holders(p) \cup {o}
  PROVE  Held(p)' = Held(p) + 1
<1>1. Held(p) = Cardinality(Holders(p)) /\ IsFiniteSet(Holders(p))
  BY HeldCounts
<1>2. Held(p)' = Cardinality(Holders(p)')
  BY DEF Held, Holders, HeldStatus
<1>3. Cardinality(Holders(p) \cup {o}) = Cardinality(Holders(p)) + 1
  BY <1>1, FS_AddElement
<1> QED
  BY <1>1, <1>2, <1>3

LEMMA HeldLess ==
  ASSUME NEW p, NEW o, o \in Holders(p), Holders(p)' = Holders(p) \ {o}
  PROVE  Held(p)' = Held(p) - 1
<1>1. Held(p) = Cardinality(Holders(p)) /\ IsFiniteSet(Holders(p))
  BY HeldCounts
<1>2. Held(p)' = Cardinality(Holders(p)')
  BY DEF Held, Holders, HeldStatus
<1>3. Cardinality(Holders(p) \ {o}) = Cardinality(Holders(p)) - 1
  BY <1>1, FS_RemoveElement
<1> QED
  BY <1>1, <1>2, <1>3

\* One product over one step: its stock and its holders change together.
LEMMA UnitsStep ==
  ASSUME IInv, SameCheckout, WaitTogether, [Next]_vars,
         NEW p \in Tracked, SoldByCart(p)', stock[p] + Held(p) = InitStock[p]
  PROVE  stock'[p] + Held(p)' = InitStock[p]
<1> USE DEF IInv
<1> DEFINE Goal == stock'[p] + Held(p)' = InitStock[p]
<1>0. /\ stock[p] \in Int /\ Held(p) \in Nat
      /\ (stock'[p] = stock[p] /\ Holders(p)' = Holders(p)) => Goal
  BY HeldCounts, HeldKept DEF TypeOK
<1>1. ASSUME NEW u \in Users, NEW o \in OrderIds, NEW free \in BOOLEAN, ReserveSingle(u, o, free)
      PROVE  Goal
  <2>1. /\ o \notin Placed /\ Placed' = Placed \cup {o} /\ ~row'[o].cart
        /\ \A q \in Placed : row'[q] = row[q] /\ status'[q] = status[q]
    BY <1>1, ReserveSingleEffect
  <2>2. row'[o].item # p
    BY <2>1 DEF SoldByCart
  <2>3. Holders(p)' = Holders(p)
    BY <2>1, <2>2 DEF Holders, HeldStatus, SUCCESS
  <2>4. row'[o].item = task[u].item
    BY <1>1 DEF ReserveSingle, TypeOK
  <2>5. stock'[p] = stock[p]
    BY <1>1, <2>2, <2>4 DEF ReserveSingle
  <2> QED
    BY <1>0, <2>3, <2>5
<1>2. ASSUME NEW u \in Users, NEW m \in Methods, NEW t \in Terms, NEW first \in cart[u],
             NEW ids \in [cart[u] -> OrderIds], ReserveCart(u, m, t, ids, first)
      PROVE  Goal
  <2> DEFINE New == Inserted(ids, u)
  <2>1. /\ New \subseteq OrderIds \ Placed /\ Placed' = Placed \cup New
        /\ \A q \in Placed : row'[q] = row[q] /\ status'[q] = status[q]
        /\ \A q \in New : status'[q] \in HeldStatus
    BY <1>2, ReserveCartEffect DEF HeldStatus, SUCCESS
  <2>2. \A q \in cart[u] : row'[ids[q]].item = q
    BY <1>2, ReserveCartRows
  <2>3. CASE p \in cart[u]
    <3>1. ids[p] \in New /\ \A q \in New : row'[q].item = p => q = ids[p]
      BY <2>2, <2>3 DEF Inserted
    <3> HIDE DEF New
    <3>2. Holders(p)' = Holders(p) \cup {ids[p]} /\ ids[p] \notin Holders(p)
      BY <2>1, <2>2, <2>3, <3>1 DEF Holders, HeldStatus, SUCCESS
    <3>3. Held(p)' = Held(p) + 1
      BY <3>2, HeldMore
    <3>4. stock'[p] = stock[p] - 1
      BY <1>2, <2>3 DEF ReserveCart
    <3> QED
      BY <1>0, <3>3, <3>4
  <2>4. CASE p \notin cart[u]
    <3>1. \A q \in New : row'[q].item # p
      BY <2>2, <2>4 DEF Inserted
    <3> HIDE DEF New
    <3>2. Holders(p)' = Holders(p)
      BY <2>1, <3>1 DEF Holders, HeldStatus, SUCCESS
    <3>3. stock'[p] = stock[p]
      BY <1>2, <2>4 DEF ReserveCart
    <3> QED
      BY <1>0, <3>2, <3>3
  <2> QED
    BY <2>3, <2>4
<1>3. ASSUME NEW x \in Placed, Confirms(x) PROVE Goal
  <2>1. Placed' = Placed /\ row' = row /\ stock' = stock
    BY <1>3, MarkEffect DEF Confirms
  <2>2. ASSUME NEW q \in Placed, row[q].item = p
        PROVE  status'[q] \in HeldStatus <=> status[q] \in HeldStatus
    <3>1. CASE q \in CheckoutOrders(x)
      <4>1. row[q].method # "acquiring"
        BY <2>1, <2>2 DEF SoldByCart
      <4>2. row[x].method = row[q].method /\ row[q].lead = row[x].lead
        BY <3>1 DEF CheckoutsHaveLeads, CheckoutOrders
      <4>3. status[x] = "waiting_payment"
        BY <1>3, <4>1, <4>2 DEF Confirms, Warranted, InvoicesExist
      <4>4. status[q] = "waiting_payment"
        BY <4>1, <4>2, <4>3 DEF WaitTogether
      <4>5. status'[q] = "paid"
        BY <1>3, <3>1, <4>4 DEF Confirms, MarkCheckoutPaid, SUCCESS, Placed
      <4> QED
        BY <4>4, <4>5 DEF HeldStatus, SUCCESS
    <3>2. CASE q \notin CheckoutOrders(x)
      BY <1>3, <3>2 DEF Confirms, MarkCheckoutPaid, Placed
    <3> QED
      BY <3>1, <3>2
  <2>3. Holders(p)' = Holders(p)
    BY <2>1, <2>2 DEF Holders, HeldStatus, SUCCESS
  <2> QED
    BY <1>0, <2>1, <2>3
<1>4. ASSUME NEW x \in Placed, Releases(x) PROVE Goal
  <2> DEFINE Freed == Waiting(CheckoutOrders(x))
  <2>1. Placed' = Placed /\ row' = row
    BY <1>4, ReleaseEffect DEF Releases
  <2>2. /\ \A q \in Freed : q \in Placed /\ status[q] = "waiting_payment" /\ status'[q] \notin HeldStatus
        /\ \A q \in Placed \ Freed : status'[q] = status[q]
    BY <1>4 DEF Releases, ReleaseCheckout, Waiting, CheckoutOrders, Placed, HeldStatus, SUCCESS
  <2>3. stock'[p] = IF p \in ItemsOf(Freed) THEN stock[p] + 1 ELSE stock[p]
    BY <1>4 DEF Releases, ReleaseCheckout
  <2>4. \A a, b \in Freed : row[a].item = row[b].item => a = b
    BY DEF Waiting, CheckoutOrders, SameCheckout
  <2>5. p \in ItemsOf(Freed) <=> \E q \in Freed : row[q].item = p
    BY DEF ItemsOf
  <2> HIDE DEF Freed
  <2>6. CASE p \in ItemsOf(Freed)
    <3>1. PICK q \in Freed : row[q].item = p
      BY <2>5, <2>6
    <3>2. q \in Holders(p) /\ Holders(p)' = Holders(p) \ {q}
      BY <2>1, <2>2, <2>4, <3>1 DEF Holders, HeldStatus, SUCCESS
    <3>3. Held(p)' = Held(p) - 1
      BY <3>2, HeldLess
    <3> QED
      BY <1>0, <2>3, <2>6, <3>3
  <2>7. CASE p \notin ItemsOf(Freed)
    <3>1. Holders(p)' = Holders(p)
      BY <2>1, <2>2, <2>5, <2>7 DEF Holders, HeldStatus, SUCCESS
    <3> QED
      BY <1>0, <2>3, <2>7, <3>1
  <2> QED
    BY <2>6, <2>7
<1>5. ASSUME NEW u \in Users, PageRefused(u) \/ FailCheckout(u) PROVE Goal
  <2>1. Placed' = Placed /\ row' = row
    BY <1>5, GivesUp
  <2>2. PICK Q \in SUBSET Placed :
          /\ \A q \in Q : row[q].method = "acquiring"
          /\ \A q \in Placed \ Q : status'[q] = status[q]
          /\ p \notin ItemsOf(Q) => stock'[p] = stock[p]
    BY <1>5, GivesUpAcquiring
  <2>3. \A q \in Q : row[q].item # p
    BY <2>1, <2>2 DEF SoldByCart
  <2>4. Holders(p)' = Holders(p)
    BY <2>1, <2>2, <2>3 DEF Holders, HeldStatus, SUCCESS
  <2> QED
    BY <1>0, <2>2, <2>3, <2>4 DEF ItemsOf
<1>6. ASSUME NEW o \in OrderIds, Delivers(o) PROVE Goal
  <2>1. /\ Placed' = Placed /\ row' = row /\ stock' = stock
        /\ \A q \in Placed : status'[q] \in HeldStatus <=> status[q] \in HeldStatus
    BY <1>6 DEF Delivers, Deliver, TypeOK, Placed, HeldStatus, SUCCESS
  <2>2. Holders(p)' = Holders(p)
    BY <2>1 DEF Holders, HeldStatus, SUCCESS
  <2> QED
    BY <1>0, <2>1, <2>2
<1>7. CASE Rests
  <2>1. Holders(p)' = Holders(p) /\ stock'[p] = stock[p]
    BY <1>7 DEF Rests, Holders, Placed, HeldStatus, SUCCESS
  <2> QED
    BY <1>0, <2>1
<1> QED
  BY <1>1, <1>2, <1>3, <1>4, <1>5, <1>6, <1>7, Steps

UnitsInv == IInv /\ SameCheckout /\ WaitTogether /\ StockConserved

LEMMA UnitsInvariant == Spec => []UnitsInv
<1>1. Init => UnitsInv
  <2> SUFFICES ASSUME Init PROVE UnitsInv
    OBVIOUS
  <2>1. Placed = {}
    BY DEF Init, Placed
  <2>2. \A p \in Tracked : Held(p) = 0
    <3>1. \A p : Holders(p) = {}
      BY <2>1 DEF Holders
    <3> QED
      BY <3>1, HeldCounts, FS_EmptySet
  <2>3. StockConserved
    BY <2>2, ShopAssumption DEF Init, StockConserved
  <2> QED
    BY <2>1, <2>3, InvInit DEF UnitsInv, SameCheckout, WaitTogether
<1>2. UnitsInv /\ [Next]_vars => UnitsInv'
  <2> SUFFICES ASSUME UnitsInv, [Next]_vars PROVE UnitsInv'
    OBVIOUS
  <2>1. IInv' /\ SameCheckout' /\ WaitTogether'
    BY InvStep, SameCheckoutStep, WaitTogetherStep DEF UnitsInv
  <2>2. \A o \in Placed : o \in Placed' /\ row'[o] = row[o]
    BY RowsKept, ReserveSingleEffect, ReserveCartEffect DEF UnitsInv
  <2>3. ASSUME NEW p \in Tracked, SoldByCart(p)' PROVE stock'[p] + Held(p)' = InitStock[p]
    <3>1. SoldByCart(p)
      BY <2>2, <2>3 DEF SoldByCart
    <3>2. stock[p] + Held(p) = InitStock[p]
      BY <3>1 DEF UnitsInv, StockConserved
    <3> QED
      BY <2>3, <3>2, UnitsStep DEF UnitsInv
  <2> QED
    BY <2>1, <2>3 DEF UnitsInv, StockConserved
<1> QED
  BY <1>1, <1>2, PTL DEF Spec

\* For every product all of whose orders were placed from carts and not by
\* acquiring, no unit is ever lost or sold twice.
THEOREM StockIsConserved == Spec => []StockConserved
  BY UnitsInvariant, PTL DEF UnitsInv

(***************************************************************************)
(* Transfers implement PaymentPromise.                                     *)
(***************************************************************************)
Stages == [o \in OrderIds |-> TransferState(o)]
Confirmed == [l \in OrderIds |-> {o \in OrderIds : TransferState(o) = "paid" /\ row[o].lead = l}]

ByTransfer(o) == row[o].method \in {"personal", "receipt"}

\* The stage of an order that is paid otherwise, and of one paid by transfer.
LEMMA StageOf ==
  ASSUME NEW o \in OrderIds
  PROVE  /\ o \notin Placed => TransferState(o) = "absent"
         /\ ~ByTransfer(o) => TransferState(o) = "absent"
         /\ (o \in Placed /\ ByTransfer(o)) =>
              /\ status[o] = "waiting_payment" <=> TransferState(o) = "waiting_payment"
              /\ status[o] \in SUCCESS <=> TransferState(o) = "paid"
              /\ status[o] \notin SUCCESS \cup {"waiting_payment"} <=> TransferState(o) = "cancelled"
BY DEF TransferState, ByTransfer, SUCCESS

\* A step that keeps the stage of every order changes nothing in the promise.
LEMMA StagesKept ==
  ASSUME \A o \in OrderIds : TransferState(o)' = TransferState(o),
         \A o \in Placed : row'[o] = row[o]
  PROVE  Stages' = Stages /\ Confirmed' = Confirmed
<1>1. \A o \in OrderIds : TransferState(o) = "paid" => o \in Placed
  BY DEF TransferState
<1>2. \A l \in OrderIds : {o \in OrderIds : TransferState(o)' = "paid" /\ row'[o].lead = l}
                            = {o \in OrderIds : TransferState(o) = "paid" /\ row[o].lead = l}
  BY <1>1
<1> QED
  BY <1>2 DEF Stages, Confirmed

\* A step of orders is one of the promise: orders that take a stage change it.
LEMMA SettlesOrders ==
  ASSUME NEW Q \in SUBSET OrderIds,
         Transfers!Open(Q) \/ Transfers!Close(Q) \/ \E l \in OrderIds : Transfers!Buy(Q, l)
  PROVE  Transfers!PromiseNext
<1>1. Transfers!Become(Q, "absent", "waiting_payment") \/ Transfers!Become(Q, "waiting_payment", "cancelled")
        \/ Transfers!Become(Q, "waiting_payment", "paid")
  BY DEF Transfers!Open, Transfers!Close, Transfers!Buy
<1>2. Stages' # Stages
  BY <1>1 DEF Transfers!Become, Stages
<1> QED
  BY <1>2 DEF Transfers!PromiseNext, Stages

\* Orders that take a stage together, none of them becoming paid.
LEMMA StagesMove ==
  ASSUME NEW Q \in SUBSET OrderIds, NEW from \in {"absent", "waiting_payment"},
         NEW to \in {"waiting_payment", "cancelled"},
         <<from, to>> \in {<<"absent", "waiting_payment">>, <<"waiting_payment", "cancelled">>},
         \A q \in Q : TransferState(q) = from /\ TransferState(q)' = to,
         \A o \in OrderIds \ Q : TransferState(o)' = TransferState(o),
         \A o \in Placed : row'[o] = row[o]
  PROVE  Transfers!PromiseNext \/ (Stages' = Stages /\ Confirmed' = Confirmed)
<1>1. CASE Q = {}
  BY <1>1, StagesKept
<1>2. CASE Q # {}
  <2>1. Transfers!Become(Q, from, to)
    BY <1>2 DEF Transfers!Become
  <2>2. \A o \in OrderIds : TransferState(o)' = "paid" <=> TransferState(o) = "paid"
    OBVIOUS
  <2>3. \A o \in OrderIds : TransferState(o) = "paid" => o \in Placed
    BY DEF TransferState
  <2>4. \A l \in OrderIds : {o \in OrderIds : TransferState(o)' = "paid" /\ row'[o].lead = l}
                              = {o \in OrderIds : TransferState(o) = "paid" /\ row[o].lead = l}
    BY <2>2, <2>3
  <2>5. Transfers!Open(Q) \/ Transfers!Close(Q)
    BY <2>1, <2>4 DEF Transfers!Open, Transfers!Close
  <2> QED
    BY <2>5, SettlesOrders
<1> QED
  BY <1>1, <1>2

\* A transfer buys its whole checkout, which has waited until then.
LEMMA CheckoutBought ==
  ASSUME IInv, WaitTogether, NEW x \in Placed, Confirms(x), ByTransfer(x)
  PROVE  Transfers!PromiseNext
<1> USE DEF IInv
<1>1. PICK l \in OrderIds : l = row[x].lead
  BY DEF CheckoutsHaveLeads, Placed
<1>2. PICK Q \in SUBSET OrderIds : Q = CheckoutOrders(x)
  BY DEF CheckoutOrders, Placed
<1>3. /\ x \in Q /\ Q \subseteq Placed
      /\ \A q \in Placed : q \in Q <=> row[q].lead = l
      /\ \A q \in Q : ByTransfer(q)
  BY <1>1, <1>2 DEF CheckoutOrders, CheckoutsHaveLeads, ByTransfer
<1>4. \A q \in Q : status[q] = "waiting_payment"
  <2>1. status[x] = "waiting_payment" /\ row[x].method # "acquiring"
    BY DEF Confirms, Warranted, ByTransfer
  <2> QED
    BY <1>1, <1>3, <2>1 DEF WaitTogether
<1>5. /\ Placed' = Placed /\ row' = row
      /\ \A q \in OrderIds : status'[q] = IF q \in Q THEN "paid" ELSE status[q]
  <2>1. Placed' = Placed /\ row' = row
    BY MarkEffect DEF Confirms
  <2>2. \A q \in OrderIds : status'[q] = IF q \in Q /\ status[q] \notin SUCCESS THEN "paid" ELSE status[q]
    BY <1>2 DEF Confirms, MarkCheckoutPaid
  <2> QED
    BY <1>4, <2>1, <2>2 DEF SUCCESS
<1>6. \A q \in Q : TransferState(q) = "waiting_payment" /\ TransferState(q)' = "paid"
  <2>1. \A q \in Q : TransferState(q) = "waiting_payment"
    BY <1>3, <1>4, StageOf
  <2>2. \A q \in Q : TransferState(q)' = "paid"
    BY <1>3, <1>5 DEF TransferState, ByTransfer, SUCCESS
  <2> QED
    BY <2>1, <2>2
<1>7. \A o \in OrderIds \ Q : TransferState(o)' = TransferState(o)
  BY <1>5 DEF TransferState
<1>8. Transfers!Become(Q, "waiting_payment", "paid")
  BY <1>3, <1>6, <1>7 DEF Transfers!Become
<1>9. \A k \in OrderIds : {o \in OrderIds : TransferState(o)' = "paid" /\ row'[o].lead = k}
            = IF k = l THEN Q ELSE {o \in OrderIds : TransferState(o) = "paid" /\ row[o].lead = k}
  <2>1. \A o \in OrderIds : TransferState(o) = "paid" \/ TransferState(o)' = "paid" => o \in Placed
    BY <1>5 DEF TransferState
  <2>2. \A o \in OrderIds : TransferState(o)' = "paid" /\ row'[o].lead = l <=> o \in Q
    BY <1>3, <1>5, <1>6, <1>7, <2>1
  <2>3. \A o \in OrderIds : row[o].lead # l /\ TransferState(o)' = "paid" => TransferState(o) = "paid"
    BY <1>3, <1>7, <2>1
  <2>4. \A o \in OrderIds : TransferState(o) = "paid" => TransferState(o)' = "paid"
    BY <1>6, <1>7
  <2> QED
    BY <1>5, <2>2, <2>3, <2>4
<1>10. {o \in OrderIds : TransferState(o) = "paid" /\ row[o].lead = l} = {}
  <2>1. \A o \in OrderIds : TransferState(o) = "paid" => o \in Placed
    BY DEF TransferState
  <2> QED
    BY <1>3, <1>6, <2>1
<1>11. Transfers!Accept(l, Q)
  BY <1>9, <1>10 DEF Transfers!Accept
<1> QED
  BY <1>1, <1>8, <1>11, SettlesOrders DEF Transfers!Buy

\* Every step of the handlers is one of the promise, or changes nothing in it.
LEMMA TransferStep == UnitsInv /\ [Next]_vars => [Transfers!PromiseNext]_(Transfers!promise)
<1> DEFINE Goal == Transfers!PromiseNext \/ (Stages' = Stages /\ Confirmed' = Confirmed)
<1> SUFFICES ASSUME IInv, WaitTogether, [Next]_vars PROVE Goal
  BY DEF UnitsInv, Transfers!promise, Stages, Confirmed
<1> HIDE DEF Goal
<1>0. /\ Placed \subseteq OrderIds
      /\ (/\ \A o \in OrderIds : TransferState(o)' = TransferState(o)
          /\ \A o \in Placed : row'[o] = row[o]) => Goal
  BY StagesKept DEF Placed, Goal
<1>1. ASSUME NEW u \in Users, NEW o \in OrderIds, NEW free \in BOOLEAN, ReserveSingle(u, o, free)
      PROVE  Goal
  <2>1. /\ o \notin Placed /\ Placed' = Placed \cup {o}
        /\ \A q \in Placed : row'[q] = row[q] /\ status'[q] = status[q]
        /\ row'[o].method \in {"personal", "receipt"} => status'[o] = "waiting_payment"
    <3>1. /\ o \notin Placed /\ Placed' = Placed \cup {o}
          /\ \A q \in Placed : row'[q] = row[q] /\ status'[q] = status[q]
          /\ row'[o].method = IF free THEN "free" ELSE task[u].method
          /\ status'[o] = IF free THEN "delivered" ELSE "waiting_payment"
      BY <1>1, ReserveSingleEffect
    <3> QED
      BY <3>1
  <2>2. \A q \in OrderIds \ {o} : TransferState(q)' = TransferState(q)
    BY <2>1 DEF TransferState
  <2>3. TransferState(o) = "absent" /\ TransferState(o)' \in {"absent", "waiting_payment"}
    BY <2>1 DEF TransferState
  <2>4. CASE TransferState(o)' = "absent"
    BY <1>0, <2>1, <2>2, <2>3, <2>4
  <2>5. CASE TransferState(o)' = "waiting_payment"
    <3>1. PICK Q \in SUBSET OrderIds : Q = {o}
      OBVIOUS
    <3> QED
      BY <2>1, <2>2, <2>3, <2>5, <3>1, StagesMove DEF Goal
  <2> QED
    BY <2>3, <2>4, <2>5
<1>2. ASSUME NEW u \in Users, NEW m \in Methods, NEW t \in Terms, NEW first \in cart[u],
             NEW ids \in [cart[u] -> OrderIds], ReserveCart(u, m, t, ids, first)
      PROVE  Goal
  <2>1. PICK Q \in SUBSET OrderIds :
        /\ Q \cap Placed = {} /\ Placed' = Placed \cup Q
        /\ \A q \in Placed : row'[q] = row[q] /\ status'[q] = status[q]
        /\ \A q \in Q : /\ row'[q].method = m
                        /\ status'[q] = IF m = "free" THEN "paid" ELSE "waiting_payment"
    <3>1. Inserted(ids, u) \in SUBSET OrderIds
      BY DEF Inserted
    <3> QED
      BY <1>2, <3>1, ReserveCartEffect
  <2>2. \A q \in OrderIds \ Q : TransferState(q)' = TransferState(q)
    BY <2>1 DEF TransferState
  <2>3. \A q \in Q : TransferState(q) = "absent"
    BY <2>1 DEF TransferState
  <2>4. CASE m \in {"personal", "receipt"}
    <3>1. \A q \in Q : TransferState(q)' = "waiting_payment"
      BY <2>1, <2>4 DEF TransferState
    <3> QED
      BY <2>1, <2>2, <2>3, <3>1, StagesMove DEF Goal
  <2>5. CASE m \notin {"personal", "receipt"}
    <3>1. \A q \in Q : TransferState(q)' = "absent"
      BY <2>1, <2>5 DEF TransferState
    <3> QED
      BY <1>0, <2>1, <2>2, <2>3, <3>1
  <2> QED
    BY <2>4, <2>5
<1>3. ASSUME NEW x \in Placed, Confirms(x) \/ Releases(x) PROVE Goal
  <2>1. /\ Placed' = Placed /\ row' = row
        /\ \A q \in Placed : row[q].lead # row[x].lead => status'[q] = status[q]
    <3>1. Placed' = Placed /\ row' = row
      BY <1>3, MarkEffect, ReleaseEffect DEF Confirms, Releases, IInv
    <3> QED
      BY <1>3, <3>1 DEF Confirms, Releases, MarkCheckoutPaid, ReleaseCheckout, CheckoutOrders,
                        Waiting, Placed
  <2>2. CASE ~ByTransfer(x)
    <3>1. \A q \in Placed : row[q].lead = row[x].lead => ~ByTransfer(q)
      BY <2>2 DEF IInv, CheckoutsHaveLeads, ByTransfer
    <3>2. \A q \in OrderIds : TransferState(q)' = TransferState(q)
      BY <2>1, <3>1 DEF TransferState, ByTransfer
    <3> QED
      BY <1>0, <2>1, <3>2
  <2>3. CASE ByTransfer(x) /\ Confirms(x)
    BY <2>3, CheckoutBought DEF Goal
  <2>4. CASE ByTransfer(x) /\ Releases(x)
    <3>1. PICK Q \in SUBSET OrderIds : Q = Waiting(CheckoutOrders(x))
      BY <1>0 DEF Waiting, CheckoutOrders
    <3>2. PICK to \in {"payment_failed", "cancelled"} :
            \A q \in OrderIds : status'[q] = IF q \in Q THEN to ELSE status[q]
      BY <2>4, <3>1 DEF Releases, ReleaseCheckout
    <3>3. \A q \in Q : q \in Placed /\ ByTransfer(q) /\ status[q] = "waiting_payment"
      BY <2>4, <3>1 DEF Waiting, CheckoutOrders, IInv, CheckoutsHaveLeads, ByTransfer
    <3>4. \A q \in Q : TransferState(q) = "waiting_payment" /\ TransferState(q)' = "cancelled"
      BY <1>0, <2>1, <3>2, <3>3 DEF TransferState, ByTransfer, SUCCESS
    <3>5. \A q \in OrderIds \ Q : TransferState(q)' = TransferState(q)
      BY <2>1, <3>2 DEF TransferState
    <3> QED
      BY <2>1, <3>4, <3>5, StagesMove DEF Goal
  <2> QED
    BY <1>3, <2>2, <2>3, <2>4
<1>4. ASSUME NEW u \in Users, PageRefused(u) \/ FailCheckout(u) PROVE Goal
  <2>1. Placed' = Placed /\ row' = row
    BY <1>4, GivesUp
  <2>2. \A q \in Placed : row[q].method # "acquiring" => status'[q] = status[q]
    BY <1>4, GivesUpAcquiring
  <2>3. \A q \in OrderIds : TransferState(q)' = TransferState(q)
    BY <2>1, <2>2 DEF TransferState
  <2> QED
    BY <1>0, <2>1, <2>3
<1>5. ASSUME NEW o \in OrderIds, Delivers(o) PROVE Goal
  <2>1. /\ status[o] = "paid" /\ row' = row
        /\ \A q \in OrderIds : status'[q] = IF q = o THEN "delivered" ELSE status[q]
    BY <1>5 DEF Delivers, Deliver, IInv, TypeOK
  <2>2. \A q \in OrderIds : TransferState(q)' = TransferState(q)
    BY <2>1 DEF TransferState, Placed, SUCCESS
  <2> QED
    BY <1>0, <2>1, <2>2
<1>6. CASE Rests
  <2>1. row' = row /\ \A q \in OrderIds : TransferState(q)' = TransferState(q)
    BY <1>6 DEF Rests, TransferState, Placed
  <2> QED
    BY <1>0, <2>1
<1> QED
  BY <1>1, <1>2, <1>3, <1>4, <1>5, <1>6, Steps

\* For any buyers, carts and events: the orders of a checkout paid by transfer
\* are placed, paid and given up together, it is confirmed once, and neither a
\* confirmation nor a cancellation that comes late changes it.
THEOREM TransfersKeepPromise == Spec => TransfersPromised
<1>1. Init => Transfers!PromiseInit
  BY DEF Init, Transfers!PromiseInit, TransferState, Placed
<1> QED
  BY <1>1, TransferStep, UnitsInvariant, PTL DEF Spec, TransfersPromised, Transfers!PromiseSpec
=============================================================================
