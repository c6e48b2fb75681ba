# Formal verification of SteamSell

TLA+ models of the Telegram shop in `src/app`, checked with TLC on small
instances and proved with TLAPS for every value of their constants. Line
numbers below are those of the Python files under `src/app`.

## 1. The system

One process runs three things side by side: aiogram's polling loop (buyers and
administrators), FastAPI (Monobank's webhook, `main.py:92`) and one worker task
(`worker.py:246`). They share PostgreSQL at READ COMMITTED with row locks, Redis
(per-user event isolation, `main.py:54`; a checkout lock; a code cooldown) and
the objects `shop` and `bot`. Events of one Telegram user are handled one after
the other; everything else interleaves at every `await`.

| component | state | operations | talks to |
|---|---|---|---|
| orders and stock (`services.py`) | `products.stock_quantity`, `orders`, `cart_items`, `payment_events` | `checkout`, `checkout_cart`, `payment`, `cancel_payment`, `reconcile` | Monobank acquiring; the worker through `orders.status` |
| delivery (`worker.py:29`) | `delivery_claimed_at`, `delivery_uncertain`, `status` | `deliver_one` | Telegram |
| notifications (`worker.py:124`) | `admin_notified` and an uncommitted session | `notify_admin` | Telegram |
| receipts (`bot.py:1660`, `receipts.py`, `admin.py:1424`) | `payment_receipts`, `payment_cards`, the IBAN and the payment mode, the copy of them in an order | submit, analyse, decide, hand to an administrator, change the requisites | DeepSeek, orders |
| personal transfers (`personal.py`) | `payment_events`, paging cursors, a cooldown | `reconcile_personal`, `apply_statement` | Monobank statements, orders |
| promo codes, rewards, referrals, loyalty (`services.py:118-360`) | `promo_codes`, `referrals`, two settings | `valid_promo`, `create_reward_promo`, `ensure_*`, the forms of `admin.py` | orders, the worker's cleanup |
| prices (`services.py:85-107`) | none | `apply_discount`, `price_with_tip`, `payment_total` | orders |
| Steam Guard codes (`services.py:830`, `steam_guard.py`) | `mail_code_requests`, a Redis cooldown, the lock of a user's events | `code`, the wait for a fresh code | Redis, Telegram |
| broadcasts (`worker.py:181`, `admin.py:2824`) | `broadcasts`, marks in `users` | compose, queue, `broadcast_batch`, subscribe and leave | Telegram |
| catalogue (`admin.py:151-293`, `1466-1841`) | `products`, `steam_authenticators`, a draft in Redis | the wizard, its review, edits | Steam Guard codes |
| rest of the administration (`admin.py`) | settings, tokens, roles, levels | forms and switches | all tables |
| presentation (`ui.py`, `i18n.py`), configuration, migrations, deployment | none at run time | | |

What is hard here: a handler keeps a SQLAlchemy session open across a call to
Monobank, and rows already loaded are not reloaded when they are locked later;
signed events are lost, repeated, late and reordered, and arrive by two channels
whose bodies differ; an answer of Monobank or Telegram may be lost after the call
took effect; the process may stop between any two transactions; several
administrators are notified in one transaction. `PROJECT.json` lists every hazard
at its line with the properties that cover it, or the reason why none does.

What makes each component correct:

* orders and stock: stock never negative; units neither lost nor sold twice where
  the code claims so; no access without a matching signed success; a purchase is
  final; no outdated event pays an order; one active order per product and
  terms; the cart loses only what was bought; a paid invoice is noticed.
* delivery: at most one hand-over; delivered only if Telegram took the message; in
  doubt means set aside; every paid order is settled and reported.
* receipts: at most two per order, also when the lock of a buyer's events expires;
  an order is paid through an approved receipt only and not cancelled under a
  receipt that is being looked at; a verdict that comes late changes nothing; a
  decision stands; a repeated purchase goes to an administrator; every receipt is
  decided.
* transfers: one transfer pays at most one order, and only one it matches; an answer
  that comes late pays nothing that is closed; none is missed by paging; the account
  asked is that of the owner's card.
* promos and prices: no code is used beyond its limit; one purchase brings a referral's
  rewards, the first of those that ask for them, and both sides get one; a discount and
  a tip never charge more or less than their percent, rounding apart.
* codes: no more than the product's limit, and no two events of a user at once, while
  messages are prompt; a slow message may cost one code more; a code that arrives has
  lost of its promised life no more than its message took.
* broadcasts: a recipient gets it twice only after a failure; a broadcast that ends
  has tried everybody, and its summary is true; who leaves is left alone; every
  broadcast ends.
* catalogue: the codes of a product are those of the account it hands over; a draft
  becomes one product.

## 2. Modules

`Shop` models the class `Shop` of `services.py` with the cart. Each transaction is
one action; a checkout is `BeginCheckout` (the unlocked read at line 413, kept in
`task[u].snap`), `ReserveSingle` or `ReserveCart`, then `InvoiceCreated` /
`InvoiceRefused`, then `StoreInvoice`, `PageRefused`, or `RefreshOrder` and
`FailCheckout`. `Payment` is the whole of `Shop.payment` and is reached by
`Webhook` and by `ApplyAnswer` (what a reconcile pass asked for at `Ask`). The
provider is external: `prov` is its state of an invoice and `sent` every body it
has ever signed, so `Webhook(e)` for any `e \in sent` covers late, repeated,
reordered and lost calls. `Crash` drops every handler. Prices, tips and promo
codes are one choice of `Terms`; an amount that does not match is a `flaw` of the
event. Receipts and personal transfers appear as `ConfirmTransfer`.

`Delivery` models the worker's hand-over and the notification of administrators,
one action per transaction or call to Telegram; `worker.dirty` holds the marks
`notify_admin` has made in its session and not committed. `DeliveryPromise` is
what it promises, without claims and workers; `Delivery!Promised` states the
refinement, with `State(o)` as the mapping. That the query for orders to deliver passes
over rows another transaction has locked (`skip_locked`, worker.py:40) is left out: such an
order waits for the next round, as one beyond `Batch` does. In `Delivery` the rest of the program
is `Pay` and `CompleteFree`; in `Shop` the worker is `Deliver`.

`Receipts` models a screenshot from `receipt_start` to a decision: `SubmitReceipt`
is the transaction that counts the earlier receipts and inserts one (bot.py:1733),
`AnalysisFails` and `AnalysisEnds` the verdict DeepSeek's answer leads to, `Leave`
the end of the dialogue after it, `AskAdministrator` the buyer's request,
`OfferReceipt` / `EndOffer` the messages to administrators, `Approve` and `Reject`
their decisions (admin.py:1424). `busy` is the Redis isolation of a buyer's
events, which expires while a handler works (`LockExpires`), so two photos may be
handled at once; `recent` stands for the 12-minute rule. The cards, the IBAN and
the payment mode change under all this (`CardAdd`, `CardReplace`, `CardToggle`,
`CardDelete`, `IbanSet`, `PaymentMode`), while an order keeps those of its moment
(`details`). `proven` is history: which receipts the model approved show, by a
definition that is independent of the code's (`ShowsPayment`), a payment of their
order. `ReceiptCheck`, which `Receipts` extends, holds `analyze_receipt` (which
of two answers of the model is judged) and `evaluate_receipt` as operators over
the fields that decide: amounts in kopecks, the last digits of the recipient and
whether the time is within ten minutes.

`PersonalPayment` models `personal.py`: a check is `BeginCheck`, `LookUp`,
`Resolve` (the bank tells the account of a card), `Answer` (one page of the
statement, the newest `Page` entries of the time asked for) and `ApplyStatement`,
each up to the next `await`; `account`, `cursor` and `ready` are what the process
remembers. `TypeCard` resets them before `CommitCard` commits the card. A
transfer is an identifier with a second; which orders its amount would pay is the
relation `Fits`. A second with `Page` transfers or more is left out
(`TransferShows`): the cursor would not pass it.

`Promos` models what a checkout and a purchase do besides: codes and their limits,
the sale, loyalty, the rewards of carts and referrals, the two statements in which
the worker deletes expired codes, and the administrator's forms. A transaction that
holds row locks while others run is a record `tx[k]`, from the step that takes the
locks to the one that commits; what it decided under them is applied at the commit.
A checkout's status is reduced to what counts here (waits, bought, given up, paid
late). A purchase reads the switch of referrals before it locks the referral's row
(services.py:221), and administrators press the switch at any time: `aside` is history,
the purchases that had not asked for the row and were committed while another one held it.
`Pricing`, which it extends, holds the arithmetic, and `FairPrice` says what
it promises without using it.

`SteamCodes` models the request of a code second by second: `Request` (the count
of codes), `Throttled` or `Allowed` (the cooldown), `Wait` (the message with the
time left and the nap of at most three seconds), `Make` (the code is made and
recorded) and `Arrive` or `SendFails`. `FreshWait` is `fresh_code_wait_seconds`
with the fraction of a second as a choice. A message takes any time of the set `Lags`
(aiogram gives up after 60 seconds, main.py:45); one of more than `PROMPT` seconds is
slow. `lock` with its `life` is the isolation
of the user's events; a restart leaves it to an `Orphan`, and it expires under a handler
that is too slow, so that the next event is handled beside it. History says which events
had a `slow` message, how long that of the code `took`, and how many requests of an order
`outlived` the lock.

`Broadcasts` models `broadcast_batch` with one action per call of Telegram and per
commit: `Load` reads a batch, `Deliver`, `Refuse`, `LoseAnswer`, `LoseMessage` and
`Throttle` are Telegram's answers, `Save` is the commit of the progress; between
any two of them users subscribe, leave, bar the bot, come back or are deleted, and
administrators queue the next broadcast or switch the sale, which queues one. Since
admin.py:920 reads the switch without a lock, `SaleToggle` may write what another
administrator has just written, and queue the same news again.
`got`, `steady`, `tried`, `late` and `news` are history.

`Catalogue` models the wizard that adds and edits products, as a dialogue in Redis
that any button, also of an old message, takes on. The commit of its result and the
end of the dialogue are two steps (`Save`, `Clear`), with a restart in between.
Fields whose values decide nothing are folded into one.

`PaymentPromise` is what the shop promises to who pays by a transfer, without
dialogues, banks or carts: a proof (a receipt or a found transfer) pays the orders of
one checkout together and only while they wait, it is accepted once and for good,
and what is bought or closed stays so. Three modules implement it, each with a
mapping of its own: `Receipts` (`Promised`; a proof is an approved receipt),
`PersonalPayment` (`Promised`; a proof is a used transfer) and `Shop`
(`TransfersPromised`; the orders paid by transfer among all others, a proof being the
confirmation of a checkout, named by its lead order). A step of the first two is an
order alone, one of `Shop` a whole cart; that an administrator approves a receipt too
late (`TooLate`) happens in `Receipts` only.

So the modules meet in the status of an order. What `Receipts` and `PersonalPayment`
do with it is `ConfirmTransfer` in `Shop`, and `PaymentPromise` says the same of all
three; `CancelPayment` in both is `BuyerCancels` there; what `Promos` calls a purchase is the payment that `Shop`,
`Receipts` and `PersonalPayment` make, and `GiveUp` is `release_checkout` there. Handlers
that touch one transaction and nothing that another one reads between its steps
(most forms of an administrator) are one action.

The MC modules only name the small sets the configurations use, the modules whose
name ends in `Proofs` hold the proofs.

Operators whose name has a suffix such as `Stale_Ties` and whose comment begins
with "Mutation" are wrong variants of the definition that follows them; they show
that the properties would notice such a bug. No behaviour uses them.

## 3. Runs

| run | question | bounds |
|---|---|---|
| `shop_events` | is access given only for a matching signed success, is no outdated event applied, and is a payment noticed when webhooks are lost? | 1 invoice, dates 0..2, every flaw, fairness |
| `shop_orders` | does the cart lose only what was bought, is a purchase final? | 1 buyer, 2 products without a limit, 2 orders, both checkouts, free and paid |
| `shop_stock` | is every unit on the shelf or held, never below zero, does a second click find the first order, and are the orders of a cart paid and given up together? | 2 buyers, 1 unit of one product and another without a limit, 2 orders, both checkouts, transfers, ages 0..2 |
| `delivery` | is the promise kept, so that data is handed over at most once, does "notified" mean that everybody who must know was told, and is every paid order settled and reported? | 2 orders, one by hand, 2 administrators, rounds and passes of 1, fairness |
| `receipts` | can an order get a third receipt, be paid by one that shows no payment of it or cancelled under one; does a late verdict or another decision change anything, is the promise of payment kept? | 2 orders of 1 buyer, 3 screenshots, 17 answers, 2 card rows, 2 numbers, 1 IBAN, 1 change of them |
| `personal` | does a transfer pay one order it matches, is the promise of payment kept, and does a buyer who goes on asking find it on a later page? | 2 orders, 1 card typed again, 3 transfers in 3 seconds, pages of 2, fairness |
| `promos` | can a code be used beyond its limit, a referral be rewarded twice or for a later purchase (one that overtook it apart), an item be charged wrongly? | 2 users, a single order and a cart of one of them, 1 code for one use and 3 rewards, 1 level of half the price |
| `codes` | do requests overlap, exceed the limit, or bring a code that is too old, and what does a slow message change? | 2 events of an administrator who buys, 1 order, 1 code, messages of 2 and 31 s, slow ones until the lock has expired once under a handler |
| `broadcasts` | who gets a message twice, too late, or not at all; does every broadcast end? | 3 users, batches of 2, 2 broadcasts, 2 acts, 1 failure, fairness |
| `catalogue` | can a product end with the codes of another account, or be added twice? | 2 administrators, 2 accounts, 2 products, 4 dialogues, 1 failure |
| `shop_oversold` | *refuted*: the locked stock test protects the last unit | 2 buyers, 1 unit |
| `shop_undone` | *refuted*: a webhook wins over a lost create answer | cart of 2 |

The bounds are the smallest in which the case of interest happens: two buyers for
a race, two orders for a pair of clicks or of siblings, three dates for "older,
equal, newer", one unit for the boundary of the stock, three screenshots for a
full order and one more of the same buyer, three transfers and pages of two for a
statement of several pages, three users and batches of two for a batch that is not
the last. The 17 answers of `receipts` lie on both sides of each comparison of
`evaluate_receipt`: the tolerance, the fee, the total, a wrong and a replaced
recipient, a missing or late time, an amount that is no number. In `promos` the cart
is worth exactly the smallest reward and its second item is the one the code may
reduce. In `codes` the lock lives for 33 seconds instead of 120, the shortest life
that outlasts every wait with messages of two seconds (`PROMPT`); a message of 31
seconds then does what one of a minute does to the lock of 120: the nap after it misses the
fresh seconds, or the lock expires while the code is sent. `Overtime` bounds how often
that happens, since each time may cost one code.
In `broadcasts`, `MaxActs` counts what users, administrators and a lossy Telegram
do together, so every pair of such events is explored, at every point of a
batch; throttling is not counted. `MaxStarts` of `catalogue` counts dialogues and
the taking up of a field by "✏️ Редагувати". Bounds named in the code are
constants (`Batch`, `NotifyLimit`, `Page`, `Limit`, `LockTimeout`) or ages (2,
55 and 5 minutes). An age grows in `Shop` while the order waits, and for one that cost
nothing, which a click may find again. Left out: the limit of 100 orders of a
reconcile pass.

`StockConserved` is stated for products all of whose orders came from carts and were
not paid by acquiring (`SoldByCart`), since a single checkout writes a copy of the
stock older than its lock, a handler that waits for Monobank writes an old copy of the stock
and a late success of an order that has given its unit back does not take it
again; with acquiring the sum does change, and `StockNonNegative` is what remains.
`OneActiveOrder` is checked in the same run, for transfers; the condition on
`payment_url` that acquiring adds is covered by its theorem. `PurchaseIsFinal` speaks of
buyers who were given a payment page: `PaymentSeenIsKept` shows what happens to
the others. `shop_orders` tells each signed event once, by webhook; that a second
telling, by a poll's other body, neither takes out what was put in the cart again nor sets a
delivered order back is what the theorems `CartsAreKept` and `PurchasesAreFinal` add.
`TransferFound` asks for an account that is forgotten or right (see
below how it gets wrong). `SettledForAReason` says nothing of whether the
screenshot is genuine. `UsageWithinLimit` leaves out orders that a success paid
after they were given up, `CodesOfItsAccount` products whose login or delivery was
typed again: the code promises neither. `ReferralPaidOnce` leaves out of "the first" the
purchases in `aside`, `OneAtATime` and `CodesWithinLimit` count what slow messages do to
the lock (see below for both).

The two refuted statements are findings of `PROJECT.json`, with the line that makes
the statement and the one that contradicts it.

### Noticed and not run

Where the code does something else than what it says, or may surprise. The models
do what the code does; the properties leave these cases out, and no run is spent
on them.

Orders and money:

* worker.py:142 marks an abandoned claim uncertain in a session that is rolled back
  while some administrator cannot be reached: the order stays claimed, against
  "Завислий claim стає невизначеним через п'ять хвилин" (README.md:169).
* personal.py:116 remembers the account of the old card if the card is changed while
  the bank is asked for it; transfers to the new one are not found until a restart or the next change.
* README.md:103 promises a statement request "не частіше ніж раз на 65 секунд";
  personal.py:98 lets the next one pass after 20 seconds, a restart or a new card at
  once.
* admin.py:2779 counts orders that wait before it replaces the token; an order that
  has expired and may still be paid late is not among them.
* services.py:322 reads the sale once for the code and once more for the discount: a
  sale that starts in between is added to the code, although promo codes are not
  valid during one (i18n.py:58). The price of an order may differ in the same way from the one
  shown before it.
* services.py:91 rounds a discounted price to a whole hryvnia, so that a discount can
  make an item with kopecks dearer: 1 % of 48.99 ₴ leaves 49 ₴. No run has such a price
  and discount; the proof of `ChargesAreFair` did not go through until `FairPrice` named
  the case.
* services.py:92 raises a discounted price to 1 ₴, also one that was lower before.
* bot.py:609 and admin.py:649 leave used reward codes out of the lists; a purchase
  that is free from the start (a single order) notifies nobody of its rewards.
* services.py:221 reads whether referrals are switched on before it locks the referral's
  row, and admin.py:490 switches them whatever payments are open. A purchase that has
  read "off" takes no lock; if the switch is then turned on, the buyer's next purchase locks
  the row, does not see the first, which is not committed, and brings the rewards: they are
  given once, but for the second purchase, if the first commits before it (`aside`).
* admin.py:2209-2236 deletes a user's rewards before the orders: one that an order has
  used makes the deletion fail as a whole.

Receipts:

* bot.py:1803: a restart while DeepSeek is asked leaves the receipt in `analyzing`
  for good; its order can neither be cancelled nor get another receipt.
* bot.py:1861 compares the 12 minutes with the time of the receipt, not of the
  verdict: a purchase paid while the receipt was analysed is overlooked.
* README.md:134-136 says that four digits and the status are checked, an IBAN is
  ignored and 90 % confidence is needed; `evaluate_receipt` compares three digits,
  takes an IBAN, and uses neither status nor confidence.
* admin.py:1441 approves a receipt whatever its order has become, pays only an order
  that waits, and says in both cases "товар буде видано автоматично"
  (admin.py:1457); an order whose other receipt was rejected stays cancelled.
* bot.py:1871-1873 takes every order that no longer waits for one its buyer has
  cancelled; it may have been paid, by the approval of its other receipt.
* admin.py:1405 counts the active cards without a lock: two administrators may
  activate a third. admin.py:986 looks for an active card when the mode is chosen; the
  last one may be switched off later, and no order can be placed by transfer then.

Codes and broadcasts:

* A code is counted when it is made: one whose message Telegram refuses is used up.
* services.py:889 sleeps after a message for a time computed before it. If the message
  takes longer than about three seconds, the few seconds in which a code is fresh may
  be missed, and the wait goes on. After 120 seconds the lock of the user's events expires
  (main.py:54), the next event is handled beside the first, and both may find a code
  left at services.py:845: the order gets one code more than its product allows for each
  request that outlived the lock (`outlived`), and no more (`CodesWithinLimit`).
* bot.py:255 turns users who are shut out away, so they cannot leave the newsletter,
  and worker.py:190 goes on sending it to them.
* worker.py:225: a user who comes back while a refusal is being saved is marked
  blocked until the next event.
* admin.py:920: two administrators who press the switch of the sale at once both write
  what they read turned round, and queue the same news twice.
* admin.py:2866-2867: a stop between the commit and the end of the dialogue lets the
  same broadcast be queued twice. worker.py:239: the summary is lost if Telegram fails.

Catalogue:

* admin.py:1519 refuses a maFile of another account than the product's login, but
  nothing compares them when the login or the way of delivery is typed afterwards
  (admin.py:1836, and in the review of a draft): the product then hands over one
  account and the codes of another.
* admin.py:1892: "✅ Так, видалити" deletes the last product asked about, whatever the
  message it stands under says.

### Fairness

`FairSpec` of `Shop`: the worker calls `reconcile` every thirty rounds, so
`StartReconcile` and the passing of time are weakly fair; an order's status
request and the application of its answer are strongly fair, that is, a request
does not fail for ever and the process does not always stop right before its
answer is applied. Buyers, webhooks and the provider are not assumed to do
anything. `FairSpec` of `Delivery`: the loop of `worker.py:246` catches every
exception and goes on, so its steps are weakly fair, and time passes; from some
point on, requests fail only for administrators who can never be reached. Without
the last assumption nothing can be promised: a message that always fails is never
told. `FairSpec` of `PersonalPayment`: the
cooldown ends, a check that has an answer goes on, the buyers press the
button again and again (nothing else starts a check: `BeginCheck` is strongly fair
because one cooldown is shared by all), the bank stops refusing requests
and the process stops restarting at some time. Administrators,
transfers and time are not assumed to do anything. `Spec` of `Broadcasts`: the loop of
`worker.py:246` comes back to `broadcast_batch` whatever has happened, which assumes that the
parts of its round before it return, so `Load`, `Complete`, `Save` and `SaveBreaks`
are weakly fair; `Deliver \/ Refuse` is strongly fair, that is, Telegram does not
throttle every attempt for ever. Failures are bounded. `Receipts`, `Promos`,
`SteamCodes` and `Catalogue` state no fairness.

## 4. Proofs

Every safety property that a run checks and TLC does not refute is also proved, for
every value of the constants:

| module | theorems | for any |
|---|---|---|
| `ShopProofs` | `TypeCorrect`, `StockStaysNonNegative`, `AccessIsPaidFor`, `PurchasesAreFinal`, `OldSuccessesAreIgnored`, `CartsAreKept`, `ActiveOrderIsUnique`, `StockIsConserved`; refinement `TransfersKeepPromise` | buyers, products, stock, methods, checkouts, dates, finitely many orders |
| `DeliveryProofs` | `TypeCorrect`, `NotifiedKnown`; refinement `WorkerKeepsPromise`, and `HandedOverOnce`, what it says of one order | orders, administrators, limits |
| `ReceiptsProofs` | `TypeCorrect`, `LimitHolds`, `ReasonsGiven`, `DecisionsStand`; refinement `ReceiptsKeepPromise`; of the verdict `AcceptedShowsPayment`, `ExactPaymentAccepted` | orders, buyers, screenshots, answers, cards, prices |
| `PersonalPaymentProofs` | `TypeCorrect`, `TransfersPayOnce`; refinement `ChecksKeepPromise` | orders, transfers, page size, changes of the card |
| `PromosProofs` | `TypeCorrect`, `LimitHolds`, `ReferralOnce`, `ChargesAreFair` | users, checkouts, codes, terms, levels, prices |
| `SteamCodesProofs` | all properties of its module | orders, events, limit, life of the lock, times of messages |
| `BroadcastsProofs` | `TypeCorrect`, `RepeatsAreFailures`, `AfterLeaving`, `CompletedTrue`, `NewsTrue` | users, batch, number of broadcasts |
| `CatalogueProofs` | all properties of its module | administrators, accounts, dialogues |

The assumptions are the named ASSUMEs of the modules, which TLC evaluates in every run.

The invariant of `ShopProofs` adds to the type invariant what the properties
silently rest on. A handler that still works on an invoice holds a lead order of
its own buyer with no payment page (`TasksHoldLeads`): that is why giving up never
reaches a purchase with a page. Orders of a checkout share their lead and method
(`CheckoutsHaveLeads`): a success of the lead's invoice is one for all. The shop
only knows invoices that exist and events that were signed (`InvoicesExist`). What
costs nothing is bought at once (`FreeIsBought`). Neither the stock nor any
session's copy of it is negative (`StockCounted`): the copies are why the stock
alone is not inductive. `PurchasesAreFinal` follows from one lemma on steps,
`SecuredKept`.

Four more results of `ShopProofs` rest on the lemma `Steps`: of all actions,
those that touch an order reserve, confirm a checkout for a reason (`Warranted`),
release one, give one up or deliver; all others leave stock, rows and statuses alone.
`CartsAreKept` says that a cart changes by its owner's hand, by a free checkout, or by a
confirmation (`CartSteps`), and that a confirmation buys what it takes out in that very
step: the orders of a checkout are of one buyer and of different products (`SameCheckout`),
none of them is bought before its lead (`LeadsBought`), and an event told again finds the
lead bought; transfers wait together (`WaitTogether`, below).
`StockIsConserved` needs that the orders of a checkout that is not paid by acquiring
wait together (`WaitTogether`); then a release frees one unit for each of its
products, and `HeldMore` and `HeldLess` count the orders that hold one. Handlers that
give up write old copies of the stock, but of acquiring orders only
(`GivesUpAcquiring`). `ActiveOrderIsUnique` is about handlers as much as about orders:
`ClicksAnswered` says that while a handler has chosen a product, or asks for the
invoice of a single order, no payable order is like the one it is about to offer; the
lemma `Offers` shows that besides the choice itself three kinds of steps only can
offer one. `TransfersKeepPromise` uses `WaitTogether` again: the first
confirmation of a checkout finds all of it waiting, so there is no second.

The invariant of `DeliveryProofs` says that an order that was handed over is
claimed, that a doubtful one is too, which order the worker holds at each place of
its loop, that uncommitted marks concern abandoned claims, and that an
administrator not yet told is still to be told. The refinement maps each action to
an action of the promise or to a stutter.

The invariant of `PersonalPaymentProofs` is `PaidByItsOwnTransfer` with the type
invariant; one lemma (`StepMoves`) says that every step either leaves payments
alone or lets one unused transfer pay one waiting order, and the theorems follow
from it. The refinement maps such a step to `Buy`, and it is a step of the promise
because the order is found among those that wait when the page is applied, not when
it was asked for.

The invariant of `ReceiptsProofs` joins the two state properties, because each
leans on the other: an order is cancelled only while it has no receipt, so an
order with receipts keeps its reason. It adds that receipts have orders that were
placed, that an analysis that runs has not been judged, and that an
administrator's rejection has closed its order (`RejectionCloses`). The lemma
`Moves` says what a step may do to orders and receipts; the counting argument of
`LimitHolds` is about one added receipt, whatever handler adds it. In the refinement
an approval is `Buy` or, of a settled order, `TooLate`; a rejection is `Close` or
nothing. That an automatic
approval is `proven` is the theorem `AcceptedShowsPayment`, about `evaluate_receipt`
alone; `ExactPaymentAccepted` is its counterpart, so that the first is not met by
refusing everybody.

The invariant of `SteamCodesProofs` is about time and about the lock. `Punctual` bounds
the second of the period, the time left to sleep and the time since the event was taken
up together, for an event no message of which was slow: while it waits it has done so since
second 4 of the period at the earliest and looks at the clock again by second 3 of the
next one, where the code is fresh. So it ends within 29 seconds and a message, before the
lock does, whatever another event's messages take: another one is handled beside it only
if that one has outlived its lock. Of an event with a slow message nothing is known
about time, only what its code has left when it arrives (`Progress`). `Counted` gives the
limit: whoever begins with the lock finds a code left, and every other request at work has
outlived the lock (`Lockless`), so those that have counted and not yet recorded
(`Unrecorded`) exceed the limit by no more than `outlived`.

The invariant of `CatalogueProofs` says how far a new draft has come (`InOrder`: its
field tells what it holds of the account), what an edit may bring (`OfTheLogin`), and
that a draft that may still be saved counts as a product already (`Counted`, with
`Distinct`: no two dialogues write the same draft). The lemmas on `Following` give the
order of the questions; `AnsweredSound` is the argument for every answer at once.

The invariant of `PromosProofs` is about locks. Between the count of a code's uses and
the commit of the order, the checkout alone holds the code's row (`CodesHeld`): its
order is not there yet and one use is left, so that adding the order keeps the limit;
nobody takes the row away meanwhile (`LinksLive`). For referrals, whoever may still
reward one holds its row, no other open purchase of the buyer has asked for it, and what
has been bought meanwhile overtook it (`GrantsSole`, with `Sole`); the rewards of both
sides are inserted in one commit (`PaidInPairs`, `RewardedIsPaid`), and no reward that
is there hides one that is due (`RewardsGranted`). `ChargesAreFair` is arithmetic about
`Pricing`, one lemma for each of the two roundings; the type invariant has the rest,
percents from 0 to 100.

The invariant of `BroadcastsProofs` says what grows old in the worker and what does
not. Broadcasts are sent in turn: nobody has been tried for one behind the oldest
that is open (`InTurn`), so the last news of the sale that were tried are the last
ones queued (`NewsInOrder`). A batch is a piece of the audience right behind the
progress (`BatchAhead`), so progress never steps over somebody who has wanted the
broadcast all the time (`SteadyReached`), and each count is of a user the progress
has just passed (`CountsTrue`). Who subscribes, or waits in a batch, has not been
sent anything since leaving (`LeftAlone`). `RepeatsAreFailures` counts: the
repetitions there are and those a failure has made due (`Owed`) are together
(`AtRisk`) no more than the failures (`RepeatInv`).

Only model-checked: the four liveness properties (`PaidInvoiceNoticed`,
`EveryOrderReported`, `TransferFound`, `QueueEmpties`), since the prover has no
reasoning about fairness. The two refuted statements are shown by TLC alone.

## 5. Not modelled

Signature verification and encryption are assumed sound, and so is the parsing of
what administrators and providers send, down to the fields the modules name. Of the
administration: the forms for tokens and settings, loyalty levels (a constant of
`Promos`), the flags, the order and the deletion of products, roles, statistics:
each is one transaction that nothing reads halfway, and what their interleavings do
is listed above where it surprises. Of the buyer's dialogue: reviews, search, menus
and texts, which change nothing the modules depend on. Image processing, the HMAC of
Steam Guard, HTTP and health checks are computation or I/O without state. Migrations
and deployment run once. A reconcile pass has no limit of 100 orders here, and
`create_reward_promo` no limit of attempts (a `Rollback` stands for their end).

## 6. Plan

All modules planned so far are written and all their safety properties proved. What
would come next:

1. Larger instances for the liveness properties, which no proof covers: a second
   invoice in `shop_events`, a third transfer page in `personal`.
2. `Promos` and `Shop` as two views of one payment: that the purchases of `Promos` are
   those of `Shop`, as `PaymentPromise` does for transfers.
