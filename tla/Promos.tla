------------------------------- MODULE Promos -------------------------------
(***************************************************************************)
(* Promo codes, rewards, referrals, loyalty and the sale: what             *)
(* app/services.py:118-360 and the promo part of both checkouts do, with   *)
(* the administrator's promo, sale and user forms (admin.py).              *)
(*                                                                         *)
(* The unit is a checkout: one order, or the orders of one cart.  How its  *)
(* status comes about is module Shop; here it waits, is bought, or is      *)
(* given up, and a late success may still pay it.  A transaction that      *)
(* holds row locks while others run is one record tx[k], from the step     *)
(* that takes the locks to the one that commits.                           *)
(***************************************************************************)
EXTENDS Pricing, FiniteSets, FiniteSetsExt

CONSTANTS
  Users,
  Checkouts,  \* checkouts ever begun (bounds the model)
  Buyer,      \* who begins each
  Offers,     \* what may be bought: [cart, prices (in the order of the cart), tip]
  Asks,       \* the offers each checkout may be for (a bound)
  Codes,      \* what a promo code may read; the space rewards are drawn from
  Typed,      \* the codes an administrator types in, and with which terms
  Levels,     \* loyalty levels: [threshold, percent]
  Referral,   \* the terms of a referral's reward
  CartRewards, \* setting cart_reward_promos_enabled, not switched here
  Aging,      \* codes whose time passes while the model runs (a bound)
  Leaving,    \* users an administrator may delete (a bound)
  None        \* NULL

Terms == [percent : 1..100, limit : Nat \ {0}, cap : Nat \ {0}]

SUCCESS == {"paid", "delivered"}

\* What an order's INSERT fixes.
Rows == UNION {[offer : {x}, percents : [DOMAIN x.prices -> 0..100], with : Codes \cup {None}] : x \in Offers}

\* The rows of rewards, promo codes and referrals, and an open transaction.
Rewards == [order : Checkouts, owner : Users, source : {"cart", "referral"}]
PromoRows == [percent : 1..100, limit : Nat \ {0}, cap : Nat \ {0}, reward : Rewards \cup {None}]
ReferralRows == [by : Users, eligible : BOOLEAN, rewarded : BOOLEAN]
Transactions ==
  [offer : Offers, code : Codes \cup {None}, row : Rows \cup {None}, to : SUCCESS \cup {None},
   referred : Users \cup {None}, grant : BOOLEAN]

ASSUME PromosAssumption ==
  /\ Buyer \in [Checkouts -> Users]
  /\ DOMAIN Typed \subseteq Codes
  /\ \A c \in DOMAIN Typed : Typed[c] \in Terms
  /\ Referral \in Terms /\ CartRewards \in BOOLEAN
  /\ Aging \subseteq Codes /\ Leaving \subseteq Users
  /\ \A x \in Offers : /\ x.cart \in BOOLEAN /\ x.tip \in TIP_PERCENTS
                       /\ DOMAIN x.prices # {}
                       /\ \A i \in DOMAIN x.prices : x.prices[i] \in Nat \ {0}
  /\ Asks \in [Checkouts -> SUBSET Offers]
  /\ \A l \in Levels : l.threshold \in Nat /\ l.percent \in 0..50
  /\ \A S \in (SUBSET Levels) \ {{}} : \E l \in S : \A m \in S : m.threshold <= l.threshold
  /\ IsFiniteSet(Checkouts)
  /\ None \notin Users \cup Checkouts \cup Codes \cup SUCCESS \cup Rows
  /\ None \notin Rewards \cup PromoRows \cup ReferralRows \cup Transactions

VARIABLES
  promo,     \* promo_codes: the row of each code, None if there is none
  expired,   \* codes whose expires_at has passed
  row,       \* what an order's INSERT fixes: [offer, percents, with (promo_code_snapshot)]
  status,    \* "absent", "waiting", "paid", "delivered", "gone" (payment_failed, cancelled)
  link,      \* orders.promo_code_id
  referral,  \* referrals: the row of each referred user
  known,     \* users: who has ever written to the bot
  tx,        \* the open transaction of each checkout, None if there is none
  cleaner,   \* the checkouts an open cleanup transaction has unlinked; None: idle
  sale,      \* setting sale_enabled
  referrals, \* setting referrals_enabled
  granted,   \* history: every reward inserted, [order, owner, source]
  earlier,   \* history: what the buyer had bought when a referral was rewarded for a checkout,
             \* what had overtaken it apart
  aside,     \* history: purchases that overtook a rewarded one, not having asked for the referral
  late       \* history: checkouts paid after they were given up

vars == <<promo, expired, row, status, link, referral, known, tx, cleaner, sale, referrals,
          granted, earlier, aside, late>>
orders == <<row, status, link, earlier, aside, late>>
settings == <<sale, referrals>>

REWARD == [percent |-> 100, limit |-> 1, cap |-> REWARD_PROMO_MAX_PRICE]
Live == {c \in Codes : promo[c] # None}
Bought(u) == {k \in Checkouts : Buyer[k] = u /\ status[k] \in SUCCESS}

Init ==
  /\ promo = [c \in Codes |-> None]
  /\ expired = {}
  /\ row = [k \in Checkouts |-> None]
  /\ status = [k \in Checkouts |-> "absent"]
  /\ link = [k \in Checkouts |-> None]
  /\ referral = [u \in Users |-> None]
  /\ known = {}
  /\ tx = [k \in Checkouts |-> None]
  /\ cleaner = None
  /\ sale = FALSE
  /\ referrals = TRUE
  /\ granted = {}
  /\ earlier = [k \in Checkouts |-> {}]
  /\ aside = [k \in Checkouts |-> {}]
  /\ late = {}

(***************************************************************************)
(* What a transaction reads.                                               *)
(***************************************************************************)

Used(c) == Cardinality({k \in Checkouts : link[k] = c /\ status[k] # "gone"})

Spent(u) ==
  MapThenSumSet(LAMBDA k : ChargedFor(row[k].offer.prices, row[k].percents, row[k].offer.tip), Bought(u))

\* What every item of a new order is reduced by.
active_discount(u) == IF sale THEN SALE_DISCOUNT_PERCENT ELSE loyalty_percent(Levels, Spent(u))

\* The items a promo code may reduce; it reduces the first of them.
Eligible(c, x) == {i \in DOMAIN x.prices : x.prices[i] <= promo[c].cap}

LockedCodes == {tx[k].code : k \in {j \in Checkouts : tx[j] # None}} \ {None}

\* Mutation: the code is read without a lock.
Valid_NoLock(c, x) ==
  /\ ~sale /\ c \in Live \ expired /\ Eligible(c, x) # {} /\ Used(c) < promo[c].limit

\* valid_promo with its row locked.
Valid(c, x) ==
  /\ ~sale
  /\ c \in Live \ expired
  /\ Eligible(c, x) # {}
  /\ c \notin LockedCodes
  /\ Used(c) < promo[c].limit

\* An UPDATE or a locking read of an order waits for who holds it.
OrderFree(k) == tx[k] = None /\ ~(cleaner # None /\ k \in cleaner)

\* Mutation: the referral is read without a lock.
ReferralFree_NoLock(u) == TRUE

\* The row of a referral is locked from here to the commit; a missing row locks nothing.
ReferralFree(u) ==
  referrals /\ referral[u] # None => \A j \in Checkouts : ~(tx[j] # None /\ tx[j].referred = u)

FirstPurchase(k) == Bought(Buyer[k]) \ {k} = {}

(***************************************************************************)
(* A checkout's transaction.  With a code, its row is locked and validated *)
(* first; the settings are read once more when the order is inserted.      *)
(***************************************************************************)
BeginCheckout(k, x, c) ==
  /\ Buyer[k] \in known
  /\ status[k] = "absent" /\ tx[k] = None
  /\ Valid(c, x)
  /\ tx' = [tx EXCEPT ![k] = [offer |-> x, code |-> c, row |-> None, to |-> None,
                              referred |-> None, grant |-> FALSE]]
  /\ UNCHANGED <<promo, expired, orders, referral, known, cleaner, settings, granted>>

\* Percent off each item of offer x with code c, the discount of that moment added.
Percents(k, x, c) ==
  [i \in DOMAIN x.prices |->
     AtMost100(active_discount(Buyer[k])
       + IF c # None /\ i \in Eligible(c, x) /\ \A j \in Eligible(c, x) : i <= j
         THEN promo[c].percent ELSE 0)]

\* What ensure_referral_rewards decides once it has locked the row; r is bought with code c.
Buying(k, r, c, to) ==
  LET u == Buyer[k]
      asked == referrals /\ referral[u] # None
  IN [offer |-> r.offer, code |-> c, row |-> r, to |-> to,
      referred |-> IF asked THEN u ELSE None,
      grant |-> asked /\ referral[u].eligible /\ ~referral[u].rewarded /\ FirstPurchase(k)]

\* The order is inserted.  One that costs nothing is bought at once: what the
\* purchase brings is decided before the commit.
InsertOrder(k, x, c) ==
  LET r == [offer |-> x, percents |-> Percents(k, x, c), with |-> c] IN
  /\ IF Total(Discounted(x.prices, r.percents)) = 0
     THEN /\ ReferralFree(Buyer[k])
          /\ tx' = [tx EXCEPT ![k] = Buying(k, r, c, IF x.cart THEN "paid" ELSE "delivered")]
          /\ UNCHANGED <<row, status, link>>
     ELSE /\ tx' = [tx EXCEPT ![k] = None]
          /\ row' = [row EXCEPT ![k] = r]
          /\ status' = [status EXCEPT ![k] = "waiting"]
          /\ link' = [link EXCEPT ![k] = c]
  /\ UNCHANGED <<promo, expired, referral, known, cleaner, settings, granted, earlier, aside, late>>

PlaceWithCode(k) == tx[k] # None /\ tx[k].to = None /\ InsertOrder(k, tx[k].offer, tx[k].code)

PlaceWithout(k, x) ==
  /\ Buyer[k] \in known
  /\ status[k] = "absent" /\ tx[k] = None
  /\ InsertOrder(k, x, None)

(***************************************************************************)
(* A success pays the checkout whatever it has become, and brings what a   *)
(* purchase brings.                                                        *)
(***************************************************************************)
BeginPayment(k) ==
  /\ status[k] \in {"waiting", "gone"}
  /\ OrderFree(k) /\ ReferralFree(Buyer[k])
  /\ tx' = [tx EXCEPT ![k] = Buying(k, row[k], None, "paid")]
  /\ UNCHANGED <<promo, expired, orders, referral, known, cleaner, settings, granted>>

Reward(k, u, s) == [order |-> k, owner |-> u, source |-> s]

\* The rewards of a purchase: a cart of enough merchandise, and a referral.
Due(k) ==
  LET r == tx[k].row
      merchandise == Total(Discounted(r.offer.prices, r.percents))
  IN (IF CartRewards /\ r.offer.cart /\ merchandise >= CART_REWARD_MIN_TOTAL
      THEN {Reward(k, Buyer[k], "cart")} ELSE {})
     \cup (IF tx[k].grant
           THEN {Reward(k, u, "referral") : u \in {Buyer[k], referral[Buyer[k]].by}} ELSE {})

\* Those of them that have no row yet.
Missing(k) == Due(k) \ {promo[c].reward : c \in Live}

RewardRow(reward) ==
  LET t == IF reward.source = "cart" THEN REWARD ELSE Referral IN
  [percent |-> t.percent, limit |-> t.limit, cap |-> t.cap, reward |-> reward]

\* Codes drawn at random that no row has yet.
Draws(k) == Injection(Missing(k), (Codes \ DOMAIN Typed) \ Live)

Granting(k) == tx[k] # None /\ tx[k].grant

\* The rewarded purchase that one which has not asked for the referral overtakes.
Overtaken(k) == {j \in Checkouts \ {k} : Buyer[j] = Buyer[k] /\ Granting(j) /\ tx[k].referred = None}

\* Everything a purchase changes becomes visible at once, or nothing does.
CommitPurchase(k, drawn) ==
  /\ tx[k] # None /\ tx[k].to # None
  /\ promo' = [c \in Codes |->
                 IF \E g \in Missing(k) : drawn[g] = c
                 THEN RewardRow(CHOOSE g \in Missing(k) : drawn[g] = c) ELSE promo[c]]
  /\ granted' = granted \cup Missing(k)
  /\ referral' = IF tx[k].grant THEN [referral EXCEPT ![Buyer[k]].rewarded = TRUE] ELSE referral
  /\ earlier' = IF tx[k].grant THEN [earlier EXCEPT ![k] = Bought(Buyer[k]) \ aside[k]] ELSE earlier
  /\ aside' = [j \in Checkouts |-> IF j = k THEN {}
                                  ELSE IF j \in Overtaken(k) THEN aside[j] \cup {k} ELSE aside[j]]
  /\ late' = IF status[k] = "gone" THEN late \cup {k} ELSE late
  /\ status' = [status EXCEPT ![k] = tx[k].to]
  /\ row' = [row EXCEPT ![k] = tx[k].row]
  /\ link' = IF status[k] = "absent" THEN [link EXCEPT ![k] = tx[k].code] ELSE link
  /\ tx' = [tx EXCEPT ![k] = None]
  /\ UNCHANGED <<expired, known, cleaner, settings>>

\* A refusal, an exception (no code is left to draw) or the end of the process.
Rollback(k) ==
  /\ tx[k] # None
  /\ tx' = [tx EXCEPT ![k] = None]
  /\ aside' = [aside EXCEPT ![k] = {}]
  /\ UNCHANGED <<promo, expired, row, status, link, earlier, late, referral, known, cleaner, settings,
                 granted>>

\* release_checkout.
GiveUp(k) ==
  /\ status[k] = "waiting" /\ OrderFree(k)
  /\ status' = [status EXCEPT ![k] = "gone"]
  /\ UNCHANGED <<promo, expired, row, link, referral, known, tx, cleaner, settings, granted, earlier, aside,
                 late>>

\* The handler that placed a single order gives it up, having read it before
\* its payment; it does so once.
GiveUpLate(k) ==
  /\ status[k] \in SUCCESS /\ ~row[k].offer.cart /\ k \notin late /\ OrderFree(k)
  /\ ChargedFor(row[k].offer.prices, row[k].percents, row[k].offer.tip) > 0
  /\ status' = [status EXCEPT ![k] = "gone"]
  /\ UNCHANGED <<promo, expired, row, link, referral, known, tx, cleaner, settings, granted, earlier, aside,
                 late>>

Deliver(k) ==
  /\ status[k] = "paid" /\ OrderFree(k)
  /\ status' = [status EXCEPT ![k] = "delivered"]
  /\ UNCHANGED <<promo, expired, row, link, referral, known, tx, cleaner, settings, granted, earlier, aside,
                 late>>

(***************************************************************************)
(* The worker deletes expired codes in two statements of one transaction:  *)
(* the orders are unlinked, then the rows deleted.  Orders that commit in  *)
(* between, and codes that expire in between, are not in the first.        *)
(***************************************************************************)
Expire(c) ==
  /\ c \in (Live \cap Aging) \ expired
  /\ expired' = expired \cup {c}
  /\ UNCHANGED <<promo, orders, referral, known, tx, cleaner, settings, granted>>

Linked(C) == {k \in Checkouts : link[k] \in C}

UnlinkExpired ==
  /\ cleaner = None /\ expired # {}
  /\ \A k \in Linked(expired) : tx[k] = None
  /\ cleaner' = Linked(expired)
  /\ UNCHANGED <<promo, expired, orders, referral, known, tx, settings, granted>>

\* The foreign key refuses the rows an order still refers to: then the
\* transaction is rolled back.
DropCodes(C, unlinked) ==
  IF Linked(C) \subseteq unlinked
  THEN /\ promo' = [c \in Codes |-> IF c \in C THEN None ELSE promo[c]]
       /\ expired' = expired \ C
       /\ link' = [k \in Checkouts |-> IF k \in unlinked THEN None ELSE link[k]]
  ELSE UNCHANGED <<promo, expired, link>>

DeleteExpired ==
  /\ cleaner # None
  /\ expired \cap LockedCodes = {}
  /\ DropCodes(expired, cleaner)
  /\ cleaner' = None
  /\ UNCHANGED <<row, status, earlier, aside, late, referral, known, tx, settings, granted>>

(***************************************************************************)
(* The administrator's forms.                                              *)
(***************************************************************************)

\* promo_save.
CreatePromo(c) ==
  /\ c \in DOMAIN Typed \ Live
  /\ promo' = [promo EXCEPT ![c] = [percent |-> Typed[c].percent, limit |-> Typed[c].limit,
                                    cap |-> Typed[c].cap, reward |-> None]]
  /\ UNCHANGED <<expired, orders, referral, known, tx, cleaner, settings, granted>>

\* promo_delete_confirm: not for rewards.
DeletePromo(c) ==
  /\ c \in Live /\ promo[c].reward = None
  /\ c \notin LockedCodes
  /\ \A k \in Linked({c}) : OrderFree(k)
  /\ DropCodes({c}, Linked({c}))
  /\ UNCHANGED <<row, status, earlier, aside, late, referral, known, tx, cleaner, settings, granted>>

ToggleSale ==
  /\ sale' = ~sale
  /\ UNCHANGED <<promo, expired, orders, referral, known, tx, cleaner, referrals, granted>>

ToggleReferrals ==
  /\ referrals' = ~referrals
  /\ UNCHANGED <<promo, expired, orders, referral, known, tx, cleaner, sale, granted>>

\* user_delete_confirm: the rewards of the user's orders, the orders and the
\* referrals go; an order that has used one of these rewards forbids it.
DeleteUser(u) ==
  LET mine == {k \in Checkouts : Buyer[k] = u /\ status[k] # "absent"}
      rewards == {c \in Live : promo[c].reward # None /\ promo[c].reward.order \in mine}
  IN
  /\ u \in known \cap Leaving
  /\ \A k \in Checkouts : Buyer[k] = u => OrderFree(k)
  /\ Linked(rewards) = {} /\ rewards \cap LockedCodes = {}
  /\ \A k \in Checkouts : tx[k] # None /\ tx[k].referred # None => referral[tx[k].referred].by # u
  /\ promo' = [c \in Codes |-> IF c \in rewards THEN None ELSE promo[c]]
  /\ expired' = expired \ rewards
  /\ row' = [k \in Checkouts |-> IF k \in mine THEN None ELSE row[k]]
  /\ status' = [k \in Checkouts |-> IF k \in mine THEN "absent" ELSE status[k]]
  /\ link' = [k \in Checkouts |-> IF k \in mine THEN None ELSE link[k]]
  /\ earlier' = [k \in Checkouts |-> IF k \in mine THEN {} ELSE earlier[k]]
  /\ late' = late \ mine
  /\ referral' = [v \in Users |->
                    IF referral[v] # None /\ u \in {v, referral[v].by} THEN None ELSE referral[v]]
  /\ granted' = {g \in granted : g.order \notin mine}
  /\ known' = known \ {u}
  /\ UNCHANGED <<tx, cleaner, settings, aside>>

(***************************************************************************)
(* /start, with or without the link of a referrer.                         *)
(***************************************************************************)

Newcomer(u) == u \notin known /\ Bought(u) = {}

Start(u, by) ==
  /\ u \notin known \/ (by # None /\ referral[u] = None)
  /\ known' = known \cup {u}
  /\ referral' = IF by # None /\ by # u /\ by \in known /\ referrals /\ referral[u] = None
                 THEN [referral EXCEPT ![u] = [by |-> by, eligible |-> Newcomer(u), rewarded |-> FALSE]]
                 ELSE referral
  /\ UNCHANGED <<promo, expired, orders, tx, cleaner, settings, granted>>

(***************************************************************************)
(* The specification.                                                      *)
(***************************************************************************)
Checkout(k) == \/ \E x \in Asks[k], c \in Codes : BeginCheckout(k, x, c)
               \/ PlaceWithCode(k)
               \/ \E x \in Asks[k] : PlaceWithout(k, x)
Purchase(k) == \/ BeginPayment(k)
               \/ tx[k] # None /\ tx[k].to # None
                  /\ \E drawn \in Draws(k) : CommitPurchase(k, drawn)
Outcome(k) == GiveUp(k) \/ GiveUpLate(k) \/ Deliver(k) \/ Rollback(k)
Worker == UnlinkExpired \/ DeleteExpired
Administrator == \/ \E c \in Codes : CreatePromo(c) \/ DeletePromo(c)
                 \/ ToggleSale \/ ToggleReferrals
                 \/ \E u \in Users : DeleteUser(u)

Next ==
  \/ \E k \in Checkouts : Checkout(k) \/ Purchase(k) \/ Outcome(k)
  \/ \E c \in Codes : Expire(c)
  \/ Worker
  \/ Administrator
  \/ \E u \in Users, by \in Users \cup {None} : Start(u, by)

Spec == Init /\ [][Next]_vars

-----------------------------------------------------------------------------
(***************************************************************************)
(* Properties.                                                             *)
(***************************************************************************)
\* The variables keep their types.
TypeOK ==
  /\ promo \in [Codes -> PromoRows \cup {None}]
  /\ expired \subseteq Codes
  /\ row \in [Checkouts -> Rows \cup {None}]
  /\ \A k \in Checkouts : (row[k] = None) = (status[k] = "absent")
  /\ status \in [Checkouts -> {"absent", "waiting", "paid", "delivered", "gone"}]
  /\ link \in [Checkouts -> Codes \cup {None}]
  /\ referral \in [Users -> ReferralRows \cup {None}]
  /\ known \subseteq Users
  /\ tx \in [Checkouts -> Transactions \cup {None}]
  /\ \A k \in {j \in Checkouts : tx[j] # None} :
       (tx[k].row = None) = (tx[k].to = None) /\ tx[k].referred \in {Buyer[k], None}
  /\ cleaner \in (SUBSET Checkouts) \cup {None}
  /\ sale \in BOOLEAN /\ referrals \in BOOLEAN
  /\ granted \subseteq Rewards
  /\ earlier \in [Checkouts -> SUBSET Checkouts] /\ aside \in [Checkouts -> SUBSET Checkouts]
  /\ late \subseteq Checkouts

\* A code is used by no more orders than its limit allows, given up ones apart
\* and apart from those a late success brought back (services.py:321: the uses
\* are counted under the lock of the code, the success does not ask it).
UsageWithinLimit ==
  \A c \in Live : Cardinality({k \in Checkouts \ late : link[k] = c /\ status[k] # "gone"}) <= promo[c].limit

\* A buyer's referral is rewarded for one purchase, to both sides, however the
\* payments of two purchases interleave (services.py:222).  It is the first:
\* nothing had been bought, delivered or not, when it was committed
\* (services.py:228), but what was begun while referrals were switched off, did
\* not ask for the row (services.py:221), and was committed while it held it.
ReferralPaidOnce ==
  \A u \in Users :
    LET paid == {g \in granted : g.source = "referral" /\ Buyer[g.order] = u} IN
    /\ Cardinality({g.order : g \in paid} \cup {k \in Checkouts : Buyer[k] = u /\ Granting(k)}) <= 1
    /\ paid # {} => Cardinality(paid) = 2 /\ u \in {g.owner : g \in paid}
    /\ referral[u] # None /\ referral[u].eligible => (referral[u].rewarded <=> paid # {})
    /\ \A g \in paid : earlier[g.order] = {}

\* Whatever discounts meet in an order, sale and code and loyalty, each item is
\* charged fairly, and only a full discount makes it free (services.py:85-103).
ChargesFair ==
  \A k \in {j \in Checkouts : row[j] # None} :
    \A i \in {n \in DOMAIN row[k].percents : row[k].offer.prices[n] >= 100} :
      FairPrice(row[k].offer.prices[i], row[k].percents[i], row[k].offer.tip)
=============================================================================
