---------------------------- MODULE PromosProofs ----------------------------
(***************************************************************************)
(* Proofs about Promos, for any users, checkouts, offers, codes and terms. *)
(***************************************************************************)
EXTENDS Promos, FiniteSetTheorems, TLAPS

(***************************************************************************)
(* The inductive invariant.                                                *)
(***************************************************************************)
\* The orders that count against the limit of a code.
Uses(c, links, states, paidLate) ==
  {k \in Checkouts \ paidLate : links[k] = c /\ states[k] # "gone"}

\* Only an order that exists has a code, and only one whose row exists.
LinksLive ==
  /\ \A k \in Checkouts : link[k] # None => promo[link[k]] # None /\ status[k] # "absent"
  /\ \A k \in late : status[k] # "absent"

\* A transaction that holds a code has found a use left, for an order yet to be
\* inserted; it alone holds the code.  One that has not decided holds a code.
CodeHeld(k, c) ==
  /\ promo[c] # None /\ status[k] = "absent"
  /\ Cardinality(Uses(c, link, status, late)) < promo[c].limit
  /\ \A j \in Checkouts \ {k} : tx[j] # None => tx[j].code # c

CodesHeld ==
  \A k \in Checkouts : tx[k] # None =>
    /\ tx[k].to = None => tx[k].code # None
    /\ \A c \in Codes : tx[k].code = c => CodeHeld(k, c)

\* A purchase that is about to be committed concerns an order that is not bought.
PurchasesOpen ==
  \A k \in Checkouts : tx[k] # None /\ tx[k].to # None => status[k] \notin SUCCESS

\* Whoever buys is known, and a known user alone has a referral; nobody refers
\* themselves.
BuyersKnown ==
  /\ \A k \in Checkouts : tx[k] # None \/ status[k] # "absent" => Buyer[k] \in known
  /\ \A u \in Users : referral[u] # None => u \in known /\ referral[u].by # u

\* The rewards of the referral of a user.
PaidFor(u, grants) == {g \in grants : g.source = "referral" /\ Buyer[g.order] = u}

\* The rows of rewards have been granted, for orders that exist.
RewardsGranted ==
  /\ \A c \in Codes : promo[c] # None /\ promo[c].reward # None => promo[c].reward \in granted
  /\ \A g \in granted : status[g.order] # "absent"

\* A transaction that rewards a referral holds its row; the other purchases of
\* the buyer that are not committed have not asked for it, and those that are
\* have overtaken this one.
Sole(k) ==
  LET u == Buyer[k] IN
  /\ tx[k].referred = u /\ tx[k].to # None
  /\ referral[u] # None /\ referral[u].eligible /\ ~referral[u].rewarded
  /\ Bought(u) \subseteq aside[k]
  /\ \A j \in Checkouts \ {k} : Buyer[j] = u /\ tx[j] # None => tx[j].referred = None

GrantsSole == \A k \in Checkouts : Granting(k) => Sole(k)

\* What has been granted for a referral: nothing, or one reward for each side,
\* for an order before which nothing had been bought that has not overtaken it.
PairFor(u) ==
  \E k \in Checkouts, v \in Users :
    /\ Buyer[k] = u /\ v # u /\ earlier[k] = {}
    /\ PaidFor(u, granted) = {Reward(k, u, "referral"), Reward(k, v, "referral")}

PaidInPairs == \A u \in Users : PaidFor(u, granted) = {} \/ PairFor(u)

RewardedIsPaid ==
  \A u \in Users :
    referral[u] # None /\ referral[u].eligible => (referral[u].rewarded <=> PaidFor(u, granted) # {})

LimitInv == UsageWithinLimit /\ LinksLive /\ CodesHeld

ReferralInv ==
  /\ PurchasesOpen /\ BuyersKnown /\ RewardsGranted
  /\ GrantsSole /\ PaidInPairs /\ RewardedIsPaid

IInv == TypeOK /\ LimitInv /\ ReferralInv

(***************************************************************************)
(* Counting, types and prices.                                             *)
(***************************************************************************)
LEMMA FewerUses ==
  ASSUME NEW S \in SUBSET Checkouts, NEW T \in SUBSET S
  PROVE  /\ Cardinality(S) \in Nat /\ Cardinality(T) \in Nat
         /\ Cardinality(T) <= Cardinality(S)
<1>1. IsFiniteSet(S)
  BY PromosAssumption, FS_Subset
<1>2. IsFiniteSet(T) /\ Cardinality(T) <= Cardinality(S)
  BY <1>1, FS_Subset
<1> QED
  BY <1>1, <1>2, FS_CardinalityType

LEMMA OneMoreUse ==
  ASSUME NEW S \in SUBSET Checkouts, NEW k \in Checkouts, NEW T \in SUBSET (S \cup {k})
  PROVE  Cardinality(T) <= Cardinality(S) + 1
<1>1. IsFiniteSet(S) /\ IsFiniteSet(S \cup {k})
  BY PromosAssumption, FS_Subset
<1>2. Cardinality(S \cup {k}) <= Cardinality(S) + 1
  BY <1>1, FS_AddElement, FS_CardinalityType
<1>3. Cardinality(T) <= Cardinality(S \cup {k})
  BY FewerUses
<1> QED
  BY <1>1, <1>2, <1>3, FewerUses

\* Whatever has been spent, a discount is a percentage of at most 50.
LEMMA DiscountType ==
  ASSUME NEW u
  PROVE  active_discount(u) \in 0..50
<1> DEFINE spent == Spent(u)
           reached == {l \in Levels : l.threshold <= spent}
<1>0. /\ active_discount(u) = IF sale THEN 50 ELSE loyalty_percent(Levels, spent)
      /\ loyalty_percent(Levels, spent) =
           IF reached = {} THEN 0
           ELSE (CHOOSE l \in reached : \A m \in reached : m.threshold <= l.threshold).percent
  BY DEF active_discount, loyalty_percent, SALE_DISCOUNT_PERCENT
<1> HIDE DEF spent
<1>a. reached \subseteq Levels
  OBVIOUS
<1> HIDE DEF reached
<1>1. CASE reached = {}
  BY <1>0, <1>1
<1>2. CASE reached # {}
  <2>1. reached \in (SUBSET Levels) \ {{}}
    BY <1>2, <1>a
  <2>2. \E l \in reached : \A m \in reached : m.threshold <= l.threshold
    BY <2>1, PromosAssumption
  <2>3. \A l \in reached : l.percent \in 0..50
    BY <1>a, PromosAssumption
  <2>4. loyalty_percent(Levels, spent) \in 0..50
    BY <1>0, <1>2, <2>2, <2>3
  <2> QED
    BY <1>0, <2>4
<1> QED
  BY <1>1, <1>2

LEMMA RowType ==
  ASSUME NEW k \in Checkouts, NEW x \in Offers, NEW c \in Codes \cup {None},
         c # None => promo[c] \in PromoRows
  PROVE  [offer |-> x, percents |-> Percents(k, x, c), with |-> c] \in Rows
<1>1. ASSUME NEW i \in DOMAIN x.prices PROVE Percents(k, x, c)[i] \in 0..100
  <2>1. active_discount(Buyer[k]) \in 0..50
    BY DiscountType
  <2>2. CASE c # None
    <3>1. promo[c].percent \in 1..100
      BY <2>2 DEF PromoRows
    <3> QED
      BY <2>1, <3>1 DEF Percents, AtMost100
  <2>3. CASE c = None
    BY <2>1, <2>3 DEF Percents, AtMost100
  <2> QED
    BY <2>2, <2>3
<1>2. Percents(k, x, c) \in [DOMAIN x.prices -> 0..100]
  BY <1>1 DEF Percents
<1> QED
  BY <1>2 DEF Rows

(***************************************************************************)
(* What both checkouts and payments rest on.                               *)
(***************************************************************************)
\* Whoever has locked the row of a referral is alone with it.
LEMMA LockedAlone ==
  ASSUME TypeOK, NEW u \in Users, ReferralFree(u), referrals, referral[u] # None
  PROVE  \A j \in Checkouts : Buyer[j] = u /\ tx[j] # None => tx[j].referred = None
BY DEF TypeOK, ReferralFree

\* A step that leaves referrals, the rewards granted and earlier purchases alone
\* keeps what is said of them.
LEMMA PairsKept ==
  ASSUME PaidInPairs, RewardedIsPaid, UNCHANGED <<granted, referral, earlier>>
  PROVE  PaidInPairs' /\ RewardedIsPaid'
<1>1. PaidInPairs'
  <2>1. ASSUME NEW u \in Users, PaidFor(u, granted) # {} PROVE PairFor(u)'
    <3>1. PairFor(u)
      BY <2>1 DEF PaidInPairs
    <3> QED
      BY <3>1 DEF PairFor, PaidFor
  <2>2. \A u \in Users : PaidFor(u, granted)' = PaidFor(u, granted)
    BY DEF PaidFor
  <2> QED
    BY <2>1, <2>2 DEF PaidInPairs
<1>2. RewardedIsPaid'
  BY DEF RewardedIsPaid, PaidFor
<1> QED
  BY <1>1, <1>2

\* No order that counts has a code without a row.
LEMMA UnusedWithoutRow ==
  ASSUME IInv, NEW c \in Codes, promo[c] = None
  PROVE  Uses(c, link, status, late) = {}
BY PromosAssumption DEF IInv, LimitInv, LinksLive, Uses, TypeOK

(***************************************************************************)
(* A checkout's transaction.                                               *)
(***************************************************************************)
LEMMA BeginCheckoutKeeps ==
  ASSUME IInv, NEW k \in Checkouts, NEW x \in Offers, NEW c \in Codes, BeginCheckout(k, x, c)
  PROVE  IInv'
<1> DEFINE t == [offer |-> x, code |-> c, row |-> None, to |-> None, referred |-> None, grant |-> FALSE]
<1>1. /\ t \in Transactions /\ t # None
      /\ t.code = c /\ t.row = None /\ t.to = None /\ t.referred = None /\ t.grant = FALSE
  <2>1. t \in Transactions
    BY DEF Transactions
  <2>2. t.code = c /\ t.row = None /\ t.to = None /\ t.referred = None /\ t.grant = FALSE
    OBVIOUS
  <2> QED
    BY <2>1, <2>2, PromosAssumption
<1>2. /\ tx' = [tx EXCEPT ![k] = t] /\ tx[k] = None /\ status[k] = "absent" /\ Buyer[k] \in known
      /\ UNCHANGED <<promo, expired, row, status, link, earlier, aside, late, referral, known, cleaner, sale,
                     referrals, granted>>
  BY DEF BeginCheckout, orders, settings
<1> HIDE DEF t
<1>3. /\ tx \in [Checkouts -> Transactions \cup {None}]
      /\ tx'[k] = t /\ \A j \in Checkouts \ {k} : tx'[j] = tx[j]
      /\ tx' \in [Checkouts -> Transactions \cup {None}]
  BY <1>1, <1>2 DEF IInv, TypeOK
<1>4. TypeOK'
  BY <1>1, <1>2, <1>3 DEF IInv, TypeOK
<1>5. CodeHeld(k, c)
  <2>1. promo[c] # None /\ c \notin LockedCodes /\ Used(c) < promo[c].limit
    BY <1>2 DEF BeginCheckout, Valid, Live
  <2>2. \A j \in Checkouts : tx[j] # None => tx[j].code # c
    BY <2>1, PromosAssumption DEF LockedCodes
  <2>3. Cardinality(Uses(c, link, status, late)) <= Used(c) /\ Used(c) \in Nat
        /\ Cardinality(Uses(c, link, status, late)) \in Nat
    <3>1. {j \in Checkouts : link[j] = c /\ status[j] # "gone"} \in SUBSET Checkouts
      OBVIOUS
    <3>2. Uses(c, link, status, late) \in SUBSET {j \in Checkouts : link[j] = c /\ status[j] # "gone"}
      BY DEF Uses
    <3> QED
      BY <3>1, <3>2, FewerUses DEF Used
  <2>4. promo[c].limit \in Nat
    BY <2>1 DEF IInv, TypeOK, PromoRows
  <2> QED
    BY <1>2, <2>1, <2>2, <2>3, <2>4 DEF CodeHeld
<1>6. LimitInv'
  <2>1. UsageWithinLimit' /\ LinksLive'
    BY <1>2 DEF IInv, LimitInv, UsageWithinLimit, LinksLive, Live
  <2>2. CodesHeld'
    <3>1. ASSUME NEW j \in Checkouts, tx'[j] # None, tx'[j].to = None PROVE tx'[j].code # None
      BY <1>1, <1>3, <3>1, PromosAssumption DEF IInv, LimitInv, CodesHeld
    <3>2. ASSUME NEW j \in Checkouts, NEW d \in Codes, tx'[j] # None, tx'[j].code = d
          PROVE  CodeHeld(j, d)'
      <4>1. CASE j = k
        BY <1>1, <1>2, <1>3, <1>5, <3>2, <4>1 DEF CodeHeld, Uses
      <4>2. CASE j # k
        <5>1. tx'[j] = tx[j] /\ CodeHeld(j, d)
          BY <1>3, <3>2, <4>2 DEF IInv, LimitInv, CodesHeld
        <5>2. d # c
          BY <1>5, <3>2, <4>2, <5>1 DEF CodeHeld
        <5> QED
          BY <1>1, <1>2, <1>3, <5>1, <5>2 DEF CodeHeld, Uses
      <4> QED
        BY <4>1, <4>2
    <3> QED
      BY <3>1, <3>2 DEF CodesHeld
  <2> QED
    BY <2>1, <2>2 DEF LimitInv
<1>7. ReferralInv'
  <2>1. PurchasesOpen' /\ BuyersKnown'
    BY <1>1, <1>2, <1>3 DEF IInv, ReferralInv, PurchasesOpen, BuyersKnown
  <2>2. RewardsGranted' /\ PaidInPairs' /\ RewardedIsPaid'
    <3>1. RewardsGranted'
      BY <1>2 DEF IInv, ReferralInv, RewardsGranted
    <3>2. \A u \in Users : PaidFor(u, granted)' = PaidFor(u, granted)
      BY <1>2 DEF PaidFor
    <3>3. PaidInPairs'
      BY <1>2, <3>2 DEF IInv, ReferralInv, PaidInPairs, PairFor, Reward
    <3>4. RewardedIsPaid'
      BY <1>2, <3>2 DEF IInv, ReferralInv, RewardedIsPaid
    <3> QED
      BY <3>1, <3>3, <3>4
  <2>3. GrantsSole'
    <3> SUFFICES ASSUME NEW j \in Checkouts, Granting(j)' PROVE Sole(j)'
      BY DEF GrantsSole
    <3>1. j # k /\ tx'[j] = tx[j] /\ Sole(j)
      BY <1>1, <1>3 DEF Granting, IInv, ReferralInv, GrantsSole
    <3> QED
      BY <1>1, <1>2, <1>3, <3>1 DEF Sole, Bought
  <2> QED
    BY <2>1, <2>2, <2>3 DEF ReferralInv
<1> QED
  BY <1>4, <1>6, <1>7 DEF IInv

LEMMA RowOffer ==
  ASSUME NEW r \in Rows
  PROVE  r.offer \in Offers /\ r # None
<1>1. PICK x \in Offers : r \in [offer : {x}, percents : [DOMAIN x.prices -> 0..100], with : Codes \cup {None}]
  BY DEF Rows
<1>2. r.offer = x
  BY <1>1
<1> QED
  BY <1>2, PromosAssumption

\* A purchase decides what it brings while it holds the row of the referral.
LEMMA BuyingKeeps ==
  ASSUME IInv, NEW k \in Checkouts, NEW r \in Rows, NEW c \in Codes \cup {None}, NEW to \in SUCCESS,
         ReferralFree(Buyer[k]), Buyer[k] \in known, status[k] \notin SUCCESS,
         tx[k] # None => tx[k].to = None,
         c # None => tx[k] # None /\ tx[k].code = c,
         tx' = [tx EXCEPT ![k] = Buying(k, r, c, to)],
         UNCHANGED <<promo, expired, row, status, link, earlier, aside, late, referral, known, cleaner, sale,
                     referrals, granted>>
  PROVE  IInv'
<1> DEFINE u == Buyer[k]
           asked == referrals /\ referral[u] # None
           t == Buying(k, r, c, to)
<1>1. /\ t \in Transactions /\ t # None /\ t.code = c /\ t.row = r /\ t.to = to
      /\ t.referred = IF asked THEN u ELSE None
      /\ t.grant => asked /\ referral[u].eligible /\ ~referral[u].rewarded /\ FirstPurchase(k)
  <2>1. /\ t.offer = r.offer /\ t.code = c /\ t.row = r /\ t.to = to
        /\ t.referred = IF asked THEN u ELSE None
        /\ t.grant = (asked /\ referral[u].eligible /\ ~referral[u].rewarded /\ FirstPurchase(k))
    BY DEF Buying
  <2>2. t \in Transactions
    <3>1. u \in Users /\ r.offer \in Offers
      BY PromosAssumption, RowOffer
    <3>2. t.grant \in BOOLEAN
      BY <2>1
    <3> QED
      BY <3>1, <3>2 DEF Buying, Transactions
  <2> QED
    BY <2>1, <2>2, PromosAssumption
<1>2. u \in Users /\ to # None /\ r # None
  BY PromosAssumption, RowOffer
<1> HIDE DEF t
<1>3. /\ tx \in [Checkouts -> Transactions \cup {None}]
      /\ tx'[k] = t /\ \A j \in Checkouts \ {k} : tx'[j] = tx[j]
      /\ tx' \in [Checkouts -> Transactions \cup {None}]
  BY <1>1 DEF IInv, TypeOK, t
<1>4. TypeOK'
  BY <1>1, <1>2, <1>3 DEF IInv, TypeOK
<1>5. asked => \A j \in Checkouts \ {k} : Buyer[j] = u /\ tx[j] # None => tx[j].referred = None /\ ~tx[j].grant
  <2> SUFFICES ASSUME asked, NEW j \in Checkouts \ {k}, Buyer[j] = u, tx[j] # None
               PROVE  tx[j].referred = None /\ ~tx[j].grant
    OBVIOUS
  <2>1. tx[j].referred = None
    BY <1>2, LockedAlone DEF IInv
  <2>2. ASSUME tx[j].grant PROVE FALSE
    BY <1>2, <2>1, <2>2, PromosAssumption DEF IInv, ReferralInv, GrantsSole, Granting, Sole
  <2> QED
    BY <2>1, <2>2
<1>6. LimitInv'
  <2>1. UsageWithinLimit' /\ LinksLive'
    BY DEF IInv, LimitInv, UsageWithinLimit, LinksLive, Live
  <2>2. ASSUME NEW j \in Checkouts, tx'[j] # None, tx'[j].to = None PROVE tx'[j].code # None
    BY <1>1, <1>2, <1>3, <2>2 DEF IInv, LimitInv, CodesHeld
  <2>3. ASSUME NEW j \in Checkouts, NEW d \in Codes, tx'[j] # None, tx'[j].code = d
        PROVE  CodeHeld(j, d)'
    <3>1. d # None
      BY PromosAssumption
    <3>2. tx[j] # None /\ tx[j].code = d
      BY <1>1, <1>3, <2>3, <3>1
    <3>3. CodeHeld(j, d)
      BY <3>2 DEF IInv, LimitInv, CodesHeld
    <3>4. j # k /\ tx'[k].code = d => FALSE
      BY <1>1, <1>3, <3>1, <3>3 DEF CodeHeld
    <3> QED
      BY <1>3, <3>3, <3>4 DEF CodeHeld, Uses
  <2> QED
    BY <2>1, <2>2, <2>3 DEF LimitInv, CodesHeld
<1>7. ReferralInv'
  <2>1. PurchasesOpen' /\ BuyersKnown'
    BY <1>1, <1>2, <1>3 DEF IInv, ReferralInv, PurchasesOpen, BuyersKnown
  <2>2. RewardsGranted' /\ PaidInPairs' /\ RewardedIsPaid'
    BY PairsKept DEF IInv, ReferralInv, RewardsGranted
  <2>3. GrantsSole'
    <3> SUFFICES ASSUME NEW j \in Checkouts, Granting(j)' PROVE Sole(j)'
      BY DEF GrantsSole
    <3>1. CASE j = k
      <4>1. asked /\ referral[u].eligible /\ ~referral[u].rewarded /\ FirstPurchase(k)
        BY <1>1, <1>3, <3>1 DEF Granting
      <4>2. Bought(u) = {}
        BY <4>1 DEF FirstPurchase, Bought
      <4>3. \A i \in Checkouts \ {k} : Buyer[i] = u /\ tx'[i] # None => tx'[i].referred = None
        BY <1>3, <1>5, <4>1
      <4> QED
        BY <1>1, <1>2, <1>3, <3>1, <4>1, <4>2, <4>3 DEF Sole, Bought
    <3>2. CASE j # k
      <4>1. tx'[j] = tx[j] /\ Sole(j)
        BY <1>3, <3>2 DEF Granting, IInv, ReferralInv, GrantsSole
      <4>2. Buyer[j] = u => tx'[k].referred = None
        <5> SUFFICES ASSUME Buyer[j] = u, asked PROVE FALSE
          BY <1>1, <1>3
        <5> QED
          BY <1>3, <1>5, <3>2, <4>1 DEF Granting
      <4>3. \A i \in Checkouts \ {j} : Buyer[i] = Buyer[j] /\ tx'[i] # None => tx'[i].referred = None
        BY <1>3, <4>1, <4>2 DEF Sole
      <4> QED
        BY <4>1, <4>3 DEF Sole, Bought
    <3> QED
      BY <3>1, <3>2
  <2> QED
    BY <2>1, <2>2, <2>3 DEF ReferralInv
<1> QED
  BY <1>4, <1>6, <1>7 DEF IInv

LEMMA BeginPaymentKeeps ==
  ASSUME IInv, NEW k \in Checkouts, BeginPayment(k)
  PROVE  IInv'
<1>1. status[k] \notin SUCCESS /\ status[k] # "absent" /\ tx[k] = None
  BY DEF BeginPayment, SUCCESS, OrderFree
<1>2. row[k] \in Rows /\ Buyer[k] \in known
  BY <1>1 DEF IInv, TypeOK, ReferralInv, BuyersKnown
<1>3. ReferralFree(Buyer[k]) /\ "paid" \in SUCCESS /\ None \in Codes \cup {None}
  BY DEF BeginPayment, SUCCESS
<1>4. /\ tx' = [tx EXCEPT ![k] = Buying(k, row[k], None, "paid")]
      /\ UNCHANGED <<promo, expired, row, status, link, earlier, aside, late, referral, known, cleaner, sale,
                     referrals, granted>>
  BY DEF BeginPayment, orders, settings
<1> QED
  BY <1>1, <1>2, <1>3, <1>4, BuyingKeeps

\* An order that costs something is inserted and waits.
LEMMA OrderInserted ==
  ASSUME IInv, NEW k \in Checkouts, NEW r \in Rows, NEW c \in Codes \cup {None},
         Buyer[k] \in known, status[k] = "absent",
         tx[k] # None => tx[k].to = None /\ tx[k].code = c,
         c # None => tx[k] # None,
         tx' = [tx EXCEPT ![k] = None],
         row' = [row EXCEPT ![k] = r],
         status' = [status EXCEPT ![k] = "waiting"],
         link' = [link EXCEPT ![k] = c],
         UNCHANGED <<promo, expired, earlier, aside, late, referral, known, cleaner, sale, referrals, granted>>
  PROVE  IInv'
<1>1. /\ tx'[k] = None /\ status'[k] = "waiting" /\ link'[k] = c /\ row'[k] = r
      /\ \A j \in Checkouts \ {k} :
           tx'[j] = tx[j] /\ status'[j] = status[j] /\ link'[j] = link[j] /\ row'[j] = row[j]
  BY DEF IInv, TypeOK
<1>2. TypeOK'
  <2>1. /\ tx' \in [Checkouts -> Transactions \cup {None}]
        /\ row' \in [Checkouts -> Rows \cup {None}]
        /\ status' \in [Checkouts -> {"absent", "waiting", "paid", "delivered", "gone"}]
        /\ link' \in [Checkouts -> Codes \cup {None}]
    BY DEF IInv, TypeOK
  <2>2. \A j \in Checkouts : (row'[j] = None) = (status'[j] = "absent")
    BY <1>1, RowOffer DEF IInv, TypeOK
  <2> QED
    BY <1>1, <2>1, <2>2 DEF IInv, TypeOK
<1>3. c # None => CodeHeld(k, c)
  BY DEF IInv, LimitInv, CodesHeld
<1>4. link[k] = None /\ k \notin late
  BY DEF IInv, LimitInv, LinksLive
<1>5. ASSUME NEW d \in Codes PROVE Uses(d, link', status', late') \in SUBSET Uses(d, link, status, late) \/ d = c
  BY <1>1, <1>4, <1>5 DEF Uses
<1>6. LimitInv'
  <2>1. UsageWithinLimit'
    <3> SUFFICES ASSUME NEW d \in Codes, promo[d] # None
                 PROVE  Cardinality(Uses(d, link', status', late')) <= promo[d].limit
      BY DEF UsageWithinLimit, Uses, Live
    <3>1. promo[d].limit \in Nat
      BY DEF IInv, TypeOK, PromoRows
    <3>2. Cardinality(Uses(d, link, status, late)) <= promo[d].limit
      BY DEF IInv, LimitInv, UsageWithinLimit, Uses, Live
    <3>3. /\ Uses(d, link, status, late) \in SUBSET Checkouts
          /\ Uses(d, link', status', late') \in SUBSET Checkouts
      BY DEF Uses
    <3>4. CASE d # c
      <4>1. /\ Cardinality(Uses(d, link', status', late')) <= Cardinality(Uses(d, link, status, late))
            /\ Cardinality(Uses(d, link', status', late')) \in Nat
            /\ Cardinality(Uses(d, link, status, late)) \in Nat
        BY <1>5, <3>3, <3>4, FewerUses
      <4> QED
        BY <3>1, <3>2, <4>1
    <3>5. CASE d = c
      <4>1. Cardinality(Uses(d, link, status, late)) < promo[d].limit
        BY <1>3, <3>5, PromosAssumption DEF CodeHeld
      <4>2. Uses(d, link', status', late') \in SUBSET (Uses(d, link, status, late) \cup {k})
        BY <1>1 DEF Uses
      <4>3. Cardinality(Uses(d, link', status', late')) <= Cardinality(Uses(d, link, status, late)) + 1
        BY <3>3, <4>2, OneMoreUse
      <4>4. /\ Cardinality(Uses(d, link', status', late')) \in Nat
            /\ Cardinality(Uses(d, link, status, late)) \in Nat
        BY <3>3, FewerUses
      <4> QED
        BY <3>1, <4>1, <4>3, <4>4
    <3> QED
      BY <3>4, <3>5
  <2>2. LinksLive'
    BY <1>1, <1>3 DEF IInv, LimitInv, LinksLive, CodeHeld
  <2>3. ASSUME NEW j \in Checkouts, NEW d \in Codes, tx'[j] # None, tx'[j].code = d
        PROVE  CodeHeld(j, d)'
    <3>1. j # k /\ tx[j] # None /\ tx[j].code = d /\ CodeHeld(j, d)
      BY <1>1, <2>3 DEF IInv, LimitInv, CodesHeld
    <3>2. d # c
      BY <3>1, PromosAssumption DEF CodeHeld
    <3>3. Cardinality(Uses(d, link', status', late')) <= Cardinality(Uses(d, link, status, late))
          /\ Cardinality(Uses(d, link', status', late')) \in Nat /\ Cardinality(Uses(d, link, status, late)) \in Nat
      <4>1. Uses(d, link, status, late) \in SUBSET Checkouts
        BY DEF Uses
      <4> QED
        BY <1>5, <3>2, <4>1, FewerUses
    <3>4. promo[d].limit \in Nat
      BY <3>1 DEF CodeHeld, IInv, TypeOK, PromoRows
    <3> QED
      BY <1>1, <3>1, <3>3, <3>4 DEF CodeHeld
  <2>4. ASSUME NEW j \in Checkouts, tx'[j] # None, tx'[j].to = None PROVE tx'[j].code # None
    BY <1>1, <2>4 DEF IInv, LimitInv, CodesHeld
  <2> QED
    BY <2>1, <2>2, <2>3, <2>4 DEF LimitInv, CodesHeld
<1>7. ReferralInv'
  <2>1. PurchasesOpen' /\ BuyersKnown'
    BY <1>1 DEF IInv, ReferralInv, PurchasesOpen, BuyersKnown
  <2>2. PaidInPairs' /\ RewardedIsPaid'
    BY PairsKept DEF IInv, ReferralInv
  <2>3. RewardsGranted'
    BY <1>1 DEF IInv, ReferralInv, RewardsGranted, TypeOK, Rewards
  <2>4. \A u \in Users : Bought(u)' = Bought(u)
    BY <1>1 DEF Bought, SUCCESS
  <2>5. GrantsSole'
    <3> SUFFICES ASSUME NEW j \in Checkouts, Granting(j)' PROVE Sole(j)'
      BY DEF GrantsSole
    <3>1. tx'[j] = tx[j] /\ Sole(j)
      BY <1>1 DEF Granting, IInv, ReferralInv, GrantsSole
    <3> QED
      BY <1>1, <2>4, <3>1, PromosAssumption DEF Sole
  <2> QED
    BY <2>1, <2>2, <2>3, <2>5 DEF ReferralInv
<1> QED
  BY <1>2, <1>6, <1>7 DEF IInv

LEMMA InsertOrderKeeps ==
  ASSUME IInv, NEW k \in Checkouts, NEW x \in Offers, NEW c \in Codes \cup {None}, InsertOrder(k, x, c),
         Buyer[k] \in known, status[k] = "absent",
         tx[k] # None => tx[k].to = None /\ tx[k].code = c,
         c # None => tx[k] # None
  PROVE  IInv'
<1> DEFINE r == [offer |-> x, percents |-> Percents(k, x, c), with |-> c]
<1>1. r \in Rows
  <2>1. c # None => promo[c] \in PromoRows
    BY DEF IInv, LimitInv, CodesHeld, CodeHeld, TypeOK
  <2> QED
    BY <2>1, RowType
<1>2. UNCHANGED <<promo, expired, earlier, aside, late, referral, known, cleaner, sale, referrals, granted>>
  BY DEF InsertOrder, settings
<1>3. CASE Total(Discounted(x.prices, r.percents)) = 0
  <2>1. /\ ReferralFree(Buyer[k])
        /\ tx' = [tx EXCEPT ![k] = Buying(k, r, c, IF x.cart THEN "paid" ELSE "delivered")]
        /\ UNCHANGED <<row, status, link>>
    BY <1>3 DEF InsertOrder
  <2>2. PICK to \in SUCCESS : to = IF x.cart THEN "paid" ELSE "delivered"
    BY DEF SUCCESS
  <2>3. status[k] \notin SUCCESS
    BY DEF SUCCESS
  <2> HIDE DEF r
  <2> QED
    BY <1>1, <1>2, <2>1, <2>2, <2>3, BuyingKeeps
<1>4. CASE Total(Discounted(x.prices, r.percents)) # 0
  <2>1. /\ tx' = [tx EXCEPT ![k] = None]
        /\ row' = [row EXCEPT ![k] = r]
        /\ status' = [status EXCEPT ![k] = "waiting"]
        /\ link' = [link EXCEPT ![k] = c]
    BY <1>4 DEF InsertOrder
  <2> HIDE DEF r
  <2> QED
    BY <1>1, <1>2, <2>1, OrderInserted
<1> QED
  BY <1>3, <1>4

LEMMA PlaceWithCodeKeeps ==
  ASSUME IInv, NEW k \in Checkouts, PlaceWithCode(k)
  PROVE  IInv'
<1>1. tx[k] # None /\ tx[k].to = None /\ InsertOrder(k, tx[k].offer, tx[k].code)
  BY DEF PlaceWithCode
<1>2. tx[k].offer \in Offers /\ tx[k].code \in Codes \cup {None}
  BY <1>1 DEF IInv, TypeOK, Transactions
<1>3. tx[k].code # None /\ CodeHeld(k, tx[k].code) /\ Buyer[k] \in known
  BY <1>1, <1>2 DEF IInv, LimitInv, CodesHeld, ReferralInv, BuyersKnown
<1>4. status[k] = "absent"
  BY <1>3 DEF CodeHeld
<1> QED
  BY <1>1, <1>2, <1>3, <1>4, InsertOrderKeeps

LEMMA PlaceWithoutKeeps ==
  ASSUME IInv, NEW k \in Checkouts, NEW x \in Offers, PlaceWithout(k, x)
  PROVE  IInv'
<1>1. Buyer[k] \in known /\ status[k] = "absent" /\ tx[k] = None /\ InsertOrder(k, x, None)
  BY DEF PlaceWithout
<1> QED
  BY <1>1, InsertOrderKeeps

(***************************************************************************)
(* A purchase is committed.                                                *)
(***************************************************************************)
\* What it brings are rewards for its buyer and, if it rewards the referral,
\* one for the referrer.
LEMMA DueType ==
  ASSUME IInv, NEW k \in Checkouts, tx[k] # None
  PROVE  /\ Due(k) \subseteq Rewards
         /\ \A g \in Due(k) : g.order = k /\ (g.source = "referral" => tx[k].grant)
         /\ tx[k].grant => /\ Reward(k, Buyer[k], "referral") \in Due(k)
                           /\ Reward(k, referral[Buyer[k]].by, "referral") \in Due(k)
                           /\ \A g \in Due(k) : g.source = "referral" =>
                                g \in {Reward(k, Buyer[k], "referral"), Reward(k, referral[Buyer[k]].by, "referral")}
<1> DEFINE u == Buyer[k]
           cart == {Reward(k, u, "cart")}
           pair == {Reward(k, v, "referral") : v \in {u, referral[u].by}}
<1>1. u \in Users
  BY PromosAssumption
<1>2. tx[k].grant => referral[u].by \in Users
  BY <1>1 DEF IInv, ReferralInv, GrantsSole, Granting, Sole, TypeOK, ReferralRows
<1>3. Due(k) \subseteq cart \cup (IF tx[k].grant THEN pair ELSE {})
  BY DEF Due
<1>4. tx[k].grant => pair \subseteq Due(k)
  BY DEF Due
<1>5. \A g \in cart : g \in Rewards /\ g.order = k /\ g.source = "cart"
  BY <1>1 DEF Reward, Rewards
<1>6. tx[k].grant => \A g \in pair : g \in Rewards /\ g.order = k /\ g.source = "referral"
  BY <1>1, <1>2 DEF Reward, Rewards
<1>7. pair = {Reward(k, u, "referral"), Reward(k, referral[u].by, "referral")}
  OBVIOUS
<1> HIDE DEF cart, pair, u
<1> QED
  BY <1>3, <1>4, <1>5, <1>6, <1>7 DEF u

\* New rewards take codes that had no row; every other code keeps its own.
LEMMA DrawnCodes ==
  ASSUME IInv, NEW k \in Checkouts, NEW drawn \in Draws(k), CommitPurchase(k, drawn), NEW c \in Codes
  PROVE  /\ promo[c] # None => promo'[c] = promo[c]
         /\ promo'[c] = promo[c] \/ (promo'[c] \in PromoRows /\ promo'[c].reward \in Missing(k))
<1> DEFINE new == \E g \in Missing(k) : drawn[g] = c
           chosen == CHOOSE g \in Missing(k) : drawn[g] = c
<1>1. promo'[c] = IF new THEN RewardRow(chosen) ELSE promo[c]
  BY DEF CommitPurchase
<1>2. new => c \notin Live
  BY DEF Draws, Injection
<1>3. new => chosen \in Missing(k)
  OBVIOUS
<1>4. Missing(k) \subseteq Rewards
  BY DueType DEF Missing, CommitPurchase
<1> HIDE DEF chosen, new
<1>5. ASSUME new PROVE RewardRow(chosen) \in PromoRows /\ RewardRow(chosen).reward = chosen
  <2>1. Referral.percent \in 1..100 /\ Referral.limit \in Nat \ {0} /\ Referral.cap \in Nat \ {0}
    BY PromosAssumption DEF Terms
  <2>2. REWARD.percent \in 1..100 /\ REWARD.limit \in Nat \ {0} /\ REWARD.cap \in Nat \ {0}
    BY DEF REWARD, REWARD_PROMO_MAX_PRICE
  <2> HIDE DEF REWARD
  <2> QED
    BY <1>3, <1>4, <1>5, <2>1, <2>2 DEF RewardRow, PromoRows
<1> QED
  BY <1>1, <1>2, <1>3, <1>5 DEF Live

LEMMA CommitPurchaseKeeps ==
  ASSUME IInv, NEW k \in Checkouts, NEW drawn \in Draws(k), CommitPurchase(k, drawn)
  PROVE  IInv'
<1> DEFINE u == Buyer[k]
           t == tx[k]
<1>1. /\ u \in Users /\ u \in known /\ t # None /\ t.to \in SUCCESS /\ t.row \in Rows
      /\ t.code \in Codes \cup {None} /\ status[k] \notin SUCCESS /\ status[k] # "paid"
  <2>1. t # None /\ t.to # None
    BY DEF CommitPurchase
  <2> QED
    BY <2>1, PromosAssumption
    DEF IInv, TypeOK, Transactions, ReferralInv, PurchasesOpen, BuyersKnown, SUCCESS
<1>2. /\ status'[k] = t.to /\ row'[k] = t.row /\ tx'[k] = None
      /\ link'[k] = IF status[k] = "absent" THEN t.code ELSE link[k]
      /\ \A j \in Checkouts \ {k} :
           tx'[j] = tx[j] /\ status'[j] = status[j] /\ link'[j] = link[j] /\ row'[j] = row[j]
  BY DEF CommitPurchase, IInv, TypeOK
<1>3. /\ late' = IF status[k] = "gone" THEN late \cup {k} ELSE late
      /\ granted' = granted \cup Missing(k)
      /\ referral' = IF t.grant THEN [referral EXCEPT ![u].rewarded = TRUE] ELSE referral
      /\ earlier' = IF t.grant THEN [earlier EXCEPT ![k] = Bought(u) \ aside[k]] ELSE earlier
      /\ aside' = [j \in Checkouts |-> IF j = k THEN {}
                                       ELSE IF j \in Overtaken(k) THEN aside[j] \cup {k} ELSE aside[j]]
      /\ UNCHANGED <<expired, known, cleaner, sale, referrals>>
  BY DEF CommitPurchase, settings
<1>4. Missing(k) \subseteq Rewards /\ Missing(k) \subseteq Due(k)
  BY <1>1, DueType DEF Missing
<1>5. t.grant => Sole(k)
  BY <1>1 DEF IInv, ReferralInv, GrantsSole, Granting
<1>6. \A v \in Users : /\ referral'[v] = None <=> referral[v] = None
                       /\ referral[v] # None =>
                            /\ referral'[v] \in ReferralRows
                            /\ referral'[v].by = referral[v].by
                            /\ referral'[v].eligible = referral[v].eligible
                            /\ referral'[v].rewarded = (referral[v].rewarded \/ (t.grant /\ v = u))
  <2> SUFFICES ASSUME NEW v \in Users
               PROVE  /\ referral'[v] = None <=> referral[v] = None
                      /\ referral[v] # None =>
                            /\ referral'[v] \in ReferralRows
                            /\ referral'[v].by = referral[v].by
                            /\ referral'[v].eligible = referral[v].eligible
                            /\ referral'[v].rewarded = (referral[v].rewarded \/ (t.grant /\ v = u))
    OBVIOUS
  <2>0. referral \in [Users -> ReferralRows \cup {None}]
    BY DEF IInv, TypeOK
  <2>1. CASE t.grant /\ v = u
    <3>1. referral[u] \in ReferralRows
      BY <1>1, <1>5, <2>0, <2>1 DEF Sole
    <3>2. referral'[u] = [referral[u] EXCEPT !.rewarded = TRUE]
      BY <1>1, <1>3, <2>0, <2>1
    <3>3. referral'[u] \in ReferralRows /\ referral'[u].by = referral[u].by
          /\ referral'[u].eligible = referral[u].eligible /\ referral'[u].rewarded = TRUE
      BY <3>1, <3>2 DEF ReferralRows
    <3> QED
      BY <2>1, <3>1, <3>3, PromosAssumption
  <2>2. CASE ~(t.grant /\ v = u)
    <3>1. referral'[v] = referral[v]
      BY <1>3, <2>0, <2>2
    <3> QED
      BY <2>0, <2>2, <3>1 DEF ReferralRows
  <2> QED
    BY <2>1, <2>2
<1> HIDE DEF t, u
<1>7. \A c \in Codes : /\ promo[c] # None => promo'[c] = promo[c]
                       /\ promo'[c] = promo[c] \/ (promo'[c] \in PromoRows /\ promo'[c].reward \in Missing(k))
  BY DrawnCodes
<1>8. TypeOK'
  <2>1. promo' \in [Codes -> PromoRows \cup {None}]
    <3>1. promo' = [c \in Codes |-> promo'[c]]
      BY DEF CommitPurchase
    <3> QED
      BY <1>7, <3>1 DEF IInv, TypeOK
  <2>2. referral' \in [Users -> ReferralRows \cup {None}]
    <3>1. referral' = [v \in Users |-> referral'[v]]
      BY <1>3 DEF IInv, TypeOK
    <3> QED
      BY <1>6, <3>1
  <2>3. /\ tx' \in [Checkouts -> Transactions \cup {None}]
        /\ row' \in [Checkouts -> Rows \cup {None}]
        /\ status' \in [Checkouts -> {"absent", "waiting", "paid", "delivered", "gone"}]
        /\ link' \in [Checkouts -> Codes \cup {None}]
    BY <1>1 DEF CommitPurchase, IInv, TypeOK, SUCCESS, t
  <2>4. earlier' \in [Checkouts -> SUBSET Checkouts] /\ aside' \in [Checkouts -> SUBSET Checkouts]
    <3>1. Bought(u) \ aside[k] \in SUBSET Checkouts
      BY DEF Bought
    <3>2. earlier' \in [Checkouts -> SUBSET Checkouts]
      BY <1>3, <3>1 DEF IInv, TypeOK
    <3>3. aside' \in [Checkouts -> SUBSET Checkouts]
      BY <1>3 DEF IInv, TypeOK
    <3> QED
      BY <3>2, <3>3
  <2>5. granted' \subseteq Rewards /\ late' \subseteq Checkouts
    BY <1>3, <1>4 DEF IInv, TypeOK
  <2>6. \A j \in Checkouts : (row'[j] = None) = (status'[j] = "absent")
    BY <1>1, <1>2, PromosAssumption DEF IInv, TypeOK, SUCCESS
  <2>7. \A j \in {i \in Checkouts : tx'[i] # None} :
          (tx'[j].row = None) = (tx'[j].to = None) /\ tx'[j].referred \in {Buyer[j], None}
    BY <1>2 DEF IInv, TypeOK
  <2> QED
    BY <1>3, <2>1, <2>2, <2>3, <2>4, <2>5, <2>6, <2>7 DEF IInv, TypeOK
<1>9. LimitInv'
  <2>1. status[k] = "absent" => k \notin late /\ link[k] = None
    BY DEF IInv, LimitInv, LinksLive
  <2>2. status[k] = "absent" /\ t.code # None => CodeHeld(k, t.code)
    BY <1>1 DEF IInv, LimitInv, CodesHeld, t
  <2>3. ASSUME NEW d \in Codes
        PROVE  /\ ~(status[k] = "absent" /\ t.code = d) =>
                    Uses(d, link', status', late') \in SUBSET Uses(d, link, status, late)
               /\ Uses(d, link', status', late') \in SUBSET (Uses(d, link, status, late) \cup {k})
    BY <1>2, <1>3, <2>3 DEF Uses
  <2>4. ASSUME NEW d \in Codes
        PROVE  /\ ~(status[k] = "absent" /\ t.code = d) =>
                    Cardinality(Uses(d, link', status', late')) <= Cardinality(Uses(d, link, status, late))
               /\ Cardinality(Uses(d, link', status', late')) <= Cardinality(Uses(d, link, status, late)) + 1
               /\ Cardinality(Uses(d, link', status', late')) \in Nat
               /\ Cardinality(Uses(d, link, status, late)) \in Nat
    <3>1. /\ Uses(d, link, status, late) \in SUBSET Checkouts
          /\ Uses(d, link', status', late') \in SUBSET Checkouts
      BY DEF Uses
    <3> QED
      BY <2>3, <3>1, FewerUses, OneMoreUse
  <2>5. UsageWithinLimit'
    <3> SUFFICES ASSUME NEW d \in Codes, promo'[d] # None
                 PROVE  Cardinality(Uses(d, link', status', late')) <= promo'[d].limit
      BY DEF UsageWithinLimit, Uses, Live
    <3>1. CASE promo[d] # None
      <4>1. promo'[d] = promo[d] /\ promo[d].limit \in Nat
        BY <1>7, <3>1 DEF IInv, TypeOK, PromoRows
      <4>2. Cardinality(Uses(d, link, status, late)) <= promo[d].limit
        BY <3>1 DEF IInv, LimitInv, UsageWithinLimit, Uses, Live
      <4>3. status[k] = "absent" /\ t.code = d => Cardinality(Uses(d, link, status, late)) < promo[d].limit
        BY <2>2, PromosAssumption DEF CodeHeld
      <4> QED
        BY <2>4, <4>1, <4>2, <4>3
    <3>2. CASE promo[d] = None
      <4>1. Uses(d, link, status, late) = {}
        BY <3>2, UnusedWithoutRow
      <4>2. ~(status[k] = "absent" /\ t.code = d)
        BY <2>2, <3>2, PromosAssumption DEF CodeHeld
      <4>3. Uses(d, link', status', late') = {}
        BY <2>3, <4>1, <4>2
      <4>4. promo'[d].limit \in Nat
        BY <1>7, <3>2 DEF PromoRows
      <4> QED
        BY <4>3, <4>4, FS_EmptySet
    <3> QED
      BY <3>1, <3>2
  <2>6. LinksLive'
    <3>1. ASSUME NEW j \in Checkouts, link'[j] # None PROVE promo'[link'[j]] # None /\ status'[j] # "absent"
      <4>1. CASE j = k
        <5>1. link'[k] \in Codes /\ promo[link'[k]] # None
          BY <1>1, <1>2, <2>2, <3>1, <4>1 DEF IInv, LimitInv, LinksLive, TypeOK, CodeHeld
        <5> QED
          BY <1>1, <1>2, <1>7, <4>1, <5>1 DEF SUCCESS
      <4>2. CASE j # k
        <5>1. link'[j] = link[j] /\ link[j] \in Codes /\ promo[link[j]] # None /\ status'[j] # "absent"
          BY <1>2, <3>1, <4>2 DEF IInv, LimitInv, LinksLive, TypeOK
        <5> QED
          BY <1>7, <5>1
      <4> QED
        BY <4>1, <4>2
    <3>2. ASSUME NEW j \in late' PROVE status'[j] # "absent"
      BY <1>1, <1>2, <1>3 DEF IInv, LimitInv, LinksLive, TypeOK, SUCCESS
    <3> QED
      BY <3>1, <3>2 DEF LinksLive
  <2>7. ASSUME NEW j \in Checkouts, NEW d \in Codes, tx'[j] # None, tx'[j].code = d
        PROVE  CodeHeld(j, d)'
    <3>1. j # k /\ tx[j] # None /\ tx[j].code = d /\ CodeHeld(j, d)
      BY <1>2, <2>7 DEF IInv, LimitInv, CodesHeld
    <3>2. t.code # d
      BY <1>1, <3>1 DEF CodeHeld, t
    <3>3. promo'[d] = promo[d] /\ promo[d].limit \in Nat
      BY <1>7, <3>1 DEF CodeHeld, IInv, TypeOK, PromoRows
    <3> QED
      BY <1>2, <2>4, <3>1, <3>2, <3>3 DEF CodeHeld
  <2>8. ASSUME NEW j \in Checkouts, tx'[j] # None, tx'[j].to = None PROVE tx'[j].code # None
    BY <1>2, <2>8 DEF IInv, LimitInv, CodesHeld
  <2> QED
    BY <2>5, <2>6, <2>7, <2>8 DEF LimitInv, CodesHeld
<1>10. ReferralInv'
  <2>1. PurchasesOpen' /\ BuyersKnown'
    <3>1. PurchasesOpen'
      BY <1>2 DEF IInv, ReferralInv, PurchasesOpen
    <3>2. ASSUME NEW j \in Checkouts, tx'[j] # None \/ status'[j] # "absent" PROVE Buyer[j] \in known'
      BY <1>1, <1>2, <1>3, <3>2 DEF IInv, ReferralInv, BuyersKnown, u
    <3>3. \A v \in Users : referral'[v] # None => v \in known' /\ referral'[v].by # v
      BY <1>3, <1>6 DEF IInv, ReferralInv, BuyersKnown
    <3> QED
      BY <3>1, <3>2, <3>3 DEF BuyersKnown
  <2>2. RewardsGranted'
    <3>1. ASSUME NEW c \in Codes, promo'[c] # None, promo'[c].reward # None PROVE promo'[c].reward \in granted'
      BY <1>3, <1>7, <3>1 DEF IInv, ReferralInv, RewardsGranted
    <3>2. ASSUME NEW g \in granted' PROVE status'[g.order] # "absent"
      <4>1. CASE g \in Missing(k)
        BY <1>1, <1>2, <1>4, <4>1, DueType DEF SUCCESS, t
      <4>2. CASE g \in granted
        BY <1>1, <1>2, <4>2 DEF IInv, ReferralInv, RewardsGranted, TypeOK, Rewards, SUCCESS
      <4> QED
        BY <1>3, <4>1, <4>2
    <3> QED
      BY <3>1, <3>2 DEF RewardsGranted
  <2>3. \A v \in Users : v # u \/ ~t.grant => PaidFor(v, granted') = PaidFor(v, granted)
    <3>1. \A g \in Missing(k) : g.source = "referral" => t.grant /\ Buyer[g.order] = u
      BY <1>1, <1>4, DueType DEF t, u
    <3> QED
      BY <1>3, <3>1 DEF PaidFor
  <2>4. t.grant => PaidFor(u, granted) = {} /\ Bought(u) \subseteq aside[k]
                   /\ referral[u] # None /\ referral[u].by \in Users /\ referral[u].by # u
    <3> SUFFICES ASSUME t.grant
                 PROVE  PaidFor(u, granted) = {} /\ Bought(u) \subseteq aside[k]
                        /\ referral[u] # None /\ referral[u].by \in Users /\ referral[u].by # u
      OBVIOUS
    <3>1. referral[u] # None /\ referral[u].eligible /\ ~referral[u].rewarded /\ Bought(u) \subseteq aside[k]
      BY <1>5 DEF Sole, u
    <3>2. referral[u].by \in Users /\ referral[u].by # u
      BY <1>1, <3>1 DEF IInv, TypeOK, ReferralRows, ReferralInv, BuyersKnown
    <3> QED
      BY <1>1, <3>1, <3>2 DEF IInv, ReferralInv, RewardedIsPaid
  <2>5. t.grant => /\ earlier'[k] = {}
                   /\ PaidFor(u, granted') =
                        {Reward(k, u, "referral"), Reward(k, referral[u].by, "referral")}
    <3> SUFFICES ASSUME t.grant
                 PROVE  /\ earlier'[k] = {}
                        /\ PaidFor(u, granted') =
                             {Reward(k, u, "referral"), Reward(k, referral[u].by, "referral")}
      OBVIOUS
    <3> DEFINE pair == {Reward(k, u, "referral"), Reward(k, referral[u].by, "referral")}
    <3>1. pair \subseteq Due(k) /\ \A g \in Due(k) : g.source = "referral" => g \in pair
      BY <1>1, DueType DEF t, u
    <3>2. \A g \in pair : g.source = "referral" /\ g.order = k
      BY DEF Reward
    <3> HIDE DEF pair
    <3>3. pair \cap granted = {}
      BY <2>4, <3>2 DEF PaidFor, u
    <3>4. pair \cap {promo[c].reward : c \in Live} = {}
      <4>1. \A g \in pair : g # None
        BY <1>1, <3>1, DueType, PromosAssumption DEF t
      <4>2. \A c \in Live : promo[c].reward # None => promo[c].reward \in granted
        BY DEF IInv, ReferralInv, RewardsGranted, Live
      <4> QED
        BY <3>3, <4>1, <4>2
    <3>5. pair \subseteq Missing(k)
      BY <3>1, <3>4 DEF Missing
    <3>6. PaidFor(u, granted') = pair
      BY <1>3, <1>4, <2>4, <3>1, <3>2, <3>5 DEF PaidFor, u
    <3>7. earlier'[k] = {}
      BY <1>3, <2>4 DEF IInv, TypeOK
    <3> QED
      BY <3>6, <3>7 DEF pair
  <2>6. PaidInPairs'
    <3> SUFFICES ASSUME NEW v \in Users PROVE PaidFor(v, granted') = {} \/ PairFor(v)'
      BY DEF PaidInPairs
    <3>1. CASE t.grant /\ v = u
      BY <1>1, <2>4, <2>5, <3>1 DEF PairFor, u
    <3>2. CASE ~(t.grant /\ v = u)
      <4>1. PaidFor(v, granted') = PaidFor(v, granted)
        BY <2>3, <3>2
      <4>2. CASE PairFor(v)
        <5>1. PICK j \in Checkouts, w \in Users :
                /\ Buyer[j] = v /\ w # v /\ earlier[j] = {}
                /\ PaidFor(v, granted) = {Reward(j, v, "referral"), Reward(j, w, "referral")}
          BY <4>2 DEF PairFor
        <5>2. earlier'[j] = {}
          BY <1>3, <3>2, <5>1 DEF IInv, TypeOK, u
        <5> QED
          BY <4>1, <5>1, <5>2 DEF PairFor
      <4> QED
        BY <4>1, <4>2 DEF IInv, ReferralInv, PaidInPairs
    <3> QED
      BY <3>1, <3>2
  <2>7. RewardedIsPaid'
    <3> SUFFICES ASSUME NEW v \in Users, referral'[v] # None, referral'[v].eligible
                 PROVE  referral'[v].rewarded <=> PaidFor(v, granted') # {}
      BY DEF RewardedIsPaid
    <3>1. CASE t.grant /\ v = u
      BY <1>6, <2>5, <3>1
    <3>2. CASE ~(t.grant /\ v = u)
      BY <1>6, <2>3, <3>2 DEF IInv, ReferralInv, RewardedIsPaid
    <3> QED
      BY <3>1, <3>2
  <2>8. GrantsSole'
    <3> SUFFICES ASSUME NEW j \in Checkouts, Granting(j)' PROVE Sole(j)'
      BY DEF GrantsSole
    <3>1. j # k /\ tx'[j] = tx[j] /\ Sole(j)
      BY <1>2 DEF Granting, IInv, ReferralInv, GrantsSole
    <3>2. Buyer[j] \in Users /\ tx[j].referred = Buyer[j] /\ Granting(j)
      BY <3>1, PromosAssumption DEF Sole, Granting
    <3>3. Buyer[j] = u => tx[k].referred = None /\ ~t.grant
      BY <1>1, <1>5, <3>1, <3>2, PromosAssumption DEF Sole, Granting, u, t
    <3>4. Bought(Buyer[j])' \subseteq aside'[j]
      <4>1. aside'[j] = IF j \in Overtaken(k) THEN aside[j] \cup {k} ELSE aside[j]
        BY <1>3, <3>1
      <4>2. Bought(Buyer[j]) \subseteq aside[j]
        BY <3>1 DEF Sole
      <4>3. CASE Buyer[j] = u
        <5>1. j \in Overtaken(k)
          BY <3>1, <3>2, <3>3, <4>3 DEF Overtaken, u
        <5>2. Bought(Buyer[j])' \subseteq Bought(Buyer[j]) \cup {k}
          BY <1>2 DEF Bought
        <5> QED
          BY <4>1, <4>2, <5>1, <5>2
      <4>4. CASE Buyer[j] # u
        <5>1. Bought(Buyer[j])' = Bought(Buyer[j])
          BY <1>2, <4>4 DEF Bought, u
        <5> QED
          BY <4>1, <4>2, <5>1
      <4> QED
        BY <4>3, <4>4
    <3>5. referral'[Buyer[j]] # None /\ referral'[Buyer[j]].eligible /\ ~referral'[Buyer[j]].rewarded
      BY <1>6, <3>1, <3>2, <3>3 DEF Sole
    <3>6. \A i \in Checkouts \ {j} : Buyer[i] = Buyer[j] /\ tx'[i] # None => tx'[i].referred = None
      BY <1>2, <3>1 DEF Sole
    <3> QED
      BY <3>1, <3>4, <3>5, <3>6 DEF Sole
  <2> QED
    BY <2>1, <2>2, <2>6, <2>7, <2>8 DEF ReferralInv
<1> QED
  BY <1>8, <1>9, <1>10 DEF IInv

(***************************************************************************)
(* What becomes of an order, and of a transaction that is not committed.   *)
(***************************************************************************)
LEMMA RollbackKeeps ==
  ASSUME IInv, NEW k \in Checkouts, Rollback(k)
  PROVE  IInv'
<1>1. /\ tx'[k] = None /\ \A j \in Checkouts \ {k} : tx'[j] = tx[j]
      /\ tx' \in [Checkouts -> Transactions \cup {None}]
      /\ \A j \in Checkouts \ {k} : aside'[j] = aside[j]
      /\ aside' \in [Checkouts -> SUBSET Checkouts]
      /\ UNCHANGED <<promo, expired, row, status, link, earlier, late, referral, known, cleaner, sale,
                     referrals, granted>>
  BY DEF Rollback, settings, IInv, TypeOK
<1>2. TypeOK'
  BY <1>1 DEF IInv, TypeOK
<1>3. LimitInv'
  <2>1. UsageWithinLimit' /\ LinksLive'
    BY <1>1 DEF IInv, LimitInv, UsageWithinLimit, LinksLive, Live
  <2>2. CodesHeld'
    <3>1. ASSUME NEW j \in Checkouts, tx'[j] # None, tx'[j].to = None PROVE tx'[j].code # None
      BY <1>1, <3>1 DEF IInv, LimitInv, CodesHeld
    <3>2. ASSUME NEW j \in Checkouts, NEW d \in Codes, tx'[j] # None, tx'[j].code = d
          PROVE  CodeHeld(j, d)'
      <4>1. CodeHeld(j, d)
        BY <1>1, <3>2 DEF IInv, LimitInv, CodesHeld
      <4> QED
        BY <1>1, <4>1 DEF CodeHeld, Uses
    <3> QED
      BY <3>1, <3>2 DEF CodesHeld
  <2> QED
    BY <2>1, <2>2 DEF LimitInv
<1>4. ReferralInv'
  <2>1. PurchasesOpen' /\ BuyersKnown'
    BY <1>1 DEF IInv, ReferralInv, PurchasesOpen, BuyersKnown
  <2>2. RewardsGranted' /\ PaidInPairs' /\ RewardedIsPaid'
    BY <1>1 DEF IInv, ReferralInv, RewardsGranted, PaidInPairs, PairFor, PaidFor, RewardedIsPaid, Reward
  <2>3. GrantsSole'
    BY <1>1 DEF IInv, ReferralInv, GrantsSole, Granting, Sole, Bought
  <2> QED
    BY <2>1, <2>2, <2>3 DEF ReferralInv
<1> QED
  BY <1>2, <1>3, <1>4 DEF IInv

\* An order no transaction holds is given up or delivered.
LEMMA StatusMoves ==
  ASSUME IInv, NEW k \in Checkouts, NEW s \in {"gone", "delivered"}, tx[k] = None,
         status[k] # "absent", s = "delivered" => status[k] = "paid",
         status' = [status EXCEPT ![k] = s],
         UNCHANGED <<promo, expired, row, link, earlier, aside, late, referral, known, tx, cleaner, sale,
                     referrals, granted>>
  PROVE  IInv'
<1>1. status'[k] = s /\ \A j \in Checkouts \ {k} : status'[j] = status[j]
  BY DEF IInv, TypeOK
<1>2. TypeOK'
  <2>1. status' \in [Checkouts -> {"absent", "waiting", "paid", "delivered", "gone"}]
    BY DEF IInv, TypeOK
  <2>2. \A j \in Checkouts : (row'[j] = None) = (status'[j] = "absent")
    BY <1>1 DEF IInv, TypeOK
  <2> QED
    BY <2>1, <2>2 DEF IInv, TypeOK
<1>3. LimitInv'
  <2>1. ASSUME NEW d \in Codes
        PROVE  /\ Cardinality(Uses(d, link', status', late')) <= Cardinality(Uses(d, link, status, late))
               /\ Cardinality(Uses(d, link', status', late')) \in Nat
               /\ Cardinality(Uses(d, link, status, late)) \in Nat
    <3>1. Uses(d, link', status', late') \in SUBSET Uses(d, link, status, late)
      BY <1>1 DEF Uses
    <3>2. Uses(d, link, status, late) \in SUBSET Checkouts
      BY DEF Uses
    <3> QED
      BY <3>1, <3>2, FewerUses
  <2>2. UsageWithinLimit'
    <3> SUFFICES ASSUME NEW d \in Codes, promo[d] # None
                 PROVE  Cardinality(Uses(d, link', status', late')) <= promo[d].limit
      BY DEF UsageWithinLimit, Uses, Live
    <3>1. promo[d].limit \in Nat /\ Cardinality(Uses(d, link, status, late)) <= promo[d].limit
      BY DEF IInv, TypeOK, PromoRows, LimitInv, UsageWithinLimit, Uses, Live
    <3> DEFINE before == Cardinality(Uses(d, link, status, late))
               after == Cardinality(Uses(d, link', status', late'))
    <3>2. after <= before /\ after \in Nat /\ before \in Nat
      BY <2>1
    <3>3. promo[d].limit \in Nat /\ before <= promo[d].limit
      BY <3>1
    <3> HIDE DEF before, after
    <3>4. after <= promo[d].limit
      BY <3>2, <3>3
    <3> QED
      BY <3>4 DEF after
  <2>3. LinksLive'
    BY <1>1 DEF IInv, LimitInv, LinksLive
  <2>4. ASSUME NEW j \in Checkouts, NEW d \in Codes, tx'[j] # None, tx'[j].code = d
        PROVE  CodeHeld(j, d)'
    <3>1. j # k /\ CodeHeld(j, d)
      BY <2>4 DEF IInv, LimitInv, CodesHeld
    <3>2. promo[d].limit \in Nat
      BY <3>1 DEF CodeHeld, IInv, TypeOK, PromoRows
    <3> DEFINE before == Cardinality(Uses(d, link, status, late))
               after == Cardinality(Uses(d, link', status', late'))
    <3>3. after <= before /\ after \in Nat /\ before \in Nat
      BY <2>1
    <3>4. before < promo[d].limit
      BY <3>1 DEF CodeHeld
    <3> HIDE DEF before, after
    <3>5. after < promo[d].limit
      BY <3>2, <3>3, <3>4
    <3> QED
      BY <1>1, <3>1, <3>5 DEF CodeHeld, after
  <2> QED
    BY <2>2, <2>3, <2>4 DEF IInv, LimitInv, CodesHeld
<1>4. ReferralInv'
  <2>1. PurchasesOpen' /\ BuyersKnown'
    BY <1>1 DEF IInv, ReferralInv, PurchasesOpen, BuyersKnown
  <2>2. PaidInPairs' /\ RewardedIsPaid'
    BY PairsKept DEF IInv, ReferralInv
  <2>3. RewardsGranted'
    BY <1>1 DEF IInv, ReferralInv, RewardsGranted, TypeOK, Rewards
  <2>4. \A v \in Users : Bought(v)' \subseteq Bought(v)
    BY <1>1 DEF Bought, SUCCESS
  <2>5. GrantsSole'
    <3> SUFFICES ASSUME NEW j \in Checkouts, Granting(j)' PROVE Sole(j)'
      BY DEF GrantsSole
    <3>1. Sole(j)
      BY DEF Granting, IInv, ReferralInv, GrantsSole
    <3> QED
      BY <2>4, <3>1, PromosAssumption DEF Sole
  <2> QED
    BY <2>1, <2>2, <2>3, <2>5 DEF ReferralInv
<1> QED
  BY <1>2, <1>3, <1>4 DEF IInv

LEMMA OutcomeKeeps ==
  ASSUME IInv, NEW k \in Checkouts, Outcome(k)
  PROVE  IInv'
<1>1. CASE GiveUp(k)
  <2>1. tx[k] = None /\ status[k] # "absent" /\ status' = [status EXCEPT ![k] = "gone"]
    BY <1>1 DEF GiveUp, OrderFree
  <2>2. UNCHANGED <<promo, expired, row, link, earlier, aside, late, referral, known, tx, cleaner, sale, referrals, granted>>
    BY <1>1 DEF GiveUp, settings
  <2> QED
    BY <2>1, <2>2, StatusMoves
<1>2. CASE GiveUpLate(k)
  <2>1. tx[k] = None /\ status[k] # "absent" /\ status' = [status EXCEPT ![k] = "gone"]
    BY <1>2 DEF GiveUpLate, OrderFree, SUCCESS
  <2>2. UNCHANGED <<promo, expired, row, link, earlier, aside, late, referral, known, tx, cleaner, sale, referrals, granted>>
    BY <1>2 DEF GiveUpLate, settings
  <2> QED
    BY <2>1, <2>2, StatusMoves
<1>3. CASE Deliver(k)
  <2>1. tx[k] = None /\ status[k] = "paid" /\ status' = [status EXCEPT ![k] = "delivered"]
    BY <1>3 DEF Deliver, OrderFree
  <2>2. UNCHANGED <<promo, expired, row, link, earlier, aside, late, referral, known, tx, cleaner, sale, referrals, granted>>
    BY <1>3 DEF Deliver, settings
  <2> QED
    BY <2>1, <2>2, StatusMoves
<1> QED
  BY <1>1, <1>2, <1>3, RollbackKeeps DEF Outcome

(***************************************************************************)
(* The worker's cleanup and the administrator's forms.                     *)
(***************************************************************************)
\* Fewer codes, and fewer orders that have one.
LEMMA CodesDropped ==
  ASSUME IInv, NEW C \in SUBSET Codes, NEW unlinked \in SUBSET Checkouts,
         C \cap LockedCodes = {}, DropCodes(C, unlinked), cleaner' \in (SUBSET Checkouts) \cup {None},
         UNCHANGED <<row, status, earlier, aside, late, referral, known, tx, sale, referrals, granted>>
  PROVE  IInv'
<1>1. /\ \A c \in Codes : promo'[c] = promo[c] \/ (c \in C /\ promo'[c] = None)
      /\ promo' \in [Codes -> PromoRows \cup {None}]
      /\ expired' \subseteq Codes
  BY DEF DropCodes, IInv, TypeOK
<1>2. /\ \A k \in Checkouts : /\ link'[k] \in {link[k], None}
                              /\ link'[k] # None /\ link'[k] \in C => promo'[link'[k]] = promo[link'[k]]
      /\ link' \in [Checkouts -> Codes \cup {None}]
  <2>1. CASE Linked(C) \subseteq unlinked
    <3>1. link' = [k \in Checkouts |-> IF k \in unlinked THEN None ELSE link[k]]
      BY <2>1 DEF DropCodes
    <3>2. \A k \in Checkouts : link'[k] # None => link'[k] = link[k] /\ link[k] \notin C
      BY <2>1, <3>1 DEF Linked
    <3> QED
      BY <3>1, <3>2 DEF IInv, TypeOK
  <2>2. CASE ~(Linked(C) \subseteq unlinked)
    BY <2>2 DEF DropCodes, IInv, TypeOK
  <2> QED
    BY <2>1, <2>2
<1>3. TypeOK'
  BY <1>1, <1>2 DEF IInv, TypeOK
<1>4. ASSUME NEW k \in Checkouts, NEW c \in Codes, tx[k] # None, tx[k].code = c PROVE promo'[c] = promo[c]
  <2>1. c \in LockedCodes
    BY <1>4, PromosAssumption DEF LockedCodes
  <2> QED
    BY <1>1, <2>1
<1>5. LimitInv'
  <2>1. ASSUME NEW d \in Codes
        PROVE  /\ Cardinality(Uses(d, link', status', late')) <= Cardinality(Uses(d, link, status, late))
               /\ Cardinality(Uses(d, link', status', late')) \in Nat
               /\ Cardinality(Uses(d, link, status, late)) \in Nat
    <3>1. Uses(d, link', status', late') \in SUBSET Uses(d, link, status, late)
      BY <1>2, PromosAssumption DEF Uses
    <3>2. Uses(d, link, status, late) \in SUBSET Checkouts
      BY DEF Uses
    <3> QED
      BY <3>1, <3>2, FewerUses
  <2>2. UsageWithinLimit'
    <3> SUFFICES ASSUME NEW d \in Codes, promo'[d] # None
                 PROVE  Cardinality(Uses(d, link', status', late')) <= promo'[d].limit
      BY DEF UsageWithinLimit, Uses, Live
    <3>1. /\ promo'[d] = promo[d] /\ promo[d].limit \in Nat
          /\ Cardinality(Uses(d, link, status, late)) <= promo[d].limit
      BY <1>1 DEF IInv, TypeOK, PromoRows, LimitInv, UsageWithinLimit, Uses, Live
    <3> DEFINE before == Cardinality(Uses(d, link, status, late))
               after == Cardinality(Uses(d, link', status', late'))
    <3>2. after <= before /\ after \in Nat /\ before \in Nat
      BY <2>1
    <3>3. before <= promo[d].limit
      BY <3>1
    <3> HIDE DEF before, after
    <3>4. after <= promo'[d].limit
      BY <3>1, <3>2, <3>3
    <3> QED
      BY <3>4 DEF after
  <2>3. LinksLive'
    BY <1>1, <1>2 DEF IInv, LimitInv, LinksLive, TypeOK
  <2>4. ASSUME NEW j \in Checkouts, NEW d \in Codes, tx'[j] # None, tx'[j].code = d
        PROVE  CodeHeld(j, d)'
    <3>1. CodeHeld(j, d) /\ promo'[d] = promo[d]
      BY <1>4, <2>4 DEF IInv, LimitInv, CodesHeld
    <3>2. promo[d].limit \in Nat
      BY <3>1 DEF CodeHeld, IInv, TypeOK, PromoRows
    <3> DEFINE before == Cardinality(Uses(d, link, status, late))
               after == Cardinality(Uses(d, link', status', late'))
    <3>3. after <= before /\ after \in Nat /\ before \in Nat
      BY <2>1
    <3>4. before < promo[d].limit
      BY <3>1 DEF CodeHeld
    <3> HIDE DEF before, after
    <3>5. after < promo'[d].limit
      BY <3>1, <3>2, <3>3, <3>4
    <3> QED
      BY <3>1, <3>5 DEF CodeHeld, after
  <2> QED
    BY <2>2, <2>3, <2>4 DEF IInv, LimitInv, CodesHeld
<1>6. ReferralInv'
  <2>1. PurchasesOpen' /\ BuyersKnown'
    BY DEF IInv, ReferralInv, PurchasesOpen, BuyersKnown
  <2>2. PaidInPairs' /\ RewardedIsPaid'
    BY PairsKept DEF IInv, ReferralInv
  <2>3. RewardsGranted'
    BY <1>1 DEF IInv, ReferralInv, RewardsGranted
  <2>4. GrantsSole'
    BY DEF IInv, ReferralInv, GrantsSole, Granting, Sole, Bought
  <2> QED
    BY <2>1, <2>2, <2>3, <2>4 DEF ReferralInv
<1> QED
  BY <1>3, <1>5, <1>6 DEF IInv

\* What the invariant does not ask about: the clock, the settings, the cleanup's
\* first statement.
LEMMA UnrelatedKeep ==
  ASSUME IInv, expired' \subseteq Codes, cleaner' \in (SUBSET Checkouts) \cup {None}, sale' \in BOOLEAN,
         referrals' \in BOOLEAN,
         UNCHANGED <<promo, row, status, link, earlier, aside, late, referral, known, tx, granted>>
  PROVE  IInv'
<1>1. TypeOK'
  BY DEF IInv, TypeOK
<1>2. LimitInv'
  BY DEF IInv, LimitInv, UsageWithinLimit, LinksLive, Live, CodesHeld, CodeHeld, Uses
<1>3. ReferralInv'
  BY DEF IInv, ReferralInv, PurchasesOpen, BuyersKnown, RewardsGranted, PaidInPairs,
         PairFor, PaidFor, RewardedIsPaid, Reward, GrantsSole, Granting, Sole, Bought
<1> QED
  BY <1>1, <1>2, <1>3 DEF IInv

LEMMA WorkerKeeps ==
  ASSUME IInv, Worker \/ \E c \in Codes : Expire(c)
  PROVE  IInv'
<1>1. ASSUME NEW c \in Codes, Expire(c) PROVE IInv'
  <2>1. expired' \subseteq Codes /\ cleaner' \in (SUBSET Checkouts) \cup {None} /\ sale' \in BOOLEAN
        /\ referrals' \in BOOLEAN
    BY <1>1 DEF Expire, settings, IInv, TypeOK
  <2> QED
    BY <1>1, <2>1, UnrelatedKeep DEF Expire, orders, settings
<1>2. CASE UnlinkExpired
  <2>1. expired' \subseteq Codes /\ cleaner' \in (SUBSET Checkouts) \cup {None} /\ sale' \in BOOLEAN
        /\ referrals' \in BOOLEAN
    BY <1>2 DEF UnlinkExpired, Linked, settings, IInv, TypeOK
  <2> QED
    BY <1>2, <2>1, UnrelatedKeep DEF UnlinkExpired, orders, settings
<1>3. CASE DeleteExpired
  <2>1. expired \in SUBSET Codes /\ cleaner \in SUBSET Checkouts
    BY <1>3 DEF DeleteExpired, IInv, TypeOK
  <2>2. /\ expired \cap LockedCodes = {} /\ DropCodes(expired, cleaner) /\ cleaner' = None
        /\ UNCHANGED <<row, status, earlier, aside, late, referral, known, tx, sale, referrals, granted>>
    BY <1>3 DEF DeleteExpired, settings
  <2> QED
    BY <2>1, <2>2, CodesDropped
<1> QED
  BY <1>1, <1>2, <1>3 DEF Worker

LEMMA DeletePromoKeeps ==
  ASSUME IInv, NEW c \in Codes, DeletePromo(c)
  PROVE  IInv'
<1>1. /\ {c} \in SUBSET Codes /\ Linked({c}) \in SUBSET Checkouts
      /\ {c} \cap LockedCodes = {} /\ DropCodes({c}, Linked({c}))
      /\ cleaner' \in (SUBSET Checkouts) \cup {None}
      /\ UNCHANGED <<row, status, earlier, aside, late, referral, known, tx, sale, referrals, granted>>
  BY DEF DeletePromo, Linked, settings, IInv, TypeOK
<1> QED
  BY <1>1, CodesDropped

LEMMA CreatePromoKeeps ==
  ASSUME IInv, NEW c \in Codes, CreatePromo(c)
  PROVE  IInv'
<1> DEFINE terms == [percent |-> Typed[c].percent, limit |-> Typed[c].limit, cap |-> Typed[c].cap, reward |-> None]
<1>1. promo[c] = None /\ c \in DOMAIN Typed
  BY DEF CreatePromo, Live
<1>2. terms \in PromoRows /\ terms.reward = None
  <2>1. Typed[c].percent \in 1..100 /\ Typed[c].limit \in Nat \ {0} /\ Typed[c].cap \in Nat \ {0}
    BY <1>1, PromosAssumption DEF Terms
  <2> QED
    BY <2>1 DEF PromoRows
<1>3. /\ promo' = [promo EXCEPT ![c] = terms]
      /\ UNCHANGED <<expired, row, status, link, earlier, aside, late, referral, known, tx, cleaner, sale,
                     referrals, granted>>
  BY DEF CreatePromo, orders, settings
<1> HIDE DEF terms
<1>4. promo'[c] = terms /\ \A d \in Codes \ {c} : promo'[d] = promo[d]
  BY <1>3 DEF IInv, TypeOK
<1>5. TypeOK'
  BY <1>2, <1>3 DEF IInv, TypeOK
<1>6. LimitInv'
  <2>1. UsageWithinLimit'
    <3> SUFFICES ASSUME NEW d \in Codes, promo'[d] # None
                 PROVE  Cardinality(Uses(d, link, status, late)) <= promo'[d].limit
      BY <1>3 DEF UsageWithinLimit, Uses, Live
    <3>1. CASE d = c
      <4>1. Uses(d, link, status, late) = {}
        BY <1>1, <3>1, UnusedWithoutRow
      <4>2. terms.limit \in Nat
        BY <1>2 DEF PromoRows
      <4> QED
        BY <1>4, <3>1, <4>1, <4>2, FS_EmptySet
    <3>2. CASE d # c
      BY <1>4, <3>2 DEF IInv, LimitInv, UsageWithinLimit, Uses, Live
    <3> QED
      BY <3>1, <3>2
  <2>2. LinksLive'
    BY <1>1, <1>3, <1>4 DEF IInv, LimitInv, LinksLive, TypeOK
  <2>3. ASSUME NEW j \in Checkouts, NEW d \in Codes, tx'[j] # None, tx'[j].code = d
        PROVE  CodeHeld(j, d)'
    <3>1. CodeHeld(j, d)
      BY <1>3, <2>3 DEF IInv, LimitInv, CodesHeld
    <3> QED
      BY <1>1, <1>3, <1>4, <3>1 DEF CodeHeld, Uses
  <2> QED
    BY <1>3, <2>1, <2>2, <2>3 DEF IInv, LimitInv, CodesHeld
<1>7. ReferralInv'
  <2>1. PurchasesOpen' /\ BuyersKnown'
    BY <1>3 DEF IInv, ReferralInv, PurchasesOpen, BuyersKnown
  <2>2. PaidInPairs' /\ RewardedIsPaid'
    BY <1>3, PairsKept DEF IInv, ReferralInv
  <2>3. RewardsGranted'
    BY <1>2, <1>3, <1>4 DEF IInv, ReferralInv, RewardsGranted
  <2>4. GrantsSole'
    BY <1>3 DEF IInv, ReferralInv, GrantsSole, Granting, Sole, Bought
  <2> QED
    BY <2>1, <2>2, <2>3, <2>4 DEF ReferralInv
<1> QED
  BY <1>5, <1>6, <1>7 DEF IInv

LEMMA SettingsKeep ==
  ASSUME IInv, ToggleSale \/ ToggleReferrals
  PROVE  IInv'
<1>1. CASE ToggleSale
  <2>1. expired' \subseteq Codes /\ cleaner' \in (SUBSET Checkouts) \cup {None} /\ sale' \in BOOLEAN
        /\ referrals' \in BOOLEAN
    BY <1>1 DEF ToggleSale, IInv, TypeOK
  <2> QED
    BY <1>1, <2>1, UnrelatedKeep DEF ToggleSale, orders
<1>2. CASE ToggleReferrals
  <2>1. expired' \subseteq Codes /\ cleaner' \in (SUBSET Checkouts) \cup {None} /\ sale' \in BOOLEAN
        /\ referrals' \in BOOLEAN
    BY <1>2 DEF ToggleReferrals, IInv, TypeOK
  <2> QED
    BY <1>2, <2>1, UnrelatedKeep DEF ToggleReferrals, orders
<1> QED
  BY <1>1, <1>2

\* A user goes with everything of theirs, when none of it is in use.
LEMMA DeleteUserKeeps ==
  ASSUME IInv, NEW u \in Users, DeleteUser(u)
  PROVE  IInv'
<1> DEFINE mine == {k \in Checkouts : Buyer[k] = u /\ status[k] # "absent"}
           rewards == {c \in Live : promo[c].reward # None /\ promo[c].reward.order \in mine}
<1>1. /\ \A k \in Checkouts : Buyer[k] = u => OrderFree(k)
      /\ Linked(rewards) = {} /\ rewards \cap LockedCodes = {}
      /\ \A k \in Checkouts : tx[k] # None /\ tx[k].referred # None => referral[tx[k].referred].by # u
      /\ promo' = [c \in Codes |-> IF c \in rewards THEN None ELSE promo[c]]
      /\ expired' = expired \ rewards
      /\ row' = [k \in Checkouts |-> IF k \in mine THEN None ELSE row[k]]
      /\ status' = [k \in Checkouts |-> IF k \in mine THEN "absent" ELSE status[k]]
      /\ link' = [k \in Checkouts |-> IF k \in mine THEN None ELSE link[k]]
      /\ earlier' = [k \in Checkouts |-> IF k \in mine THEN {} ELSE earlier[k]]
      /\ late' = late \ mine
      /\ referral' = [v \in Users |->
                        IF referral[v] # None /\ u \in {v, referral[v].by} THEN None ELSE referral[v]]
      /\ granted' = {g \in granted : g.order \notin mine}
      /\ known' = known \ {u}
      /\ UNCHANGED <<tx, cleaner, sale, referrals, aside>>
  BY DEF DeleteUser, settings
<1>2. \A k \in Checkouts : k \in mine <=> Buyer[k] = u /\ status[k] # "absent"
  OBVIOUS
<1>3. \A c \in Codes : c \in rewards <=>
        promo[c] # None /\ promo[c].reward # None /\ promo[c].reward.order \in mine
  BY DEF Live
<1> HIDE DEF mine, rewards
<1>4. \A k \in Checkouts : tx[k] # None => Buyer[k] # u /\ k \notin mine
  BY <1>1, <1>2 DEF OrderFree
<1>5. TypeOK'
  <2>1. /\ promo' \in [Codes -> PromoRows \cup {None}] /\ expired' \subseteq Codes
        /\ row' \in [Checkouts -> Rows \cup {None}]
        /\ status' \in [Checkouts -> {"absent", "waiting", "paid", "delivered", "gone"}]
        /\ link' \in [Checkouts -> Codes \cup {None}]
    BY <1>1 DEF IInv, TypeOK
  <2>2. /\ earlier' \in [Checkouts -> SUBSET Checkouts] /\ late' \subseteq Checkouts
        /\ referral' \in [Users -> ReferralRows \cup {None}]
        /\ granted' \subseteq Rewards /\ known' \subseteq Users
    BY <1>1 DEF IInv, TypeOK
  <2>3. \A k \in Checkouts : (row'[k] = None) = (status'[k] = "absent")
    BY <1>1 DEF IInv, TypeOK
  <2> QED
    BY <1>1, <2>1, <2>2, <2>3 DEF IInv, TypeOK
<1>6. LimitInv'
  <2>1. ASSUME NEW d \in Codes
        PROVE  /\ Cardinality(Uses(d, link', status', late')) <= Cardinality(Uses(d, link, status, late))
               /\ Cardinality(Uses(d, link', status', late')) \in Nat
               /\ Cardinality(Uses(d, link, status, late)) \in Nat
    <3>1. Uses(d, link', status', late') \in SUBSET Uses(d, link, status, late)
      BY <1>1, PromosAssumption DEF Uses
    <3>2. Uses(d, link, status, late) \in SUBSET Checkouts
      BY DEF Uses
    <3> QED
      BY <3>1, <3>2, FewerUses
  <2>2. \A c \in Codes : promo'[c] # None => promo'[c] = promo[c]
    BY <1>1
  <2>3. UsageWithinLimit'
    <3> SUFFICES ASSUME NEW d \in Codes, promo'[d] # None
                 PROVE  Cardinality(Uses(d, link', status', late')) <= promo'[d].limit
      BY DEF UsageWithinLimit, Uses, Live
    <3>1. /\ promo'[d] = promo[d] /\ promo[d].limit \in Nat
          /\ Cardinality(Uses(d, link, status, late)) <= promo[d].limit
      BY <2>2 DEF IInv, TypeOK, PromoRows, LimitInv, UsageWithinLimit, Uses, Live
    <3> DEFINE before == Cardinality(Uses(d, link, status, late))
               after == Cardinality(Uses(d, link', status', late'))
    <3>2. after <= before /\ after \in Nat /\ before \in Nat
      BY <2>1
    <3>3. before <= promo[d].limit
      BY <3>1
    <3> HIDE DEF before, after
    <3>4. after <= promo'[d].limit
      BY <3>1, <3>2, <3>3
    <3> QED
      BY <3>4 DEF after
  <2>4. LinksLive'
    <3>1. ASSUME NEW k \in Checkouts, link'[k] # None PROVE promo'[link'[k]] # None /\ status'[k] # "absent"
      <4>1. k \notin mine /\ link'[k] = link[k] /\ status'[k] = status[k] /\ link[k] \notin rewards
        BY <1>1, <3>1 DEF Linked
      <4> QED
        BY <1>1, <3>1, <4>1 DEF IInv, LimitInv, LinksLive, TypeOK
    <3>2. ASSUME NEW k \in late' PROVE status'[k] # "absent"
      BY <1>1 DEF IInv, LimitInv, LinksLive, TypeOK
    <3> QED
      BY <3>1, <3>2 DEF LinksLive
  <2>5. ASSUME NEW j \in Checkouts, NEW d \in Codes, tx'[j] # None, tx'[j].code = d
        PROVE  CodeHeld(j, d)'
    <3>1. CodeHeld(j, d) /\ d \notin rewards /\ j \notin mine
      BY <1>1, <1>4, <2>5, PromosAssumption DEF IInv, LimitInv, CodesHeld, LockedCodes
    <3>2. promo[d].limit \in Nat /\ promo'[d] = promo[d]
      BY <1>1, <3>1 DEF CodeHeld, IInv, TypeOK, PromoRows
    <3> DEFINE before == Cardinality(Uses(d, link, status, late))
               after == Cardinality(Uses(d, link', status', late'))
    <3>3. after <= before /\ after \in Nat /\ before \in Nat
      BY <2>1
    <3>4. before < promo[d].limit
      BY <3>1 DEF CodeHeld
    <3> HIDE DEF before, after
    <3>5. after < promo'[d].limit
      BY <3>2, <3>3, <3>4
    <3> QED
      BY <1>1, <3>1, <3>2, <3>5 DEF CodeHeld, after
  <2>6. ASSUME NEW j \in Checkouts, tx'[j] # None, tx'[j].to = None PROVE tx'[j].code # None
    BY <1>1, <2>6 DEF IInv, LimitInv, CodesHeld
  <2> QED
    BY <2>3, <2>4, <2>5, <2>6 DEF LimitInv, CodesHeld
<1>7. ReferralInv'
  <2>1. PurchasesOpen'
    BY <1>1, <1>4 DEF IInv, ReferralInv, PurchasesOpen
  <2>2. BuyersKnown'
    <3>1. ASSUME NEW k \in Checkouts, tx'[k] # None \/ status'[k] # "absent" PROVE Buyer[k] \in known'
      BY <1>1, <1>2, <1>4, <3>1 DEF IInv, ReferralInv, BuyersKnown
    <3>2. ASSUME NEW v \in Users, referral'[v] # None PROVE v \in known' /\ referral'[v].by # v
      BY <1>1, <3>2 DEF IInv, ReferralInv, BuyersKnown
    <3> QED
      BY <3>1, <3>2 DEF BuyersKnown
  <2>3. RewardsGranted'
    <3>1. ASSUME NEW c \in Codes, promo'[c] # None, promo'[c].reward # None PROVE promo'[c].reward \in granted'
      BY <1>1, <1>3, <3>1 DEF IInv, ReferralInv, RewardsGranted
    <3>2. ASSUME NEW g \in granted' PROVE status'[g.order] # "absent"
      <4>1. g \in granted /\ g.order \in Checkouts /\ g.order \notin mine
        BY <1>1 DEF IInv, TypeOK, Rewards
      <4> QED
        BY <1>1, <4>1 DEF IInv, ReferralInv, RewardsGranted
    <3> QED
      BY <3>1, <3>2 DEF RewardsGranted
  <2>4. \A v \in Users \ {u} : PaidFor(v, granted') = PaidFor(v, granted)
    BY <1>1, <1>2 DEF PaidFor, IInv, TypeOK, Rewards
  <2>5. PaidFor(u, granted') = {}
    <3> SUFFICES ASSUME NEW g \in granted', Buyer[g.order] = u PROVE FALSE
      BY DEF PaidFor
    <3>1. g \in granted /\ g.order \in Checkouts /\ g.order \notin mine
      BY <1>1 DEF IInv, TypeOK, Rewards
    <3> QED
      BY <1>2, <3>1 DEF IInv, ReferralInv, RewardsGranted
  <2>6. PaidInPairs'
    <3> SUFFICES ASSUME NEW v \in Users, v # u PROVE PaidFor(v, granted') = {} \/ PairFor(v)'
      BY <2>5 DEF PaidInPairs
    <3>1. CASE PairFor(v)
      <4>1. PICK j \in Checkouts, w \in Users :
              /\ Buyer[j] = v /\ w # v /\ earlier[j] = {}
              /\ PaidFor(v, granted) = {Reward(j, v, "referral"), Reward(j, w, "referral")}
        BY <3>1 DEF PairFor
      <4>2. earlier'[j] = {}
        BY <1>1, <4>1
      <4> QED
        BY <2>4, <4>1, <4>2 DEF PairFor
    <3> QED
      BY <2>4, <3>1 DEF IInv, ReferralInv, PaidInPairs
  <2>7. RewardedIsPaid'
    BY <1>1, <2>4 DEF IInv, ReferralInv, RewardedIsPaid
  <2>8. GrantsSole'
    <3> SUFFICES ASSUME NEW j \in Checkouts, Granting(j)' PROVE Sole(j)'
      BY DEF GrantsSole
    <3>1. tx[j] # None /\ Sole(j) /\ Buyer[j] # u /\ Buyer[j] \in Users
      BY <1>1, <1>4, PromosAssumption DEF Granting, IInv, ReferralInv, GrantsSole
    <3>2. referral[Buyer[j]] # None /\ referral[Buyer[j]].by # u
      BY <1>1, <3>1, PromosAssumption DEF Sole
    <3>3. referral'[Buyer[j]] = referral[Buyer[j]]
      BY <1>1, <3>1, <3>2
    <3>4. Bought(Buyer[j])' = Bought(Buyer[j])
      BY <1>1, <1>2, <3>1 DEF Bought
    <3> QED
      BY <1>1, <3>1, <3>3, <3>4 DEF Sole
  <2> QED
    BY <2>1, <2>2, <2>3, <2>6, <2>7, <2>8 DEF ReferralInv
<1> QED
  BY <1>5, <1>6, <1>7 DEF IInv

LEMMA StartKeeps ==
  ASSUME IInv, NEW u \in Users, NEW by \in Users \cup {None}, Start(u, by)
  PROVE  IInv'
<1> DEFINE new == [by |-> by, eligible |-> Newcomer(u), rewarded |-> FALSE]
           added == by # None /\ by # u /\ by \in known /\ referrals /\ referral[u] = None
<1>1. /\ known' = known \cup {u}
      /\ referral' = IF added THEN [referral EXCEPT ![u] = new] ELSE referral
      /\ UNCHANGED <<promo, expired, row, status, link, earlier, aside, late, tx, cleaner, sale, referrals, granted>>
  BY DEF Start, orders, settings
<1>2. new.by = by /\ new.eligible = Newcomer(u) /\ new.rewarded = FALSE
  OBVIOUS
<1>3. added => new \in ReferralRows
  BY DEF ReferralRows, Newcomer
<1> HIDE DEF new, added
<1>4. /\ \A v \in Users : referral'[v] = referral[v] \/ (v = u /\ added /\ referral'[v] = new)
      /\ referral' \in [Users -> ReferralRows \cup {None}]
  BY <1>1, <1>3 DEF IInv, TypeOK
<1>5. added => referral[u] = None /\ by # u
  BY DEF added
<1>6. new.eligible => /\ \A k \in Checkouts : Buyer[k] = u => tx[k] = None /\ status[k] = "absent"
                      /\ PaidFor(u, granted) = {}
  <2> SUFFICES ASSUME u \notin known
               PROVE  /\ \A k \in Checkouts : Buyer[k] = u => tx[k] = None /\ status[k] = "absent"
                      /\ PaidFor(u, granted) = {}
    BY <1>2 DEF Newcomer
  <2>1. \A k \in Checkouts : Buyer[k] = u => tx[k] = None /\ status[k] = "absent"
    BY DEF IInv, ReferralInv, BuyersKnown
  <2>2. ASSUME NEW g \in granted, Buyer[g.order] = u PROVE FALSE
    BY <2>1, <2>2 DEF IInv, ReferralInv, RewardsGranted, TypeOK, Rewards
  <2> QED
    BY <2>1, <2>2 DEF PaidFor
<1>7. TypeOK'
  BY <1>1, <1>4 DEF IInv, TypeOK
<1>8. LimitInv'
  BY <1>1 DEF IInv, LimitInv, UsageWithinLimit, LinksLive, Live, CodesHeld, CodeHeld, Uses
<1>9. ReferralInv'
  <2>1. PurchasesOpen' /\ RewardsGranted' /\ PaidInPairs'
    BY <1>1 DEF IInv, ReferralInv, PurchasesOpen, RewardsGranted, PaidInPairs, PairFor, PaidFor, Reward
  <2>2. BuyersKnown'
    BY <1>1, <1>2, <1>4, <1>5 DEF IInv, ReferralInv, BuyersKnown
  <2>3. RewardedIsPaid'
    BY <1>1, <1>2, <1>4, <1>6 DEF IInv, ReferralInv, RewardedIsPaid
  <2>4. GrantsSole'
    <3> SUFFICES ASSUME NEW j \in Checkouts, Granting(j)' PROVE Sole(j)'
      BY DEF GrantsSole
    <3>1. Sole(j) /\ Buyer[j] \in Users
      BY <1>1, PromosAssumption DEF Granting, IInv, ReferralInv, GrantsSole
    <3>2. referral'[Buyer[j]] = referral[Buyer[j]]
      BY <1>4, <1>5, <3>1 DEF Sole
    <3> QED
      BY <1>1, <3>1, <3>2 DEF Sole, Bought
  <2> QED
    BY <2>1, <2>2, <2>3, <2>4 DEF ReferralInv
<1> QED
  BY <1>7, <1>8, <1>9 DEF IInv

(***************************************************************************)
(* The theorems.                                                           *)
(***************************************************************************)
LEMMA InitHolds == Init => IInv
<1> SUFFICES ASSUME Init PROVE IInv
  OBVIOUS
<1>1. TypeOK
  BY DEF Init, TypeOK
<1>2. LimitInv
  BY DEF Init, LimitInv, UsageWithinLimit, LinksLive, CodesHeld, Live
<1>3. PurchasesOpen /\ BuyersKnown /\ RewardsGranted /\ GrantsSole
  BY DEF Init, PurchasesOpen, BuyersKnown, RewardsGranted, GrantsSole, Granting
<1>4. PaidInPairs /\ RewardedIsPaid
  BY DEF Init, PaidInPairs, PaidFor, RewardedIsPaid
<1> QED
  BY <1>1, <1>2, <1>3, <1>4 DEF IInv, ReferralInv

LEMMA NextKeeps == IInv /\ [Next]_vars => IInv'
<1> SUFFICES ASSUME IInv, [Next]_vars PROVE IInv'
  OBVIOUS
<1>1. ASSUME NEW k \in Checkouts, Checkout(k) PROVE IInv'
  <2>1. Asks[k] \subseteq Offers
    BY PromosAssumption
  <2> QED
    BY <1>1, <2>1, BeginCheckoutKeeps, PlaceWithCodeKeeps, PlaceWithoutKeeps DEF Checkout
<1>2. ASSUME NEW k \in Checkouts, Purchase(k) PROVE IInv'
  BY <1>2, BeginPaymentKeeps, CommitPurchaseKeeps DEF Purchase
<1>3. ASSUME NEW k \in Checkouts, Outcome(k) PROVE IInv'
  BY <1>3, OutcomeKeeps
<1>4. CASE Worker \/ \E c \in Codes : Expire(c)
  BY <1>4, WorkerKeeps
<1>5. CASE Administrator
  BY <1>5, CreatePromoKeeps, DeletePromoKeeps, SettingsKeep, DeleteUserKeeps DEF Administrator
<1>6. ASSUME NEW u \in Users, NEW by \in Users \cup {None}, Start(u, by) PROVE IInv'
  BY <1>6, StartKeeps
<1>7. CASE UNCHANGED vars
  <2>1. /\ expired' \subseteq Codes /\ cleaner' \in (SUBSET Checkouts) \cup {None} /\ sale' \in BOOLEAN
        /\ referrals' \in BOOLEAN
        /\ UNCHANGED <<promo, row, status, link, earlier, aside, late, referral, known, tx, referrals, granted>>
    BY <1>7 DEF vars, IInv, TypeOK
  <2> QED
    BY <2>1, UnrelatedKeep
<1> QED
  BY <1>1, <1>2, <1>3, <1>4, <1>5, <1>6, <1>7 DEF Next

LEMMA Invariance == Spec => []IInv
BY InitHolds, NextKeeps, PTL DEF Spec

\* The variables keep their types: whatever discounts meet, each item of an
\* order is reduced by 0 to 100 percent (services.py:85-103).
THEOREM TypeCorrect == Spec => []TypeOK
<1>1. IInv => TypeOK
  BY DEF IInv
<1> QED
  BY Invariance, <1>1, PTL

\* No code is used more often than its limit allows, late successes apart: the
\* lock on its row, held from the count to the commit, is enough
\* (services.py:321).
THEOREM LimitHolds == Spec => []UsageWithinLimit
<1>1. IInv => UsageWithinLimit
  BY DEF IInv, LimitInv
<1> QED
  BY Invariance, <1>1, PTL

\* What is granted for a user is granted for one order at the most, that which
\* is about to be committed included.
LEMMA OneOrderRewarded ==
  ASSUME IInv, NEW u \in Users, NEW paid, paid = PaidFor(u, granted)
  PROVE  Cardinality({g.order : g \in paid} \cup {k \in Checkouts : Buyer[k] = u /\ Granting(k)}) <= 1
<1> DEFINE rewarded == {g.order : g \in paid} \cup {k \in Checkouts : Buyer[k] = u /\ Granting(k)}
<1>1. \A k \in Checkouts : Buyer[k] = u /\ Granting(k) => Sole(k) /\ paid = {}
  BY DEF IInv, ReferralInv, GrantsSole, Sole, RewardedIsPaid
<1>2. \A j, k \in Checkouts : Buyer[j] = u /\ Granting(j) /\ Buyer[k] = u /\ Granting(k) => j = k
  BY <1>1, PromosAssumption DEF Granting, Sole
<1>3. \E k : rewarded \subseteq {k}
  <2>1. CASE paid = {}
    BY <1>2, <2>1
  <2>2. CASE paid # {}
    <3>1. PICK k \in Checkouts, v \in Users : paid = {Reward(k, u, "referral"), Reward(k, v, "referral")}
      BY <2>2 DEF IInv, ReferralInv, PaidInPairs, PairFor
    <3>2. \A g \in paid : g.order = k
      BY <3>1 DEF Reward
    <3> QED
      BY <1>1, <2>2, <3>2
  <2> QED
    BY <2>1, <2>2
<1> HIDE DEF rewarded
<1>4. PICK k : rewarded \subseteq {k}
  BY <1>3
<1>5. IsFiniteSet({k}) /\ Cardinality({k}) = 1
  BY FS_Singleton
<1>6. Cardinality(rewarded) <= 1
  BY <1>4, <1>5, FS_Subset
<1> QED
  BY <1>6 DEF rewarded

\* A buyer's referral is rewarded once, to both sides, for a purchase that nothing
\* preceded but what was begun without asking for the referral and overtook it:
\* the lock on its row is enough for it, whatever the referrer, other orders of
\* the buyer, the worker and the administrator do meanwhile (services.py:222).
THEOREM ReferralOnce == Spec => []ReferralPaidOnce
<1>1. IInv => ReferralPaidOnce
  <2> SUFFICES ASSUME IInv, NEW u \in Users
               PROVE  LET paid == PaidFor(u, granted) IN
                      /\ Cardinality({g.order : g \in paid} \cup {k \in Checkouts : Buyer[k] = u /\ Granting(k)}) <= 1
                      /\ paid # {} => Cardinality(paid) = 2 /\ u \in {g.owner : g \in paid}
                      /\ referral[u] # None /\ referral[u].eligible => (referral[u].rewarded <=> paid # {})
                      /\ \A g \in paid : earlier[g.order] = {}
    BY DEF ReferralPaidOnce, PaidFor
  <2> DEFINE paid == PaidFor(u, granted)
  <2>1. Cardinality({g.order : g \in paid} \cup {k \in Checkouts : Buyer[k] = u /\ Granting(k)}) <= 1
    BY OneOrderRewarded
  <2>2. referral[u] # None /\ referral[u].eligible => (referral[u].rewarded <=> paid # {})
    BY DEF IInv, ReferralInv, RewardedIsPaid
  <2>3. ASSUME paid # {}
        PROVE  /\ Cardinality(paid) = 2 /\ u \in {g.owner : g \in paid}
               /\ \A g \in paid : earlier[g.order] = {}
    <3>1. PICK k \in Checkouts, v \in Users :
            /\ v # u /\ earlier[k] = {}
            /\ paid = {Reward(k, u, "referral"), Reward(k, v, "referral")}
      BY <2>3 DEF IInv, ReferralInv, PaidInPairs, PairFor
    <3> DEFINE a == Reward(k, u, "referral")
               b == Reward(k, v, "referral")
    <3>2. a.owner = u /\ b.owner = v /\ a.order = k /\ b.order = k
      BY DEF Reward
    <3> HIDE DEF a, b, paid
    <3>3. paid = {a} \cup {b} /\ b \notin {a}
      BY <3>1, <3>2 DEF a, b
    <3>4. IsFiniteSet({a}) /\ Cardinality({a}) = 1
      BY FS_Singleton
    <3>5. Cardinality({a} \cup {b}) = Cardinality({a}) + 1
      BY <3>3, <3>4, FS_AddElement
    <3>6. Cardinality(paid) = 2
      BY <3>3, <3>4, <3>5
    <3> QED
      BY <3>1, <3>2, <3>3, <3>6
  <2> QED
    BY <2>1, <2>2, <2>3
<1> QED
  BY Invariance, <1>1, PTL

(***************************************************************************)
(* Prices.                                                                 *)
(***************************************************************************)
\* A quotient of natural numbers, and a multiple of 100.
LEMMA Quotients ==
  /\ \A a \in Nat : a \div 100 \in Nat /\ 100 * (a \div 100) <= a /\ a < 100 * (a \div 100) + 100
  /\ \A a \in Nat : /\ a \div 10000 \in Nat
                    /\ 10000 * (a \div 10000) <= a /\ a < 10000 * (a \div 10000) + 10000
  /\ \A a \in Nat : (a * 100) % 100 = 0
  /\ \A a \in Nat : a % 100 = 0 => \E m \in Nat : a = 100 * m
  OBVIOUS

\* What a discount of less than everything leaves of a price.
Leaves(price, percent, net) ==
  LET exact == price * (100 - percent) IN
  /\ net \in Nat /\ net >= 100 /\ net % 100 = 0
  /\ net <= price \/ (price % 100 # 0 /\ net < price + 50)
  /\ \/ 100 * net - exact <= 5000 /\ exact - 100 * net <= 5000
     \/ net = 100 /\ exact < 10000

\* A discount rounds to the nearest whole hryvnia.
LEMMA DiscountRounds ==
  ASSUME NEW price \in Nat, price >= 100, NEW percent \in 1..99
  PROVE  Leaves(price, percent, apply_discount(price, percent))
<1> DEFINE exact == price * (100 - percent)
           h == (exact + 5000) \div 10000
           net == IF h > 1 THEN h * 100 ELSE 100
<1>1. apply_discount(price, percent) = net
  BY DEF apply_discount
<1>2. exact \in Nat /\ exact <= 99 * price
  <2>1. \A c \in 1..99 : price * c \in Nat /\ price * c <= 99 * price
    OBVIOUS
  <2>2. 100 - percent \in 1..99
    OBVIOUS
  <2> QED
    BY <2>1, <2>2
<1> HIDE DEF exact
<1>3. h \in Nat /\ 10000 * h <= exact + 5000 /\ exact + 5000 < 10000 * h + 10000
  <2>1. exact + 5000 \in Nat
    BY <1>2
  <2> QED
    BY <2>1, Quotients
<1> HIDE DEF h
<1>4. net \in Nat /\ net >= 100 /\ (net = 100 * h \/ (net = 100 /\ h <= 1))
  BY <1>3
<1>5. net % 100 = 0
  BY <1>3, Quotients
<1>6. net <= price \/ (price % 100 # 0 /\ net < price + 50)
  <2>1. net <= price \/ net < price + 50
    BY <1>2, <1>3, <1>4
  <2>2. ASSUME price % 100 = 0 PROVE net <= price
    <3>1. PICK m \in Nat : price = 100 * m
      BY <2>2, Quotients
    <3>2. CASE net = 100 * h
      <4>1. 100 * h <= 99 * m + 50
        BY <1>2, <1>3, <3>1
      <4> QED
        BY <1>3, <3>1, <3>2, <4>1
    <3> QED
      BY <1>4, <3>2
  <2> QED
    BY <2>1, <2>2
<1>7. \/ 100 * net - exact <= 5000 /\ exact - 100 * net <= 5000
      \/ net = 100 /\ exact < 10000
  BY <1>2, <1>3, <1>4
<1> HIDE DEF net
<1> QED
  BY <1>1, <1>2, <1>4, <1>5, <1>6, <1>7 DEF Leaves, exact

\* A price with a tip rounds to the nearest whole hryvnia, after the tip.
LEMMA TipRounds ==
  ASSUME NEW net \in Nat, NEW tip \in TIP_PERCENTS
  PROVE  LET charged == price_with_tip(net, tip)
             exact == net * (100 + tip) IN
         /\ charged \in Nat /\ exact \in Nat
         /\ net = 0 => charged = 0
         /\ net >= 100 => charged # 0
         /\ tip # 0 => /\ charged % 100 = 0
                       /\ 100 * charged - exact <= 5050 /\ exact - 100 * charged <= 5050
<1>1. CASE tip = 0
  BY <1>1 DEF price_with_tip
<1>2. CASE tip # 0
  <2> DEFINE part == net * tip
             t == (part + 50) \div 100
             q == (net + t + 50) \div 100
  <2>1. price_with_tip(net, tip) = q * 100
    BY <1>2 DEF price_with_tip, tip_amount
  <2>2. part \in Nat /\ net * (100 + tip) = 100 * net + part /\ (net = 0 => part = 0)
    BY DEF TIP_PERCENTS
  <2> HIDE DEF part
  <2>3. t \in Nat /\ 100 * t <= part + 50 /\ part + 50 < 100 * t + 100
    <3>1. part + 50 \in Nat
      BY <2>2
    <3> QED
      BY <3>1, Quotients
  <2> HIDE DEF t
  <2>4. q \in Nat /\ 100 * q <= net + t + 50 /\ net + t + 50 < 100 * q + 100
    <3>1. net + t + 50 \in Nat
      BY <2>3
    <3> QED
      BY <3>1, Quotients
  <2> HIDE DEF q
  <2>5. (q * 100) % 100 = 0
    BY <2>4, Quotients
  <2> QED
    BY <1>2, <2>1, <2>2, <2>3, <2>4, <2>5
<1> QED
  BY <1>1, <1>2

\* Every charge is fair, whatever the price, the discount and the tip.
LEMMA ChargeIsFair ==
  ASSUME NEW price \in Nat, price >= 100, NEW percent \in 0..100, NEW tip \in TIP_PERCENTS
  PROVE  FairPrice(price, percent, tip)
<1> DEFINE net == apply_discount(price, percent)
           charged == price_with_tip(net, tip)
<1>1. /\ net \in Nat /\ (net <= price \/ (price % 100 # 0 /\ net < price + 50))
      /\ percent >= 100 => net = 0
      /\ percent < 100 => net >= 100
      /\ percent \in 1..99 =>
           /\ net % 100 = 0
           /\ \/ 100 * net - price * (100 - percent) <= 5000 /\ price * (100 - percent) - 100 * net <= 5000
              \/ net = 100 /\ price * (100 - percent) < 10000
  <2>1. CASE percent \in 1..99
    <3>1. percent < 100 /\ ~(percent >= 100)
      BY <2>1
    <3>2. Leaves(price, percent, net)
      BY <2>1, DiscountRounds
    <3> HIDE DEF net
    <3> QED
      BY <3>1, <3>2 DEF Leaves
  <2>2. CASE percent = 0 \/ percent = 100
    BY <2>2 DEF apply_discount
  <2> QED
    BY <2>1, <2>2
<1> HIDE DEF net
<1>2. /\ charged \in Nat /\ net * (100 + tip) \in Nat
      /\ net = 0 => charged = 0
      /\ net >= 100 => charged # 0
      /\ tip # 0 => /\ charged % 100 = 0
                    /\ 100 * charged - net * (100 + tip) <= 5050
                    /\ net * (100 + tip) - 100 * charged <= 5050
  BY <1>1, TipRounds
<1> HIDE DEF charged
<1> DEFINE off(a, b) == IF a > b THEN a - b ELSE b - a
<1>3. percent \in 1..99 => /\ net % 100 = 0
                           /\ \/ off(100 * net, price * (100 - percent)) <= 5000
                              \/ net = 100 /\ price * (100 - percent) < 10000
  BY <1>1
<1>4. tip # 0 => charged % 100 = 0 /\ off(100 * charged, net * (100 + tip)) <= 5050
  BY <1>2
<1>5. (charged = 0) = (percent >= 100)
  BY <1>1, <1>2
<1> HIDE DEF off
<1> QED
  BY <1>1, <1>3, <1>4, <1>5 DEF FairPrice, net, charged, off

\* Whatever discounts and tips meet in an order, each item is charged fairly.
THEOREM ChargesAreFair == Spec => []ChargesFair
<1>1. TypeOK => ChargesFair
  <2> SUFFICES ASSUME TypeOK, NEW k \in Checkouts, row[k] # None,
                      NEW i \in DOMAIN row[k].percents, row[k].offer.prices[i] >= 100
               PROVE  FairPrice(row[k].offer.prices[i], row[k].percents[i], row[k].offer.tip)
    BY DEF ChargesFair
  <2>1. PICK x \in Offers : row[k] \in [offer : {x}, percents : [DOMAIN x.prices -> 0..100],
                                        with : Codes \cup {None}]
    BY DEF TypeOK, Rows
  <2>2. row[k].offer = x /\ row[k].percents \in [DOMAIN x.prices -> 0..100]
    BY <2>1
  <2>3. i \in DOMAIN x.prices /\ row[k].percents[i] \in 0..100
    BY <2>2
  <2>4. x.prices[i] \in Nat /\ x.tip \in TIP_PERCENTS
    BY <2>3, PromosAssumption
  <2> QED
    BY <2>2, <2>3, <2>4, ChargeIsFair
<1> QED
  BY <1>1, TypeCorrect, PTL
=============================================================================
