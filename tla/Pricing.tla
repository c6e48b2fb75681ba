------------------------------ MODULE Pricing ------------------------------
(***************************************************************************)
(* The arithmetic of app/services.py: kopecks, whole percents, Python's    *)
(* // on numbers that are never negative.                                  *)
(***************************************************************************)
EXTENDS Integers, Sequences, Functions

TIP_PERCENTS == {0, 15, 35, 50, 100}
SALE_DISCOUNT_PERCENT == 50
REWARD_PROMO_MAX_PRICE == 5000
CART_REWARD_MIN_TOTAL == 14700

\* Mutation: the whole hryvnias are not turned back into kopecks.
apply_discount_Unscaled(price, percent) ==
  IF percent <= 0 THEN price
  ELSE IF percent >= 100 THEN 0
  ELSE LET hryvnias == (price * (100 - percent) + 5000) \div 10000 IN
       IF hryvnias > 100 THEN hryvnias ELSE 100

\* Rounded to the nearest whole hryvnia, half up, and at least one.
apply_discount(price, percent) ==
  IF percent <= 0 THEN price
  ELSE IF percent >= 100 THEN 0
  ELSE LET hryvnias == (price * (100 - percent) + 5000) \div 10000 IN
       IF hryvnias > 1 THEN hryvnias * 100 ELSE 100

tip_amount(price, tip) == (price * tip + 50) \div 100

\* A price with a tip is rounded to whole hryvnias, one without is not.
price_with_tip(price, tip) ==
  IF tip = 0 THEN price ELSE ((price + tip_amount(price, tip) + 50) \div 100) * 100

\* Mutation: the sum of two discounts is not capped.
AtMost100_Uncapped(percent) == percent

AtMost100(percent) == IF percent > 100 THEN 100 ELSE percent

\* The prices of the items of a checkout, each under its own discount.
Discounted(prices, percents) == [i \in DOMAIN prices |-> apply_discount(prices[i], percents[i])]

Total(amounts) == SumFunction(amounts)

ChargedFor(prices, percents, tip) ==
  LET due == Discounted(prices, percents) IN
  Total([i \in DOMAIN due |-> price_with_tip(due[i], tip)])

\* The highest level whose threshold has been spent decides; levels is a set
\* of records with a threshold and a percent.
loyalty_percent(levels, spent) ==
  LET reached == {l \in levels : l.threshold <= spent} IN
  IF reached = {} THEN 0
  ELSE (CHOOSE l \in reached : \A m \in reached : m.threshold <= l.threshold).percent

-----------------------------------------------------------------------------
(***************************************************************************)
(* What the rounding promises, for an item whose price is a hryvnia or     *)
(* more: it is free only under a full discount, neither of the two         *)
(* roundings moves the sum by more than half a hryvnia, unless a discount  *)
(* would leave less than one, and no discount makes it dearer.  A price    *)
(* with kopecks is the exception: 1% makes 48.99 into 49.                  *)
(***************************************************************************)
FairPrice(price, percent, tip) ==
  LET net == apply_discount(price, percent)
      charged == price_with_tip(net, tip)
      off(a, b) == IF a > b THEN a - b ELSE b - a
  IN /\ (charged = 0) = (percent >= 100)
     /\ net <= price \/ (price % 100 # 0 /\ net < price + 50)
     /\ percent \in 1..99 => /\ net % 100 = 0
                            /\ \/ off(100 * net, price * (100 - percent)) <= 5000
                               \/ net = 100 /\ price * (100 - percent) < 10000
     /\ tip # 0 => charged % 100 = 0 /\ off(100 * charged, net * (100 + tip)) <= 5050
=============================================================================
