---------------------------- MODULE ReceiptCheck ----------------------------
(***************************************************************************)
(* What app/receipts.py makes of a screenshot: analyze_receipt asks the    *)
(* model twice at the most, evaluate_receipt compares its answer with the  *)
(* order.  Money is in kopecks, a card or an IBAN is a number of which the *)
(* last three characters count; the text of the answer is left out.        *)
(***************************************************************************)
EXTENDS Integers, FiniteSets

CONSTANTS
  Price,    \* what every order costs, tips included
  Numbers,  \* card numbers
  Ibans,
  Answers   \* what the model may read in a screenshot

Missing == -1  \* a field that is null
Garbled == -2  \* an amount that is not a number
NoNumber == 0  \* no card, or no IBAN, of three characters

ASSUME ReceiptCheckAssumption ==
  /\ Price \in Nat
  /\ Numbers \subseteq Nat \ {0} /\ Ibans \subseteq Nat \ {0}
  /\ Answers \subseteq [amount : Nat \cup {Missing, Garbled}, fee : Nat \cup {Missing},
                        total : Nat \cup {Missing}, card : Nat, iban : Nat,
                        time : {"within", "beyond", "missing", "malformed"}]

PAYMENT_AMOUNT_TOLERANCE_KOPECKS == 500

Suffix(number) == number % 1000

(***************************************************************************)
(* The question.                                                           *)
(***************************************************************************)
\* An attempt without an answer: one that is repeated, and one that is not
\* (a key, a balance or a request the model refuses).
Unanswered == [failed |-> "once"]
Refused == [failed |-> "for good"]

Complete(a) == a.amount # Missing /\ (a.card # NoNumber \/ a.iban # NoNumber)

\* The second attempt is made for what the first has not brought; the first,
\* however incomplete, is kept if the second brings nothing.
analyze_receipt(first, second) ==
  IF first = Refused \/ (first \in Answers /\ Complete(first)) THEN first
  ELSE IF second \in Answers THEN second
  ELSE first

Attempts == Answers \cup {Unanswered, Refused}

\* What the handler may have to judge.
Analyses == {analyze_receipt(first, second) : first, second \in Attempts} \cap Answers

(***************************************************************************)
(* The verdict.                                                            *)
(***************************************************************************)
\* The amount may be printed with the bank's fee or without it.
LessFee(x, fee) == {x - f : f \in {fee} \cap 0..x}
AmountCandidates(a) == {a.amount} \cup LessFee(a.amount, a.fee) \cup LessFee(a.total, a.fee)

AmountMatches(a, expected) ==
  \E x \in AmountCandidates(a) :
    x - expected \in -PAYMENT_AMOUNT_TOLERANCE_KOPECKS..PAYMENT_AMOUNT_TOLERANCE_KOPECKS

RecipientMatches(a, cards, ibans) ==
  \/ a.card # NoNumber /\ \E c \in cards : Suffix(c) = Suffix(a.card)
  \/ a.iban # NoNumber /\ \E c \in ibans : Suffix(c) = Suffix(a.iban)

evaluate_receipt(a, expected, cards, ibans) ==
  /\ a.amount \notin {Missing, Garbled}
  /\ AmountMatches(a, expected)
  /\ RecipientMatches(a, cards, ibans)
  /\ a.time = "within"
=============================================================================
