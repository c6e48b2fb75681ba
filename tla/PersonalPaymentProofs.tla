----------------------- MODULE PersonalPaymentProofs -----------------------
(***************************************************************************)
(* Proofs about PersonalPayment for any orders, cards, transfers, page     *)
(* size and ages.                                                          *)
(***************************************************************************)
EXTENDS PersonalPayment, TLAPS

\* What a request for a statement writes is of its kind.
LEMMA AskTypes ==
  ASSUME TypeOK, NEW o \in Orders, NEW c \in Cards, check.pc \in {"begun", "resolving"},
         check.order = o, created[o] # None, Ask(o, c)
  PROVE  check' \in [pc : {"asked"}, order : {o}, card : {c}, till : Nat \cup {None},
                     cursors : [Orders -> Nat \cup {None}], page : {{}}]
<1>1. clock \in Nat /\ cursor[o] \in Nat \cup {None} /\ cursor \in [Orders -> Nat \cup {None}]
      /\ check.page = {}
  BY DEF TypeOK
<1>2. (IF cursor[o] = None \/ cursor[o] < created[o] THEN clock ELSE cursor[o]) \in Nat \cup {None}
  BY <1>1
<1> QED
  BY <1>1, <1>2 DEF Ask, TypeOK

\* Every step keeps the types.
LEMMA TypeStep == TypeOK /\ [Next]_vars => TypeOK'
<1> SUFFICES ASSUME TypeOK, [Next]_vars PROVE TypeOK'
  OBVIOUS
<1> USE PersonalAssumption DEF orders, bank, admin, shop
<1>1. ASSUME NEW o \in Orders, Place(o) \/ CancelPayment(o) PROVE TypeOK'
  <2>1. CASE Place(o)
    BY <2>1 DEF Place, TypeOK
  <2>2. CASE CancelPayment(o)
    BY <2>2 DEF CancelPayment, TypeOK
  <2> QED
    BY <1>1, <2>1, <2>2
<1>2. ASSUME NEW o \in Orders, BeginCheck(o) PROVE TypeOK'
  <2>1. check' \in [pc : {"begun"}, order : {o}, card : {card}, till : {None},
                    cursors : {Unset}, page : {{}}]
    BY <1>2 DEF BeginCheck, Idle
  <2>2. Unset \in [Orders -> Nat \cup {None}] /\ card \in Cards
    BY DEF Unset, TypeOK
  <2>3. check' \in [pc : {"idle", "begun", "resolving", "asked", "answered"},
                    order : Orders \cup {None}, card : Cards \cup {None}, till : Nat \cup {None},
                    cursors : [Orders -> Nat \cup {None}], page : SUBSET Transfers]
    BY <2>1, <2>2
  <2> QED
    BY <1>2, <2>1, <2>2, <2>3 DEF BeginCheck, TypeOK
<1>3. ASSUME NEW o \in Orders, LookUp(o) PROVE TypeOK'
  <2>1. check.order = o /\ check.pc = "begun" /\ created[o] # None
    BY <1>3 DEF LookUp, TypeOK
  <2>2. CASE check' = Idle
    BY <1>3, <2>2 DEF LookUp, TypeOK, Idle, Unset
  <2>3. CASE check' = [check EXCEPT !.pc = "resolving"]
    BY <1>3, <2>3 DEF LookUp, TypeOK
  <2>4. CASE account # None /\ Ask(o, account)
    <3>1. account \in Cards
      BY <2>4 DEF TypeOK
    <3>2. check' \in [pc : {"asked"}, order : {o}, card : {account}, till : Nat \cup {None},
                      cursors : [Orders -> Nat \cup {None}], page : {{}}]
      BY <2>1, <2>4, <3>1, AskTypes
    <3> QED
      BY <1>3, <2>1, <3>1, <3>2 DEF LookUp, TypeOK
  <2> QED
    BY <1>3, <2>2, <2>3, <2>4 DEF LookUp
<1>4. ASSUME NEW o \in Orders, Resolve(o) PROVE TypeOK'
  <2>1. check.order = o /\ check.pc = "resolving" /\ created[o] # None /\ check.card \in Cards
    BY <1>4 DEF Resolve, TypeOK
  <2>2. check' \in [pc : {"asked"}, order : {o}, card : {check.card}, till : Nat \cup {None},
                    cursors : [Orders -> Nat \cup {None}], page : {{}}]
    BY <1>4, <2>1, AskTypes DEF Resolve
  <2> QED
    BY <1>4, <2>1, <2>2 DEF Resolve, TypeOK
<1>5. ASSUME NEW o \in Orders, Answer(o) PROVE TypeOK'
  <2>1. PICK page \in SUBSET {t \in Transfers : made[t] # None} :
          check' = [check EXCEPT !.pc = "answered", !.page = page]
    BY <1>5 DEF Answer, Asked
  <2> QED
    BY <1>5, <2>1 DEF Answer, TypeOK
<1>6. ASSUME NEW o \in Orders, ApplyStatement(o) PROVE TypeOK'
  <2>1. PICK end \in NextEnd(check.page) : cursor' = [check.cursors EXCEPT ![o] = end]
    BY <1>6 DEF ApplyStatement
  <2>2. end \in Nat \cup {None}
    BY <2>1 DEF NextEnd, Oldest, TypeOK
  <2>3. cursor' \in [Orders -> Nat \cup {None}]
    BY <2>1, <2>2 DEF TypeOK
  <2>4. /\ status' \in [Orders -> {"absent", "waiting_payment", "paid", "cancelled"}]
        /\ paidBy' \in [Orders -> Transfers \cup {None}] /\ used' \subseteq Transfers
        /\ \A q \in Orders : status'[q] = "absent" <=> status[q] = "absent"
    <3>1. CASE UNCHANGED <<status, used, paidBy>>
      BY <3>1 DEF TypeOK
    <3>2. ASSUME NEW t \in check.page, PaidNow(o),
                 status' = [status EXCEPT ![o] = "paid"], paidBy' = [paidBy EXCEPT ![o] = t],
                 used' = used \cup {t}
          PROVE  <2>4
      BY <3>2 DEF TypeOK, PaidNow, Payable
    <3> QED
      BY <1>6, <3>1, <3>2 DEF ApplyStatement
  <2>5. check' = Idle /\ created' = created
    BY <1>6 DEF ApplyStatement
  <2>6. check' \in [pc : {"idle"}, order : {None}, card : {None}, till : {None},
                    cursors : [Orders -> Nat \cup {None}], page : {{}}]
    BY <2>5 DEF Idle, Unset
  <2> QED
    BY <1>6, <2>3, <2>4, <2>5, <2>6 DEF ApplyStatement, TypeOK
<1>7. ASSUME NEW t \in Transfers, NEW at \in 1..MaxTime, TransferShows(t, at) PROVE TypeOK'
  BY <1>7 DEF TransferShows, TypeOK
<1>8. ASSUME NEW c \in Cards, TypeCard(c) PROVE TypeOK'
  BY <1>8 DEF TypeCard, TypeOK, Unset
<1>9. CASE Tick \/ CooldownEnds
  <2>1. CASE Tick
    BY <2>1 DEF Tick, TypeOK
  <2>2. CASE CooldownEnds
    BY <2>2 DEF CooldownEnds, TypeOK
  <2> QED
    BY <1>9, <2>1, <2>2
<1>10. CASE CommitCard
  BY <1>10 DEF CommitCard, TypeOK
<1>11. CASE CheckFails \/ Crash
  <2>1. check' \in [pc : {"idle"}, order : {None}, card : {None}, till : {None},
                    cursors : [Orders -> Nat \cup {None}], page : {{}}]
    BY <1>11 DEF CheckFails, Crash, Idle, Unset
  <2>2. CASE CheckFails
    BY <2>1, <2>2 DEF CheckFails, TypeOK
  <2>3. CASE Crash
    <3>1. Unset \in [Orders -> Nat \cup {None}]
      BY DEF Unset
    <3> QED
      BY <2>1, <2>3, <3>1 DEF Crash, TypeOK
  <2> QED
    BY <1>11, <2>2, <2>3
<1>12. CASE UNCHANGED vars
  BY <1>12 DEF vars, TypeOK
<1> QED
  BY <1>1, <1>2, <1>3, <1>4, <1>5, <1>6, <1>7, <1>8, <1>9, <1>10, <1>11, <1>12
     DEF Next, CheckStep

(***************************************************************************)
(* Transfers and the orders they pay.                                      *)
(***************************************************************************)
IInv == TypeOK /\ PaidByItsOwnTransfer

\* What a step does to payments: nothing, or one transfer that was not used
\* pays one order it matches.  Times and dates that are known stay.
Moves ==
  /\ clock' \in Nat /\ clock <= clock'
  /\ \A o \in Orders : created[o] # None => created'[o] = created[o]
  /\ \A t \in Transfers : made[t] # None => made'[t] = made[t]
  /\ \A o \in Orders : status[o] \in {"paid", "cancelled"} => status'[o] = status[o]
  /\ \/ /\ paidBy' = paidBy /\ used' = used
        /\ \A o \in Orders : status'[o] = "paid" <=> status[o] = "paid"
     \/ \E t \in Transfers \ used, o \in Orders :
          /\ Matches(t, o) /\ status[o] = "waiting_payment"
          /\ status' = [status EXCEPT ![o] = "paid"]
          /\ paidBy' = [paidBy EXCEPT ![o] = t]
          /\ used' = used \cup {t}
          /\ UNCHANGED <<clock, created, made>>

\* Every step is such a move.
LEMMA StepMoves == TypeOK /\ [Next]_vars => Moves
<1> SUFFICES ASSUME TypeOK, [Next]_vars PROVE Moves
  OBVIOUS
<1> USE PersonalAssumption DEF orders, bank, admin, shop
<1>1. clock \in Nat /\ clock <= clock
  BY DEF TypeOK
<1>2. ASSUME NEW o \in Orders, Place(o) \/ CancelPayment(o) PROVE Moves
  BY <1>1, <1>2 DEF Place, CancelPayment, Moves, TypeOK
<1>3. ASSUME NEW o \in Orders, BeginCheck(o) \/ LookUp(o) \/ Resolve(o) \/ Answer(o) PROVE Moves
  BY <1>1, <1>3 DEF BeginCheck, LookUp, Resolve, Answer, Moves
<1>4. ASSUME NEW o \in Orders, ApplyStatement(o) PROVE Moves
  <2>1. UNCHANGED <<clock, created, made>>
    BY <1>4 DEF ApplyStatement
  <2>2. CASE UNCHANGED <<status, used, paidBy>>
    BY <1>1, <2>1, <2>2 DEF Moves
  <2>3. ASSUME NEW t \in check.page, PaidNow(o), Matches(t, o), Unused(t),
               status' = [status EXCEPT ![o] = "paid"], paidBy' = [paidBy EXCEPT ![o] = t],
               used' = used \cup {t}
        PROVE  Moves
    <3>1. t \in Transfers \ used /\ status[o] = "waiting_payment"
      BY <2>3 DEF TypeOK, Unused, PaidNow, Payable
    <3> QED
      BY <1>1, <2>1, <2>3, <3>1 DEF Moves, TypeOK
  <2> QED
    BY <1>4, <2>2, <2>3 DEF ApplyStatement
<1>5. ASSUME NEW t \in Transfers, NEW at \in 1..MaxTime, TransferShows(t, at) PROVE Moves
  BY <1>1, <1>5 DEF TransferShows, Moves, TypeOK
<1>6. ASSUME NEW c \in Cards, TypeCard(c) PROVE Moves
  BY <1>1, <1>6 DEF TypeCard, Moves
<1>7. CASE Tick
  BY <1>1, <1>7 DEF Tick, Moves
<1>8. CASE CooldownEnds \/ CommitCard \/ CheckFails \/ Crash
  BY <1>1, <1>8 DEF CooldownEnds, CommitCard, CheckFails, Crash, Moves
<1>9. CASE UNCHANGED vars
  BY <1>1, <1>9 DEF vars, Moves
<1> QED
  BY <1>2, <1>3, <1>4, <1>5, <1>6, <1>7, <1>8, <1>9 DEF Next, CheckStep

\* A transfer that matches an order goes on matching it.
LEMMA MatchStays ==
  ASSUME TypeOK, Moves, NEW t \in Transfers, NEW o \in Orders, created[o] # None, Matches(t, o)
  PROVE  Matches(t, o)'
<1>1. made'[t] = made[t] /\ made[t] \in Nat /\ created'[o] = created[o]
  BY DEF Moves, Matches, TypeOK
<1>2. clock \in Nat /\ clock' \in Nat /\ clock <= clock' /\ made[t] <= clock
  BY DEF Moves, Matches, TypeOK
<1> QED
  BY <1>1, <1>2 DEF Matches

\* Every step keeps the invariant.
LEMMA InvStep == IInv /\ [Next]_vars => IInv'
<1> SUFFICES ASSUME IInv, [Next]_vars PROVE IInv'
  OBVIOUS
<1> USE PersonalAssumption
<1>1. TypeOK /\ TypeOK' /\ Moves
  BY TypeStep, StepMoves DEF IInv
<1>2. \A o \in Orders :
        /\ status[o] = "paid" <=> paidBy[o] # None
        /\ status[o] = "paid" => /\ paidBy[o] \in used /\ paidBy[o] \in Transfers
                                 /\ Matches(paidBy[o], o)
        /\ \A q \in Orders \ {o} : paidBy[o] = paidBy[q] => paidBy[o] = None
  <2> SUFFICES ASSUME NEW o \in Orders
               PROVE  /\ status[o] = "paid" <=> paidBy[o] # None
                      /\ status[o] = "paid" => /\ paidBy[o] \in used /\ paidBy[o] \in Transfers
                                               /\ Matches(paidBy[o], o)
                      /\ \A q \in Orders \ {o} : paidBy[o] = paidBy[q] => paidBy[o] = None
    OBVIOUS
  <2> QED
    BY <1>1 DEF IInv, PaidByItsOwnTransfer, TypeOK
<1>3. \A o \in Orders, t \in Transfers : created[o] # None /\ Matches(t, o) => Matches(t, o)'
  BY <1>1, MatchStays
<1>4. \A o \in Orders : status[o] = "paid" => created[o] # None
  BY <1>1 DEF TypeOK
<1>5. ASSUME paidBy' = paidBy, used' = used,
             \A o \in Orders : status'[o] = "paid" <=> status[o] = "paid"
      PROVE  PaidByItsOwnTransfer'
  <2>1. \A o \in Orders : status[o] = "paid" => Matches(paidBy[o], o)'
    BY <1>2, <1>3, <1>4, <1>5 DEF Matches
  <2> QED
    BY <1>2, <1>5, <2>1 DEF PaidByItsOwnTransfer, Matches
<1>6. ASSUME NEW t \in Transfers \ used, NEW p \in Orders,
             Matches(t, p), status[p] = "waiting_payment",
             status' = [status EXCEPT ![p] = "paid"], paidBy' = [paidBy EXCEPT ![p] = t],
             used' = used \cup {t}, UNCHANGED <<clock, created, made>>
      PROVE  PaidByItsOwnTransfer'
  <2>1. \A o \in Orders, s \in Transfers : Matches(s, o)' <=> Matches(s, o)
    BY <1>6 DEF Matches
  <2>2. paidBy'[p] = t /\ status'[p] = "paid" /\ t # None
    BY <1>1, <1>6 DEF TypeOK
  <2>3. \A o \in Orders \ {p} : paidBy'[o] = paidBy[o] /\ status'[o] = status[o] /\ paidBy[o] # t
    BY <1>1, <1>2, <1>6, <2>2 DEF TypeOK
  <2> QED
    BY <1>2, <1>6, <2>1, <2>2, <2>3 DEF PaidByItsOwnTransfer, Matches
<1> QED
  BY <1>1, <1>5, <1>6 DEF IInv, Moves

\* The program starts in a state of the invariant.
LEMMA InvInit == Init => IInv
  BY PersonalAssumption DEF Init, IInv, TypeOK, PaidByItsOwnTransfer, Unset, Idle

\* The invariant holds in every state the program reaches.
LEMMA Invariance == Spec => []IInv
  BY InvInit, InvStep, PTL DEF Spec

(***************************************************************************)
(* The theorems.                                                           *)
(***************************************************************************)
\* Every column and everything the process remembers is always of its kind.
THEOREM TypeCorrect == Spec => []TypeOK
  BY Invariance, PTL DEF IInv

\* No transfer pays two orders, and none is paid without one.
THEOREM TransfersPayOnce == Spec => []PaidByItsOwnTransfer
  BY Invariance, PTL DEF IInv

(***************************************************************************)
(* A check implements PaymentPromise.                                      *)
(***************************************************************************)
LEMMA PromiseStart == Init => Promise!PromiseInit
  BY PersonalAssumption DEF Init, Unset, Promise!PromiseInit

Paid == [t \in Transfers |-> {o \in Orders : paidBy[o] = t}]

\* A transfer that pays an order has paid none before.
LEMMA TransferBuys ==
  ASSUME IInv, NEW t \in Transfers \ used, NEW o \in Orders, status[o] = "waiting_payment",
         status' = [status EXCEPT ![o] = "paid"], paidBy' = [paidBy EXCEPT ![o] = t]
  PROVE  Promise!Buy({o}, t)
<1>1. Promise!Become({o}, "waiting_payment", "paid")
  BY DEF IInv, TypeOK, Promise!Become
<1>2. \A q \in Orders : paidBy[q] # t
  BY PersonalAssumption DEF IInv, PaidByItsOwnTransfer, TypeOK
<1>3. paidBy[o] = None
  BY DEF IInv, PaidByItsOwnTransfer
<1>4. Paid[t] = {} /\ Paid' = [Paid EXCEPT ![t] = {o}]
  <2>1. Paid[t] = {}
    BY <1>2 DEF Paid
  <2>2. \A s \in Transfers : {q \in Orders : paidBy'[q] = s} =
                              IF s = t THEN {o} ELSE {q \in Orders : paidBy[q] = s}
    BY <1>2, <1>3, PersonalAssumption DEF IInv, TypeOK
  <2> QED
    BY <2>1, <2>2 DEF Paid
<1> QED
  BY <1>1, <1>4 DEF Paid, Promise!Buy, Promise!Accept

\* A step of orders is one of the promise: orders that take a stage change it.
LEMMA SettlesOrders ==
  ASSUME NEW Q \in SUBSET Orders,
         Promise!Open(Q) \/ Promise!Close(Q) \/ \E t \in Transfers : Promise!Buy(Q, t)
  PROVE  Promise!PromiseNext
<1>1. Promise!Become(Q, "absent", "waiting_payment") \/ Promise!Become(Q, "waiting_payment", "cancelled")
        \/ Promise!Become(Q, "waiting_payment", "paid")
  BY DEF Promise!Open, Promise!Close, Promise!Buy
<1>2. status' # status
  BY <1>1 DEF Promise!Become
<1> QED
  BY <1>2 DEF Promise!PromiseNext

\* Every step of the handlers is one of the promise, or changes nothing in it.
LEMMA PromiseStep == IInv /\ [Next]_vars => [Promise!PromiseNext]_(Promise!promise)
<1> SUFFICES ASSUME IInv, [Next]_vars
             PROVE  Promise!PromiseNext \/ (status' = status /\ paidBy' = paidBy)
  BY DEF Promise!promise
<1> USE DEF orders
<1>1. ASSUME NEW o \in Orders, Place(o) PROVE Promise!PromiseNext
  <2>1. Promise!Open({o})
    BY <1>1 DEF Place, IInv, TypeOK, Promise!Open, Promise!Become
  <2> QED
    BY <2>1, SettlesOrders
<1>2. ASSUME NEW o \in Orders, CancelPayment(o) PROVE Promise!PromiseNext
  <2>1. Promise!Close({o})
    BY <1>2 DEF CancelPayment, IInv, TypeOK, Promise!Close, Promise!Become
  <2> QED
    BY <2>1, SettlesOrders
<1>3. ASSUME NEW o \in Orders, ApplyStatement(o), ~UNCHANGED <<status, paidBy>> PROVE Promise!PromiseNext
  <2>1. PICK t \in check.page : /\ PaidNow(o) /\ Unused(t)
                                /\ status' = [status EXCEPT ![o] = "paid"]
                                /\ paidBy' = [paidBy EXCEPT ![o] = t]
    BY <1>3 DEF ApplyStatement
  <2>2. t \in Transfers \ used /\ status[o] = "waiting_payment"
    BY <2>1 DEF IInv, TypeOK, Unused, PaidNow, Payable
  <2>3. Promise!Buy({o}, t)
    BY <2>1, <2>2, TransferBuys
  <2> QED
    BY <2>2, <2>3, SettlesOrders
<1>4. ASSUME NEW o \in Orders, BeginCheck(o) \/ LookUp(o) \/ Resolve(o) \/ Answer(o)
      PROVE  status' = status /\ paidBy' = paidBy
  BY <1>4 DEF BeginCheck, LookUp, Resolve, Answer
<1>5. ASSUME NEW t \in Transfers, NEW at \in 1..MaxTime, TransferShows(t, at)
      PROVE  status' = status /\ paidBy' = paidBy
  BY <1>5 DEF TransferShows
<1>6. CASE Tick \/ CooldownEnds \/ CommitCard \/ CheckFails \/ Crash \/ \E c \in Cards : TypeCard(c)
  BY <1>6 DEF Tick, CooldownEnds, CommitCard, CheckFails, Crash, TypeCard
<1>7. CASE UNCHANGED vars
  BY <1>7 DEF vars
<1> QED
  BY <1>1, <1>2, <1>3, <1>4, <1>5, <1>6, <1>7 DEF Next, CheckStep

\* A late answer of the bank does not touch an order that is settled, and a
\* transfer is accepted once, for one order: what PaymentPromise says of every
\* payment by transfer, for any orders, transfers and pages.
THEOREM ChecksKeepPromise == Spec => Promised
  BY PromiseStart, PromiseStep, Invariance, PTL DEF Spec, Promised, Promise!PromiseSpec
=============================================================================
