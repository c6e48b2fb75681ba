-------------------------- MODULE CatalogueProofs ---------------------------
(***************************************************************************)
(* Proofs about Catalogue, for any administrators, accounts and bounds.    *)
(***************************************************************************)
EXTENDS Catalogue, FiniteSetTheorems, SequenceTheorems, TLAPS

(***************************************************************************)
(* The inductive invariant.                                                *)
(***************************************************************************)
\* What a draft may hold, field by field where it decides something.
Drafts ==
  {draft \in [Fields -> Values \cup {Unset}] :
     /\ draft["delivery_mode"] \in {"auto", "manual", Unset}
     /\ draft["steam_login"] \in Accounts \cup {None, Unset}
     /\ draft["steam_authenticator_id"] \in Accounts \cup {None, Unset}}

\* A new draft is filled in the order of its fields: how far it has come tells
\* what it holds of the account.
InOrder(d) ==
  (d.edit = 0 /\ ~d.reviewing /\ d.field # None) =>
    /\ d.field \in {"name_ua", "image_file_id", "delivery_mode", "steam_login", "steam_authenticator_id"} =>
         d.draft["steam_authenticator_id"] = Unset
    /\ d.field \in {"steam_login", "steam_authenticator_id"} => d.draft["delivery_mode"] = "auto"
    /\ d.field = "steam_authenticator_id" => d.draft["steam_login"] \in Accounts
    /\ d.field \in {"code_limit", "on_home"} =>
         \/ d.draft["delivery_mode"] = "manual" /\ d.draft["steam_login"] = None
         \/ /\ d.draft["delivery_mode"] = "auto" /\ d.draft["steam_login"] \in Accounts
            /\ d.draft["steam_authenticator_id"] = d.draft["steam_login"]

\* An edit that leaves login and delivery alone brings the authenticator of the
\* product's own login, unless somebody has typed that again.
OfTheLogin(d, rows) ==
  (d.edit # 0 /\ d.draft["steam_login"] = Unset /\ d.draft["delivery_mode"] = Unset) =>
    \/ d.draft["steam_authenticator_id"] = Unset
    \/ rows[d.edit].retyped
    \/ d.draft["steam_authenticator_id"] = rows[d.edit].login

\* A dialogue either writes a numbered draft or edits a product.
Numbered(d) == (d.edit = 0 /\ d.field # None => d.number # 0) /\ (d.edit # 0 => d.number = 0)

Sound(d, rows) == d.draft \in Drafts /\ InOrder(d) /\ OfTheLogin(d, rows) /\ Numbered(d)

\* The types of a dialogue and of a row, as TypeOK has them.
Dialogues(s, n) ==
  [number : 0..s, edit : 0..n, field : Fields \cup {None},
   draft : [Fields -> Values \cup {Unset}], reviewing : BOOLEAN, saved : BOOLEAN]
Rows(s) ==
  [login : Accounts \cup {None}, authenticator : Accounts \cup {None},
   delivery : {"auto", "manual"}, draft : 1..s, retyped : BOOLEAN]

\* No two dialogues write the same draft.
Distinct ==
  \A a, b \in Admins : dialogue[a].number = dialogue[b].number /\ dialogue[a].number # 0 => a = b

ProductsOf(n, rows) == {p \in DOMAIN rows : rows[p].draft = n}

\* A draft that may still be saved.
Writing(n, talks) == \E a \in Admins : talks[a].number = n /\ ~talks[a].saved

\* A draft that may still be saved counts as one product.
Counted ==
  \A n \in 1..started :
    Cardinality(ProductsOf(n, products)) + (IF Writing(n, dialogue) THEN 1 ELSE 0) <= 1 + failures

IInv ==
  /\ TypeOK /\ failures \in Nat /\ started \in Nat
  /\ \A a \in Admins : Sound(dialogue[a], products)
  /\ CodesOfItsAccount
  /\ Distinct /\ Counted

(***************************************************************************)
(* The fields.                                                             *)
(***************************************************************************)
LEMMA FieldsAre ==
  /\ DOMAIN FIELDS = 1..7
  /\ Fields = {"name_ua", "image_file_id", "delivery_mode", "steam_login",
               "steam_authenticator_id", "code_limit", "on_home"}
<1>1. DOMAIN FIELDS = 1..7
  BY DEF FIELDS
<1>2. Fields = {FIELDS[1], FIELDS[2], FIELDS[3], FIELDS[4], FIELDS[5], FIELDS[6], FIELDS[7]}
  BY <1>1 DEF Fields
<1> QED
  BY <1>1, <1>2 DEF FIELDS

\* The least index ahead of the i-th field whose field is asked for.
LEMMA FollowingIs ==
  ASSUME NEW i \in 1..7, NEW draft, NEW k \in 1..7,
         k > i, Asked(draft, FIELDS[k]), \A j \in 1..7 : i < j /\ j < k => ~Asked(draft, FIELDS[j])
  PROVE  Following(draft, FIELDS[i]) = FIELDS[k]
<1> DEFINE index == CHOOSE j \in DOMAIN FIELDS : FIELDS[j] = FIELDS[i]
           ahead == {j \in DOMAIN FIELDS : j > index /\ Asked(draft, FIELDS[j])}
<1>1. index = i
  <2>1. \A j \in 1..7 : FIELDS[j] = FIELDS[i] => j = i
    BY DEF FIELDS
  <2> QED
    BY <2>1, FieldsAre
<1>2. ahead = {j \in 1..7 : j > i /\ Asked(draft, FIELDS[j])}
  BY <1>1, FieldsAre
<1>3. Following(draft, FIELDS[i]) = IF ahead = {} THEN FIELDS[i] ELSE FIELDS[Min(ahead)]
  BY DEF Following
<1> HIDE DEF index, ahead
<1>4. Min(ahead) = k
  <2>1. k \in ahead /\ ahead \subseteq Int
    BY <1>2
  <2>2. \A j \in ahead : k <= j
    BY <1>2
  <2>3. \A j \in ahead : (\A l \in ahead : j <= l) => j = k
    BY <2>1, <2>2
  <2> QED
    BY <2>1, <2>2, <2>3 DEF Min
<1> QED
  BY <1>2, <1>3, <1>4

LEMMA FollowingNone ==
  ASSUME NEW draft
  PROVE  Following(draft, "on_home") = "on_home"
<1>1. (CHOOSE j \in DOMAIN FIELDS : FIELDS[j] = "on_home") = 7
  <2>1. \A j \in 1..7 : FIELDS[j] = "on_home" <=> j = 7
    BY DEF FIELDS
  <2> QED
    BY <2>1, FieldsAre
<1> QED
  BY <1>1, FieldsAre DEF Following

\* The order in which a new draft is asked for.
LEMMA NextField ==
  ASSUME NEW draft
  PROVE  /\ Following(draft, "name_ua") = "image_file_id"
         /\ Following(draft, "image_file_id") = "delivery_mode"
         /\ draft["delivery_mode"] = "manual" => Following(draft, "delivery_mode") = "on_home"
         /\ draft["delivery_mode"] # "manual" =>
              /\ Following(draft, "delivery_mode") = "steam_login"
              /\ Following(draft, "steam_login") = "steam_authenticator_id"
              /\ Following(draft, "steam_authenticator_id") = "code_limit"
         /\ Following(draft, "code_limit") = "on_home"
         /\ Following(draft, "on_home") = "on_home"
<1>1. /\ FIELDS[1] = "name_ua" /\ FIELDS[2] = "image_file_id" /\ FIELDS[3] = "delivery_mode"
      /\ FIELDS[4] = "steam_login" /\ FIELDS[5] = "steam_authenticator_id"
      /\ FIELDS[6] = "code_limit" /\ FIELDS[7] = "on_home"
  BY DEF FIELDS
<1>2. /\ Asked(draft, FIELDS[2]) /\ Asked(draft, FIELDS[3]) /\ Asked(draft, FIELDS[7])
      /\ \A j \in {4, 5, 6} : Asked(draft, FIELDS[j]) <=> draft["delivery_mode"] # "manual"
  BY <1>1 DEF Asked, SECRETS
<1>3. Following(draft, FIELDS[1]) = FIELDS[2] /\ Following(draft, FIELDS[2]) = FIELDS[3]
  BY <1>2, FollowingIs
<1>4. Following(draft, FIELDS[6]) = FIELDS[7]
  BY <1>2, FollowingIs
<1>5. draft["delivery_mode"] = "manual" => Following(draft, FIELDS[3]) = FIELDS[7]
  <2> SUFFICES ASSUME draft["delivery_mode"] = "manual" PROVE Following(draft, FIELDS[3]) = FIELDS[7]
    OBVIOUS
  <2>1. \A j \in 1..7 : 3 < j /\ j < 7 => ~Asked(draft, FIELDS[j])
    BY <1>2
  <2> QED
    BY <1>2, <2>1, FollowingIs
<1>6. ASSUME draft["delivery_mode"] # "manual", NEW i \in {3, 4, 5}
      PROVE  Following(draft, FIELDS[i]) = FIELDS[i + 1]
  <2>1. Asked(draft, FIELDS[i + 1]) /\ i + 1 \in 1..7 /\ i + 1 > i /\ i \in 1..7
    BY <1>2, <1>6
  <2>2. \A j \in 1..7 : ~(i < j /\ j < i + 1)
    BY <2>1
  <2> QED
    BY <2>1, <2>2, FollowingIs
<1>7. draft["delivery_mode"] # "manual" =>
        /\ Following(draft, FIELDS[3]) = FIELDS[4] /\ Following(draft, FIELDS[4]) = FIELDS[5]
        /\ Following(draft, FIELDS[5]) = FIELDS[6]
  BY <1>6
<1> QED
  BY <1>1, <1>3, <1>4, <1>5, <1>7, FollowingNone

(***************************************************************************)
(* Answers.                                                                *)
(***************************************************************************)
\* An answer that its field takes leaves the dialogue sound.
LEMMA AnsweredSound ==
  ASSUME NEW rows, NEW s, NEW n, NEW d \in Dialogues(s, n), NEW value \in Values,
         Sound(d, rows), d.field # None,
         d.field = "delivery_mode" => value \in {"auto", "manual"},
         d.field = "steam_login" => value \in Accounts,
         d.field = "steam_authenticator_id" =>
           /\ value \in Accounts
           /\ value = IF d.draft["steam_login"] \in Accounts THEN d.draft["steam_login"]
                      ELSE IF d.edit # 0 THEN rows[d.edit].login ELSE None
  PROVE  Answered(d, value) \in Dialogues(s, n) /\ Sound(Answered(d, value), rows)
<1> DEFINE draft == Written(d.draft, d.field, value)
           e == Answered(d, value)
<1> USE CatalogueAssumption
<1>1. d.field \in Fields /\ d.draft \in [Fields -> Values \cup {Unset}]
  BY DEF Dialogues
<1>2. /\ draft = [f \in Fields |-> draft[f]]
      /\ draft[d.field] = value
      /\ \A f \in Fields \ {d.field} :
           draft[f] = IF d.field = "delivery_mode" /\ value = "manual" /\ f \in SECRETS THEN None ELSE d.draft[f]
  BY <1>1 DEF Written
<1>3. "steam_login" \in Fields /\ "delivery_mode" \in Fields /\ "steam_authenticator_id" \in Fields
  BY FieldsAre
<1>4. draft \in Drafts
  <2>1. draft \in [Fields -> Values \cup {Unset}]
    BY <1>1, <1>2 DEF Values
  <2> QED
    BY <1>1, <1>2, <1>3, <2>1 DEF Drafts, Sound, SECRETS
<1> HIDE DEF draft
<1>5. /\ e.number = d.number /\ e.edit = d.edit /\ e.draft = draft /\ e.reviewing = d.reviewing
      /\ e.field = IF d.edit # 0 \/ d.reviewing THEN d.field ELSE Following(draft, d.field)
  BY DEF Answered, draft, Dialogues
<1>6. e.field \in Fields
  <2>1. CASE d.edit # 0 \/ d.reviewing
    BY <1>1, <1>5, <2>1
  <2>2. CASE d.edit = 0 /\ ~d.reviewing
    <3>1. d.field \in {"steam_login", "steam_authenticator_id"} => draft["delivery_mode"] = "auto"
      BY <1>2, <1>3, <2>2 DEF Sound, InOrder
    <3>2. Following(draft, d.field) \in Fields
      BY <1>1, <3>1, FieldsAre, NextField
    <3> QED
      BY <1>5, <2>2, <3>2
  <2> QED
    BY <2>1, <2>2
<1>7. e \in Dialogues(s, n)
  BY <1>4, <1>6 DEF Answered, Dialogues, Drafts, draft
<1>8. InOrder(e)
  <2> SUFFICES ASSUME d.edit = 0, ~d.reviewing PROVE InOrder(e)
    BY <1>5 DEF InOrder
  <2>1. InOrder(d) /\ e.field = Following(draft, d.field)
    BY <1>5 DEF Sound
  <2>2. CASE d.field \in {"name_ua", "image_file_id"}
    BY <1>2, <1>3, <1>5, <2>1, <2>2, NextField DEF InOrder
  <2>3. CASE d.field = "delivery_mode"
    BY <1>2, <1>3, <1>5, <2>1, <2>3, NextField DEF InOrder, SECRETS
  <2>4. CASE d.field = "steam_login"
    BY <1>2, <1>3, <1>5, <2>1, <2>4, NextField DEF InOrder
  <2>5. CASE d.field = "steam_authenticator_id"
    BY <1>2, <1>3, <1>5, <2>1, <2>5, NextField DEF InOrder
  <2>6. CASE d.field \in {"code_limit", "on_home"}
    BY <1>2, <1>3, <1>5, <2>1, <2>6, NextField DEF InOrder
  <2> QED
    BY <1>1, <2>2, <2>3, <2>4, <2>5, <2>6, FieldsAre
<1>9. OfTheLogin(e, rows)
  <2> SUFFICES ASSUME d.edit # 0, draft["steam_login"] = Unset, draft["delivery_mode"] = Unset
               PROVE  \/ draft["steam_authenticator_id"] = Unset
                      \/ rows[d.edit].retyped
                      \/ draft["steam_authenticator_id"] = rows[d.edit].login
    BY <1>5 DEF OfTheLogin
  <2>1. d.field # "steam_login" /\ d.field # "delivery_mode"
    BY <1>2
  <2>2. d.draft["steam_login"] = Unset /\ d.draft["delivery_mode"] = Unset
    BY <1>2, <1>3, <2>1
  <2>3. CASE d.field = "steam_authenticator_id"
    BY <1>2, <2>2, <2>3
  <2>4. CASE d.field # "steam_authenticator_id"
    BY <1>2, <1>3, <2>1, <2>2, <2>4 DEF Sound, OfTheLogin
  <2> QED
    BY <2>3, <2>4
<1>10. Numbered(e)
  BY <1>5 DEF Numbered, Sound
<1> QED
  BY <1>4, <1>5, <1>7, <1>8, <1>9, <1>10 DEF Sound

(***************************************************************************)
(* Steps.                                                                  *)
(***************************************************************************)
\* TypeOK by its parts.
LEMMA TypeParts ==
  TypeOK <=> /\ products \in Seq(Rows(started)) /\ authenticators \subseteq Accounts
             /\ dialogue \in [Admins -> Dialogues(started, Len(products))]
  BY DEF TypeOK, Rows, Dialogues

\* What a type of rows or dialogues admits, a wider one does.
LEMMA Wider ==
  ASSUME NEW s \in Nat, NEW t \in Nat, s <= t, NEW n \in Nat, NEW m \in Nat, n <= m
  PROVE  Rows(s) \subseteq Rows(t) /\ Dialogues(s, n) \subseteq Dialogues(t, m)
<1>1. 1..s \subseteq 1..t /\ 0..s \subseteq 0..t /\ 0..n \subseteq 0..m
  OBVIOUS
<1> QED
  BY <1>1 DEF Rows, Dialogues

LEMMA ProductsFinite ==
  ASSUME NEW S, NEW rows \in Seq(S), NEW n
  PROVE  IsFiniteSet(ProductsOf(n, rows)) /\ Cardinality(ProductsOf(n, rows)) \in Nat
<1>1. Len(rows) \in Nat /\ DOMAIN rows = 1..Len(rows)
  OBVIOUS
<1>2. IsFiniteSet(1..Len(rows)) /\ ProductsOf(n, rows) \in SUBSET (1..Len(rows))
  BY <1>1, FS_Interval DEF ProductsOf
<1> QED
  BY <1>2, FS_Subset, FS_CardinalityType

\* An event of one administrator that saves nothing: the draft stays the same,
\* is given up, or is a new one.
LEMMA OneDialogue ==
  ASSUME IInv, NEW a \in Admins, NEW e, UNCHANGED <<products, failures>>, authenticators' \subseteq Accounts,
         dialogue' = [dialogue EXCEPT ![a] = e],
         started' \in {started, started + 1},
         e \in Dialogues(started', Len(products)), Sound(e, products),
         \/ e.number = 0
         \/ e.number = dialogue[a].number /\ (dialogue[a].saved => e.saved)
         \/ started' = started + 1 /\ e.number = started + 1
  PROVE  IInv'
<1>1. /\ started \in Nat /\ started' \in Nat /\ started <= started' /\ failures \in Nat
      /\ products \in Seq(Rows(started)) /\ Len(products) \in Nat
      /\ dialogue \in [Admins -> Dialogues(started, Len(products))]
  BY TypeParts DEF IInv
<1>2. Rows(started) \subseteq Rows(started')
      /\ Dialogues(started, Len(products)) \subseteq Dialogues(started', Len(products))
  BY <1>1, Wider
<1>3. dialogue'[a] = e /\ \A b \in Admins \ {a} : dialogue'[b] = dialogue[b]
  BY <1>1
<1>4. TypeOK'
  <2>1. products' \in Seq(Rows(started'))
    BY <1>1, <1>2, SeqMonotonic
  <2>2. dialogue' \in [Admins -> Dialogues(started', Len(products'))]
    BY <1>1, <1>2
  <2> QED
    BY <2>1, <2>2 DEF TypeOK, Rows, Dialogues
<1>5. \A b \in Admins : Sound(dialogue'[b], products')
  BY <1>3 DEF IInv
<1>6. \A b \in Admins : dialogue[b].number \in 0..started
  BY <1>1 DEF Dialogues
<1>7. Distinct'
  BY <1>1, <1>3, <1>6 DEF IInv, Distinct
<1>8. Counted'
  <2> SUFFICES ASSUME NEW n \in 1..started'
               PROVE  Cardinality(ProductsOf(n, products)) + (IF Writing(n, dialogue') THEN 1 ELSE 0) <= 1 + failures
    BY DEF Counted
  <2>1. CASE n \in 1..started
    <3>1. Writing(n, dialogue') => Writing(n, dialogue)
      BY <1>1, <1>3, <2>1 DEF Writing
    <3>2. Cardinality(ProductsOf(n, products)) + (IF Writing(n, dialogue) THEN 1 ELSE 0) <= 1 + failures
      BY <2>1 DEF IInv, Counted
    <3>3. Cardinality(ProductsOf(n, products)) \in Nat
      BY <1>1, ProductsFinite
    <3> QED
      BY <1>1, <3>1, <3>2, <3>3
  <2>2. CASE n = started + 1
    <3>1. ProductsOf(n, products) = {}
      <4>1. \A p \in 1..Len(products) : products[p] \in Rows(started)
        BY <1>1, ElementOfSeq
      <4>2. DOMAIN products = 1..Len(products)
        BY <1>1
      <4> QED
        BY <1>1, <2>2, <4>1, <4>2 DEF ProductsOf, Rows
    <3> QED
      BY <1>1, <3>1, FS_EmptySet
  <2> QED
    BY <1>1, <2>1, <2>2
<1>9. CodesOfItsAccount'
  BY DEF IInv, CodesOfItsAccount, Products
<1> QED
  BY <1>1, <1>4, <1>5, <1>7, <1>8, <1>9 DEF IInv

\* The dialogue of an administrator is as it was before.
LEMMA DialogueIs ==
  ASSUME IInv, NEW a \in Admins
  PROVE  /\ dialogue \in [Admins -> Dialogues(started, Len(products))]
         /\ dialogue[a] \in Dialogues(started, Len(products)) /\ Sound(dialogue[a], products)
         /\ started \in Nat /\ Len(products) \in Nat /\ authenticators \subseteq Accounts
<1>1. Len(products) \in Nat
  BY TypeParts DEF IInv
<1> QED
  BY <1>1, TypeParts DEF IInv

\* A dialogue that ends, or has not begun.
LEMMA ClosedSound ==
  ASSUME NEW rows, NEW s \in Nat, NEW n \in Nat
  PROVE  Closed \in Dialogues(s, n) /\ Sound(Closed, rows) /\ Closed.number = 0
<1>1. Closed \in Dialogues(s, n)
  BY DEF Closed, Dialogues
<1>2. Closed.draft \in Drafts
  BY FieldsAre DEF Closed, Drafts
<1> QED
  BY <1>1, <1>2 DEF Closed, Sound, InOrder, OfTheLogin, Numbered

LEMMA AnswerStep ==
  ASSUME IInv, NEW a \in Admins,
         \/ \E v \in Answers(dialogue[a].field) : Answer(a, v)
         \/ \E x \in Accounts : Upload(a, x) \/ Select(a, x)
  PROVE  IInv'
<1> DEFINE d == dialogue[a]
<1>1. PICK v \in Values :
        /\ Attends(a) /\ Accept(a, v) /\ UNCHANGED <<products, started, failures>>
        /\ authenticators' \subseteq Accounts
        /\ d.field = "delivery_mode" => v \in {"auto", "manual"}
        /\ d.field = "steam_login" => v \in Accounts
        /\ d.field = "steam_authenticator_id" =>
             /\ v \in Accounts
             /\ v = IF d.draft["steam_login"] \in Accounts THEN d.draft["steam_login"]
                    ELSE IF d.edit # 0 THEN products[d.edit].login ELSE None
  <2>1. CASE \E v \in Answers(d.field) : Answer(a, v)
    BY <2>1, DialogueIs DEF Answer, Answers, Values
  <2>2. ASSUME NEW x \in Accounts, Upload(a, x) \/ Select(a, x)
        PROVE  /\ Attends(a) /\ Accept(a, x) /\ UNCHANGED <<products, started, failures>>
               /\ authenticators' \subseteq Accounts /\ d.field = "steam_authenticator_id" /\ x = Login(a)
    BY <2>2, DialogueIs DEF Upload, Select, Fits
  <2> QED
    BY <2>1, <2>2 DEF Login, Values
<1>2. d.field # None /\ d \in Dialogues(started, Len(products)) /\ Sound(d, products)
  BY <1>1, DialogueIs DEF Attends
<1>3. Answered(d, v) \in Dialogues(started, Len(products)) /\ Sound(Answered(d, v), products)
  BY <1>1, <1>2, AnsweredSound
<1>4. dialogue' = [dialogue EXCEPT ![a] = Answered(d, v)]
  BY <1>1, <1>2, DialogueIs DEF Accept
<1>5. Answered(d, v).number = d.number /\ Answered(d, v).saved = d.saved
  BY <1>2 DEF Answered, Dialogues
<1> QED
  BY <1>1, <1>3, <1>4, <1>5, OneDialogue

LEMMA DialogueStep ==
  ASSUME IInv, NEW a \in Admins,
         \/ Add(a) \/ Leave(a) \/ Clear(a)
         \/ \E f \in Fields : ReviewField(a, f) \/ \E p \in Products : Edit(a, p, f)
  PROVE  IInv'
<1> DEFINE d == dialogue[a]
<1>0. /\ started \in Nat /\ authenticators \subseteq Accounts
      /\ dialogue \in [Admins -> Dialogues(started, Len(products))]
      /\ d \in Dialogues(started, Len(products)) /\ Sound(d, products) /\ Len(products) \in Nat
  BY DialogueIs
<1>1. CASE Leave(a) \/ Clear(a)
  BY <1>0, <1>1, ClosedSound, OneDialogue DEF Leave, Clear
<1>2. CASE Add(a)
  <2> DEFINE e == [Closed EXCEPT !.number = started', !.field = FIELDS[1]]
  <2>1. /\ started' = started + 1 /\ UNCHANGED <<products, authenticators, failures>>
        /\ dialogue' = [dialogue EXCEPT ![a] = e]
    BY <1>2 DEF Add, Start
  <2>2. /\ e.number = started + 1 /\ e.edit = 0 /\ e.field = "name_ua" /\ e.draft = Closed.draft
        /\ e.draft["steam_authenticator_id"] = Unset
    BY <2>1, FieldsAre DEF Closed, FIELDS
  <2>3. e \in Dialogues(started', Len(products))
    <3>1. started' \in Nat /\ started' \in 0..started' /\ FIELDS[1] \in Fields
      BY <1>0, <2>1, FieldsAre DEF FIELDS
    <3>2. Closed \in Dialogues(started', Len(products))
      BY <1>0, <3>1, ClosedSound
    <3> QED
      BY <3>1, <3>2 DEF Dialogues
  <2>4. Closed.draft \in Drafts
    BY <1>0, ClosedSound DEF Sound
  <2>5. Sound(e, products)
    BY <1>0, <2>2, <2>4 DEF Sound, InOrder, OfTheLogin, Numbered
  <2> QED
    BY <1>0, <2>1, <2>2, <2>3, <2>5, OneDialogue
<1>3. ASSUME NEW f \in Fields, ReviewField(a, f) PROVE IInv'
  <2> DEFINE e == [d EXCEPT !.field = f, !.reviewing = TRUE]
  <2>1. /\ started' = started + 1 /\ UNCHANGED <<products, authenticators, failures>>
        /\ dialogue' = [dialogue EXCEPT ![a] = e] /\ d.field # None
    BY <1>0, <1>3 DEF ReviewField, Start, Attends
  <2>2. d \in Dialogues(started + 1, Len(products))
    <3>1. Dialogues(started, Len(products)) \subseteq Dialogues(started + 1, Len(products))
      BY <1>0, Wider
    <3> QED
      BY <1>0, <3>1
  <2>3. e \in Dialogues(started', Len(products))
    BY <2>1, <2>2 DEF Dialogues
  <2>4. /\ e.number = d.number /\ e.edit = d.edit /\ e.draft = d.draft /\ e.reviewing
        /\ e.field = f /\ e.saved = d.saved
    BY <1>0 DEF Dialogues
  <2>5. Sound(e, products)
    BY <1>0, <2>1, <2>4 DEF Sound, InOrder, OfTheLogin, Numbered
  <2> QED
    BY <1>0, <2>1, <2>3, <2>4, <2>5, OneDialogue
<1>4. ASSUME NEW f \in Fields, NEW p \in Products, Edit(a, p, f) PROVE IInv'
  <2> DEFINE e == [Closed EXCEPT !.edit = p, !.field = f]
  <2>1. /\ started' = started + 1 /\ UNCHANGED <<products, authenticators, failures>>
        /\ dialogue' = [dialogue EXCEPT ![a] = e]
    BY <1>4 DEF Edit, Start
  <2>2. p \in 1..Len(products)
    BY TypeParts DEF Products, IInv
  <2>3. /\ e.number = 0 /\ e.edit = p /\ e.field = f /\ e.draft = Closed.draft
        /\ e.draft["steam_authenticator_id"] = Unset
    BY FieldsAre DEF Closed
  <2>4. e \in Dialogues(started', Len(products))
    <3>1. started' \in Nat /\ p \in 0..Len(products)
      BY <1>0, <2>1, <2>2
    <3>2. Closed \in Dialogues(started', Len(products))
      BY <1>0, <3>1, ClosedSound
    <3> QED
      BY <3>1, <3>2 DEF Dialogues
  <2>5. Closed.draft \in Drafts
    BY <1>0, ClosedSound DEF Sound
  <2>6. Sound(e, products)
    BY <1>0, <2>2, <2>3, <2>5 DEF Sound, InOrder, OfTheLogin, Numbered
  <2> QED
    BY <1>0, <2>1, <2>3, <2>4, <2>6, OneDialogue
<1> QED
  BY <1>1, <1>2, <1>3, <1>4

\* A row whose codes are those of its account.
Matching(r) ==
  ~r.retyped => IF r.delivery = "manual" THEN r.login = None
                ELSE r.login # None /\ r.authenticator = r.login

\* What is known of the rows.
LEMMA RowsAre ==
  ASSUME IInv
  PROVE  /\ products \in Seq(Rows(started)) /\ DOMAIN products = 1..Len(products)
         /\ \A p \in 1..Len(products) : products[p] \in Rows(started) /\ Matching(products[p])
<1>1. products \in Seq(Rows(started)) /\ DOMAIN products = 1..Len(products)
  BY TypeParts DEF IInv
<1>2. \A p \in 1..Len(products) : products[p] \in Rows(started)
  BY <1>1, ElementOfSeq
<1> QED
  BY <1>1, <1>2 DEF IInv, CodesOfItsAccount, Products, Matching

\* A saved dialogue keeps what it is.
LEMMA SavedSound ==
  ASSUME NEW rows, NEW s, NEW n, NEW d \in Dialogues(s, n), Sound(d, rows),
         NEW e, e = [d EXCEPT !.saved = TRUE] \/ e = [d EXCEPT !.saved = FALSE]
  PROVE  e \in Dialogues(s, n) /\ Sound(e, rows) /\ e.number = d.number
<1>1. e \in Dialogues(s, n)
  BY DEF Dialogues
<1>2. /\ e.number = d.number /\ e.edit = d.edit /\ e.field = d.field /\ e.draft = d.draft
      /\ e.reviewing = d.reviewing
  BY DEF Dialogues
<1>3. Sound(e, rows)
  BY <1>2 DEF Sound, InOrder, OfTheLogin, Numbered
<1> QED
  BY <1>1, <1>2, <1>3

\* A complete draft makes a row whose codes match.
LEMMA RowSound ==
  ASSUME NEW rows, NEW s \in Nat, NEW n, NEW d \in Dialogues(s, n), Sound(d, rows),
         d.field # None, d.edit = 0, \A f \in Fields : d.draft[f] # Unset
  PROVE  Row(d) \in Rows(s) /\ Matching(Row(d)) /\ Row(d).draft = d.number
<1> USE CatalogueAssumption
<1>1. d.field \in Fields /\ d.number \in 1..s /\ d.reviewing \in BOOLEAN
  BY DEF Dialogues, Sound, Numbered
<1>2. /\ d.draft["delivery_mode"] \in {"auto", "manual"}
      /\ d.draft["steam_login"] \in Accounts \cup {None}
      /\ d.draft["steam_authenticator_id"] \in Accounts \cup {None}
  BY FieldsAre DEF Sound, Drafts
<1>3. Row(d) \in Rows(s) /\ Row(d).draft = d.number
  BY <1>1, <1>2 DEF Row, Rows
<1>4. Matching(Row(d))
  <2> SUFFICES ASSUME ~d.reviewing PROVE Matching(Row(d))
    BY DEF Row, Matching
  <2>1. /\ d.field \in {"code_limit", "on_home"}
        /\ \/ d.draft["delivery_mode"] = "manual" /\ d.draft["steam_login"] = None
           \/ /\ d.draft["delivery_mode"] = "auto" /\ d.draft["steam_login"] \in Accounts
              /\ d.draft["steam_authenticator_id"] = d.draft["steam_login"]
    BY <1>1, FieldsAre DEF Sound, InOrder
  <2> QED
    BY <2>1 DEF Matching, Row
<1> QED
  BY <1>3, <1>4

\* Rows that are added, or typed again, leave the other dialogues sound.
LEMMA SoundElsewhere ==
  ASSUME NEW rows, NEW new, NEW s, NEW n \in Nat, NEW d \in Dialogues(s, n), Sound(d, rows),
         \A p \in 1..n : (rows[p].retyped \/ new[p].login # rows[p].login) => new[p].retyped
  PROVE  Sound(d, new)
<1>1. d.edit # 0 => d.edit \in 1..n
  BY DEF Dialogues
<1> QED
  BY <1>1 DEF Sound, OfTheLogin

LEMMA SaveStep ==
  ASSUME IInv, NEW a \in Admins, Save(a)
  PROVE  IInv'
<1> DEFINE d == dialogue[a]
           e == [d EXCEPT !.saved = TRUE]
           n == Len(products)
<1>1. /\ started \in Nat /\ n \in Nat /\ failures \in Nat
      /\ dialogue \in [Admins -> Dialogues(started, n)]
      /\ d \in Dialogues(started, n) /\ Sound(d, products)
  BY DialogueIs DEF IInv
<1>2. /\ d.field # None /\ ~d.saved /\ d.edit = 0 /\ \A f \in Fields : d.draft[f] # Unset
      /\ products' = Append(products, Row(d)) /\ dialogue' = [dialogue EXCEPT ![a] = e]
      /\ UNCHANGED <<authenticators, started, failures>>
  BY DEF Save, Attends
<1>3. Row(d) \in Rows(started) /\ Matching(Row(d)) /\ Row(d).draft = d.number
  BY <1>1, <1>2, RowSound
<1>4. e \in Dialogues(started, n) /\ Sound(e, products) /\ e.number = d.number /\ e.saved
  <2>1. e \in Dialogues(started, n) /\ Sound(e, products) /\ e.number = d.number
    BY <1>1, SavedSound
  <2>2. e.saved
    BY <1>1 DEF Dialogues
  <2> QED
    BY <2>1, <2>2
<1> HIDE DEF e
<1>5. /\ products' \in Seq(Rows(started)) /\ Len(products') = n + 1 /\ DOMAIN products' = 1..n + 1
      /\ products'[n + 1] = Row(d) /\ \A p \in 1..n : products'[p] = products[p]
  BY <1>1, <1>2, <1>3, RowsAre
<1>6. dialogue'[a] = e /\ \A b \in Admins \ {a} : dialogue'[b] = dialogue[b]
  BY <1>1, <1>2
<1>7. TypeOK'
  <2>1. Dialogues(started, n) \subseteq Dialogues(started, n + 1)
    BY <1>1, Wider
  <2>2. dialogue' \in [Admins -> Dialogues(started', Len(products'))]
    BY <1>1, <1>2, <1>4, <1>5, <2>1
  <2> QED
    BY <1>2, <1>5, <2>2, DialogueIs DEF TypeOK, Rows, Dialogues
<1>8. \A b \in Admins : Sound(dialogue'[b], products')
  <2> SUFFICES ASSUME NEW b \in Admins PROVE Sound(dialogue'[b], products')
    OBVIOUS
  <2>1. dialogue'[b] \in Dialogues(started, n) /\ Sound(dialogue'[b], products)
    BY <1>1, <1>4, <1>6, DialogueIs
  <2> QED
    BY <1>1, <1>5, <2>1, SoundElsewhere
<1>9. CodesOfItsAccount'
  <2>1. \A p \in 1..n + 1 : Matching(products'[p])
    BY <1>1, <1>3, <1>5, RowsAre
  <2> QED
    BY <1>5, <2>1 DEF CodesOfItsAccount, Products, Matching
<1>10. Distinct'
  BY <1>4, <1>6 DEF IInv, Distinct
<1>11. Counted'
  <2> SUFFICES ASSUME NEW m \in 1..started
               PROVE  Cardinality(ProductsOf(m, products')) + (IF Writing(m, dialogue') THEN 1 ELSE 0) <= 1 + failures
    BY <1>2 DEF Counted
  <2>1. Cardinality(ProductsOf(m, products)) + (IF Writing(m, dialogue) THEN 1 ELSE 0) <= 1 + failures
    BY DEF IInv, Counted
  <2>2. IsFiniteSet(ProductsOf(m, products)) /\ Cardinality(ProductsOf(m, products)) \in Nat
    BY RowsAre, ProductsFinite
  <2>3. CASE m = d.number
    <3>1. Writing(m, dialogue) /\ ~Writing(m, dialogue')
      BY <1>2, <1>4, <1>6, <2>3 DEF Writing, IInv, Distinct
    <3>2. ProductsOf(m, products') = ProductsOf(m, products) \cup {n + 1} /\ n + 1 \notin ProductsOf(m, products)
      BY <1>1, <1>3, <1>5, <2>3, RowsAre DEF ProductsOf
    <3>3. Cardinality(ProductsOf(m, products')) = Cardinality(ProductsOf(m, products)) + 1
      BY <2>2, <3>2, FS_AddElement
    <3> QED
      BY <1>1, <2>1, <2>2, <3>1, <3>3
  <2>4. CASE m # d.number
    <3>1. Writing(m, dialogue') => Writing(m, dialogue)
      BY <1>4, <1>6, <2>4 DEF Writing
    <3>2. ProductsOf(m, products') = ProductsOf(m, products)
      BY <1>1, <1>3, <1>5, <2>4, RowsAre DEF ProductsOf
    <3> QED
      BY <1>1, <2>1, <2>2, <3>1, <3>2
  <2> QED
    BY <2>3, <2>4
<1> QED
  BY <1>1, <1>2, <1>7, <1>8, <1>9, <1>10, <1>11 DEF IInv

LEMMA SaveEditStep ==
  ASSUME IInv, NEW a \in Admins, SaveEdit(a)
  PROVE  IInv'
<1> USE CatalogueAssumption
<1> DEFINE d == dialogue[a]
           e == [d EXCEPT !.saved = TRUE]
           n == Len(products)
           old == products[d.edit]
           new == products'[d.edit]
<1>1. /\ started \in Nat /\ n \in Nat /\ failures \in Nat
      /\ dialogue \in [Admins -> Dialogues(started, n)]
      /\ d \in Dialogues(started, n) /\ Sound(d, products)
  BY DialogueIs DEF IInv
<1>2. d.edit \in 1..n /\ dialogue' = [dialogue EXCEPT ![a] = e]
      /\ UNCHANGED <<authenticators, started, failures>>
  BY <1>1 DEF SaveEdit, Dialogues
<1>3. old \in Rows(started) /\ Matching(old)
  BY <1>2, RowsAre
<1>4. /\ d.draft["delivery_mode"] \in {"auto", "manual", Unset}
      /\ d.draft["steam_login"] \in Accounts \cup {None, Unset}
      /\ d.draft["steam_authenticator_id"] \in Accounts \cup {None, Unset}
  BY <1>1 DEF Sound, Drafts
<1>5. /\ products' = [products EXCEPT ![d.edit] = new]
      /\ new \in Rows(started) /\ new.draft = old.draft
      /\ new.retyped = (old.retyped \/ d.draft["steam_login"] # Unset \/ d.draft["delivery_mode"] # Unset)
      /\ new.login = IF d.draft["steam_login"] = Unset THEN old.login ELSE d.draft["steam_login"]
      /\ new.authenticator = IF d.draft["steam_authenticator_id"] = Unset THEN old.authenticator
                             ELSE d.draft["steam_authenticator_id"]
      /\ new.delivery = IF d.draft["delivery_mode"] = Unset THEN old.delivery ELSE d.draft["delivery_mode"]
  <2> DEFINE row == [old EXCEPT
        !.login = IF d.draft["steam_login"] = Unset THEN @ ELSE d.draft["steam_login"],
        !.authenticator = IF d.draft["steam_authenticator_id"] = Unset THEN @
                          ELSE d.draft["steam_authenticator_id"],
        !.delivery = IF d.draft["delivery_mode"] = Unset THEN @ ELSE d.draft["delivery_mode"],
        !.retyped = @ \/ d.draft["steam_login"] # Unset \/ d.draft["delivery_mode"] # Unset]
  <2>1. products' = [products EXCEPT ![d.edit] = row]
    BY DEF SaveEdit
  <2>2. new = row
    BY <1>2, <2>1, RowsAre
  <2>3. /\ row.draft = old.draft
        /\ row.retyped = (old.retyped \/ d.draft["steam_login"] # Unset \/ d.draft["delivery_mode"] # Unset)
        /\ row.login = IF d.draft["steam_login"] = Unset THEN old.login ELSE d.draft["steam_login"]
        /\ row.authenticator = IF d.draft["steam_authenticator_id"] = Unset THEN old.authenticator
                               ELSE d.draft["steam_authenticator_id"]
        /\ row.delivery = IF d.draft["delivery_mode"] = Unset THEN old.delivery ELSE d.draft["delivery_mode"]
    BY <1>3 DEF Rows
  <2>4. row \in Rows(started)
    BY <1>3, <1>4 DEF Rows
  <2> QED
    BY <2>1, <2>2, <2>3, <2>4
<1>6. e \in Dialogues(started, n) /\ Sound(e, products) /\ e.number = d.number /\ e.saved
  <2>1. e \in Dialogues(started, n) /\ Sound(e, products) /\ e.number = d.number
    BY <1>1, SavedSound
  <2>2. e.saved
    BY <1>1 DEF Dialogues
  <2> QED
    BY <2>1, <2>2
<1> HIDE DEF e, new
<1>7. /\ products' \in Seq(Rows(started)) /\ Len(products') = n /\ DOMAIN products' = 1..n
      /\ \A p \in 1..n : p # d.edit => products'[p] = products[p]
  BY <1>1, <1>2, <1>5, RowsAre, ExceptSeq
<1>8. dialogue'[a] = e /\ \A b \in Admins \ {a} : dialogue'[b] = dialogue[b]
  BY <1>1, <1>2
<1>9. TypeOK'
  <2>1. dialogue' \in [Admins -> Dialogues(started', Len(products'))]
    BY <1>1, <1>2, <1>6, <1>7
  <2> QED
    BY <1>2, <1>7, <2>1, DialogueIs DEF TypeOK, Rows, Dialogues
<1>10. \A b \in Admins : Sound(dialogue'[b], products')
  <2> SUFFICES ASSUME NEW b \in Admins PROVE Sound(dialogue'[b], products')
    OBVIOUS
  <2>1. dialogue'[b] \in Dialogues(started, n) /\ Sound(dialogue'[b], products)
    BY <1>1, <1>6, <1>8, DialogueIs
  <2>2. \A p \in 1..n : (products[p].retyped \/ products'[p].login # products[p].login) => products'[p].retyped
    BY <1>2, <1>5, <1>7 DEF new
  <2> QED
    BY <1>1, <2>1, <2>2, SoundElsewhere
<1>11. CodesOfItsAccount'
  <2>1. Matching(new)
    <3> SUFFICES ASSUME ~old.retyped, d.draft["steam_login"] = Unset, d.draft["delivery_mode"] = Unset
                 PROVE  Matching(new)
      BY <1>5 DEF Matching
    <3>1. d.draft["steam_authenticator_id"] \in {Unset, old.login}
      BY <1>1, <1>2 DEF Sound, OfTheLogin
    <3> QED
      BY <1>3, <1>5, <3>1 DEF Matching
  <2>2. \A p \in 1..n : Matching(products'[p])
    BY <1>2, <1>7, <2>1, RowsAre DEF new
  <2> QED
    BY <1>7, <2>2 DEF CodesOfItsAccount, Products, Matching
<1>12. Distinct'
  BY <1>6, <1>8 DEF IInv, Distinct
<1>13. Counted'
  <2> SUFFICES ASSUME NEW m \in 1..started
               PROVE  Cardinality(ProductsOf(m, products')) + (IF Writing(m, dialogue') THEN 1 ELSE 0) <= 1 + failures
    BY <1>2 DEF Counted
  <2>1. ProductsOf(m, products') = ProductsOf(m, products)
    BY <1>2, <1>5, <1>7, RowsAre DEF ProductsOf, new
  <2>2. Writing(m, dialogue') => Writing(m, dialogue)
    BY <1>6, <1>8 DEF Writing
  <2>3. Cardinality(ProductsOf(m, products)) + (IF Writing(m, dialogue) THEN 1 ELSE 0) <= 1 + failures
    BY DEF IInv, Counted
  <2>4. Cardinality(ProductsOf(m, products)) \in Nat
    BY RowsAre, ProductsFinite
  <2> QED
    BY <1>1, <2>1, <2>2, <2>3, <2>4
<1> QED
  BY <1>1, <1>2, <1>9, <1>10, <1>11, <1>12, <1>13 DEF IInv

LEMMA RestartStep ==
  ASSUME IInv, Restart
  PROVE  IInv'
<1> DEFINE n == Len(products)
<1>1. /\ started \in Nat /\ failures \in Nat /\ failures' = failures + 1
      /\ dialogue \in [Admins -> Dialogues(started, n)]
      /\ dialogue' = [b \in Admins |-> [dialogue[b] EXCEPT !.saved = FALSE]]
      /\ UNCHANGED <<products, authenticators, started>>
  BY TypeParts DEF IInv, Restart
<1>2. ASSUME NEW b \in Admins
      PROVE  /\ dialogue'[b] \in Dialogues(started, n) /\ Sound(dialogue'[b], products)
             /\ dialogue'[b].number = dialogue[b].number
  <2>1. dialogue[b] \in Dialogues(started, n) /\ Sound(dialogue[b], products)
    BY DialogueIs
  <2> QED
    BY <1>1, <2>1, SavedSound
<1>3. TypeOK'
  <2>1. dialogue' \in [Admins -> Dialogues(started', Len(products'))]
    BY <1>1, <1>2
  <2> QED
    BY <1>1, <2>1, TypeParts DEF IInv, TypeOK, Rows, Dialogues
<1>4. Distinct' /\ CodesOfItsAccount'
  BY <1>1, <1>2 DEF IInv, Distinct, CodesOfItsAccount, Products
<1>5. Counted'
  <2> SUFFICES ASSUME NEW m \in 1..started
               PROVE  Cardinality(ProductsOf(m, products)) + (IF Writing(m, dialogue') THEN 1 ELSE 0) <= 1 + failures'
    BY <1>1 DEF Counted
  <2>1. Cardinality(ProductsOf(m, products)) + (IF Writing(m, dialogue) THEN 1 ELSE 0) <= 1 + failures
    BY DEF IInv, Counted
  <2>2. Cardinality(ProductsOf(m, products)) \in Nat
    BY RowsAre, ProductsFinite
  <2> QED
    BY <1>1, <2>1, <2>2
<1> QED
  BY <1>1, <1>2, <1>3, <1>4, <1>5 DEF IInv

LEMMA InitIInv == Init => IInv
<1> SUFFICES ASSUME Init PROVE IInv
  OBVIOUS
<1>1. /\ products = <<>> /\ authenticators = {} /\ started = 0 /\ failures = 0
      /\ dialogue = [a \in Admins |-> Closed]
  BY DEF Init
<1>2. products \in Seq(Rows(started)) /\ Len(products) = 0 /\ DOMAIN products = {}
  BY <1>1, EmptySeq
<1>3. \A a \in Admins : dialogue[a] \in Dialogues(0, 0) /\ Sound(dialogue[a], products) /\ dialogue[a].number = 0
  BY <1>1, ClosedSound
<1>4. TypeOK
  BY <1>1, <1>2, <1>3, TypeParts
<1> QED
  BY <1>1, <1>2, <1>3, <1>4 DEF IInv, CodesOfItsAccount, Products, Distinct, Counted

LEMMA StepIInv == IInv /\ [Next]_vars => IInv'
<1> SUFFICES ASSUME IInv, [Next]_vars PROVE IInv'
  OBVIOUS
<1>1. ASSUME NEW a \in Admins,
             \/ Add(a) \/ Leave(a) \/ Save(a) \/ SaveEdit(a) \/ Clear(a)
             \/ \E f \in Fields : ReviewField(a, f) \/ \E p \in Products : Edit(a, p, f)
             \/ \E v \in Answers(dialogue[a].field) : Answer(a, v)
             \/ \E x \in Accounts : Upload(a, x) \/ Select(a, x)
      PROVE  IInv'
  BY <1>1, DialogueStep, AnswerStep, SaveStep, SaveEditStep
<1>2. CASE Restart
  BY <1>2, RestartStep
<1>3. CASE UNCHANGED vars
  BY <1>3 DEF vars, IInv, TypeOK, CodesOfItsAccount, Products, Distinct, Counted
<1> QED
  BY <1>1, <1>2, <1>3 DEF Next

LEMMA Invariance == Spec => []IInv
  BY InitIInv, StepIInv, PTL DEF Spec

(***************************************************************************)
(* The theorems.                                                           *)
(***************************************************************************)
\* Rows, drafts and dialogues keep their types.
THEOREM TypeCorrect == Spec => []TypeOK
  BY Invariance, PTL DEF IInv

\* A product whose login and way of delivery nobody has typed again hands over
\* the account its codes are for (admin.py:1519), whoever edits it meanwhile.
THEOREM AccountsMatch == Spec => []CodesOfItsAccount
  BY Invariance, PTL DEF IInv

\* A draft becomes no more products than there were stops, and one
\* (admin.py:1647).
THEOREM DraftsSavedOnce == Spec => []AddedOnce
<1>1. IInv => AddedOnce
  <2> SUFFICES ASSUME IInv, NEW n \in 1..started
               PROVE  Cardinality({p \in Products : products[p].draft = n}) <= 1 + failures
    BY DEF AddedOnce
  <2>1. Cardinality(ProductsOf(n, products)) + (IF Writing(n, dialogue) THEN 1 ELSE 0) <= 1 + failures
    BY DEF IInv, Counted
  <2>2. Cardinality(ProductsOf(n, products)) \in Nat
    BY RowsAre, ProductsFinite
  <2> QED
    BY <2>1, <2>2 DEF ProductsOf, Products, IInv
<1> QED
  BY <1>1, Invariance, PTL
=============================================================================
