----------------------------- MODULE Catalogue ------------------------------
(***************************************************************************)
(* The administrators' dialogue that adds and edits products               *)
(* (app/admin.py:151-293, 1466-1650, 1820-1841) and the Steam              *)
(* authenticators that products share.                                     *)
(*                                                                         *)
(* A dialogue lives in Redis; the events of one administrator are handled  *)
(* one at a time, those of two interleave.  Buttons of old messages can be *)
(* pressed at any time.  The fields whose values decide nothing are one:   *)
(* "name_ua" stands for name, description, price, quantity and activation, *)
(* "steam_login" for login and password, "on_home" for both flags.         *)
(***************************************************************************)
EXTENDS Integers, FiniteSets, FiniteSetsExt, Sequences

CONSTANTS
  Admins,
  Accounts,  \* Steam accounts
  None,
  Unset,     \* a field that the draft does not have
  MaxProducts, MaxStarts, MaxFailures \* bounds of the model

FIELDS == <<"name_ua", "image_file_id", "delivery_mode", "steam_login",
            "steam_authenticator_id", "code_limit", "on_home">>
Fields == {FIELDS[i] : i \in DOMAIN FIELDS}
SECRETS == {"steam_login", "steam_authenticator_id", "code_limit"}

ASSUME CatalogueAssumption ==
  /\ None \notin Accounts \cup Fields
  /\ Unset \notin Accounts \cup {None, "given", "auto", "manual"}
  /\ MaxProducts \in Nat /\ MaxStarts \in Nat /\ MaxFailures \in Nat

VARIABLES
  products,       \* rows: [login, authenticator, delivery, draft (its number), retyped]
  authenticators, \* accounts whose maFile is known
  dialogue,       \* each administrator's state
  started,        \* dialogues begun or taken up again
  failures

vars == <<products, authenticators, dialogue, started, failures>>

Closed == [number |-> 0, edit |-> 0, field |-> None, draft |-> [f \in Fields |-> Unset],
           reviewing |-> FALSE, saved |-> FALSE]
Products == DOMAIN products

Init ==
  /\ products = <<>> /\ authenticators = {}
  /\ dialogue = [a \in Admins |-> Closed]
  /\ started = 0 /\ failures = 0

\* An event of an administrator whose last one has been handled, in a dialogue.
Attends(a) == dialogue[a].field # None /\ ~dialogue[a].saved

Start == started < MaxStarts /\ started' = started + 1

\* "➕ Додати товар"
Add(a) ==
  /\ ~dialogue[a].saved
  /\ Start
  /\ dialogue' = [dialogue EXCEPT ![a] = [Closed EXCEPT !.number = started', !.field = FIELDS[1]]]
  /\ UNCHANGED <<products, authenticators, failures>>

Edit(a, p, field) ==
  /\ ~dialogue[a].saved
  /\ Start
  /\ dialogue' = [dialogue EXCEPT ![a] = [Closed EXCEPT !.edit = p, !.field = field]]
  /\ UNCHANGED <<products, authenticators, failures>>

\* "✏️ Редагувати" of a preview, also of an old one.
ReviewField(a, field) ==
  /\ Attends(a)
  /\ Start
  /\ dialogue' = [dialogue EXCEPT ![a] = [@ EXCEPT !.field = field, !.reviewing = TRUE]]
  /\ UNCHANGED <<products, authenticators, failures>>

\* /cancel, "❌ Скасувати", or 30 minutes.
Leave(a) ==
  /\ Attends(a)
  /\ dialogue' = [dialogue EXCEPT ![a] = Closed]
  /\ UNCHANGED <<products, authenticators, started, failures>>

(***************************************************************************)
(* An answer is accepted.                                                  *)
(***************************************************************************)
\* Delivery by hand clears what is written of the account.
Written(draft, field, value) ==
  [f \in Fields |->
     IF f = field THEN value
     ELSE IF field = "delivery_mode" /\ value = "manual" /\ f \in SECRETS
          THEN None
          ELSE draft[f]]

Asked(draft, field) == ~(draft["delivery_mode"] = "manual" /\ field \in SECRETS)

\* The field after this one that this draft needs; the field itself if none.
Following(draft, field) ==
  LET index == CHOOSE i \in DOMAIN FIELDS : FIELDS[i] = field
      ahead == {i \in DOMAIN FIELDS : i > index /\ Asked(draft, FIELDS[i])}
  IN IF ahead = {} THEN field ELSE FIELDS[Min(ahead)]

Answered(d, value) ==
  LET draft == Written(d.draft, d.field, value)
  IN [d EXCEPT !.draft = draft,
               !.field = IF d.edit # 0 \/ d.reviewing THEN @ ELSE Following(draft, d.field)]

Accept(a, value) == dialogue' = [dialogue EXCEPT ![a] = Answered(@, value)]

\* What parse_field lets through, and the buttons of the field's question.  Any
\* way of delivery that is typed is not "manual": it stands with "auto".
Answers(field) ==
  CASE field = "delivery_mode" -> {"auto", "manual"}
    [] field = "steam_login" -> Accounts
    [] field = "steam_authenticator_id" -> {}
    [] field = "image_file_id" -> {None}
    [] OTHER -> {"given"}

Answer(a, value) ==
  /\ Attends(a)
  /\ value \in Answers(dialogue[a].field)
  /\ Accept(a, value)
  /\ UNCHANGED <<products, authenticators, started, failures>>

\* The login of the draft, or else that of the product being edited.
Login(a) ==
  LET d == dialogue[a] IN
  IF d.draft["steam_login"] \in Accounts THEN d.draft["steam_login"]
  ELSE IF d.edit # 0 THEN products[d.edit].login ELSE None

\* Mutation: the login of the product is not compared.
Fits_Any(a, account) == TRUE

Fits(a, account) == account = Login(a)

\* A maFile is stored before the draft takes it.
Upload(a, account) ==
  /\ Attends(a)
  /\ dialogue[a].field = "steam_authenticator_id" /\ Fits(a, account)
  /\ authenticators' = authenticators \cup {account}
  /\ Accept(a, account)
  /\ UNCHANGED <<products, started, failures>>

Select(a, account) ==
  /\ Attends(a)
  /\ dialogue[a].field = "steam_authenticator_id"
  /\ account \in authenticators /\ Fits(a, account)
  /\ Accept(a, account)
  /\ UNCHANGED <<products, authenticators, started, failures>>

(***************************************************************************)
(* The dialogue's result is committed, and the dialogue cleared after it.  *)
(***************************************************************************)
Row(d) == [login |-> d.draft["steam_login"], authenticator |-> d.draft["steam_authenticator_id"],
           delivery |-> d.draft["delivery_mode"], draft |-> d.number, retyped |-> d.reviewing]

\* Mutation: a draft is saved before it is complete.
Save_Partial(a) ==
  /\ Attends(a)
  /\ dialogue[a].edit = 0
  /\ Len(products) < MaxProducts
  /\ products' = Append(products, Row(dialogue[a]))
  /\ dialogue' = [dialogue EXCEPT ![a].saved = TRUE]
  /\ UNCHANGED <<authenticators, started, failures>>

\* Mutation: the dialogue is not marked as done.
Save_Again(a) ==
  /\ Attends(a)
  /\ dialogue[a].edit = 0 /\ \A f \in Fields : dialogue[a].draft[f] # Unset
  /\ Len(products) < MaxProducts
  /\ products' = Append(products, Row(dialogue[a]))
  /\ UNCHANGED <<dialogue, authenticators, started, failures>>

Save(a) ==
  /\ Attends(a)
  /\ dialogue[a].edit = 0 /\ \A f \in Fields : dialogue[a].draft[f] # Unset
  /\ Len(products) < MaxProducts
  /\ products' = Append(products, Row(dialogue[a]))
  /\ dialogue' = [dialogue EXCEPT ![a].saved = TRUE]
  /\ UNCHANGED <<authenticators, started, failures>>

\* Every field of the draft replaces the product's.
SaveEdit(a) ==
  LET d == dialogue[a]
      old == products[d.edit]
      New(f, value) == IF d.draft[f] = Unset THEN value ELSE d.draft[f]
  IN /\ Attends(a)
     /\ d.edit # 0 /\ \E f \in Fields : d.draft[f] # Unset
     /\ products' = [products EXCEPT ![d.edit] =
          [old EXCEPT !.login = New("steam_login", @),
                      !.authenticator = New("steam_authenticator_id", @),
                      !.delivery = New("delivery_mode", @),
                      !.retyped = @ \/ d.draft["steam_login"] # Unset
                                    \/ d.draft["delivery_mode"] # Unset]]
     /\ dialogue' = [dialogue EXCEPT ![a].saved = TRUE]
     /\ UNCHANGED <<authenticators, started, failures>>

Clear(a) ==
  /\ dialogue[a].saved
  /\ dialogue' = [dialogue EXCEPT ![a] = Closed]
  /\ UNCHANGED <<products, authenticators, started, failures>>

\* The process stops before the dialogue is cleared: it goes on where it was.
Restart ==
  /\ failures < MaxFailures
  /\ \E a \in Admins : dialogue[a].saved
  /\ failures' = failures + 1
  /\ dialogue' = [a \in Admins |-> [dialogue[a] EXCEPT !.saved = FALSE]]
  /\ UNCHANGED <<products, authenticators, started>>

Next ==
  \/ \E a \in Admins :
       \/ Add(a) \/ Leave(a) \/ Save(a) \/ SaveEdit(a) \/ Clear(a)
       \/ \E f \in Fields : ReviewField(a, f) \/ \E p \in Products : Edit(a, p, f)
       \/ \E v \in Answers(dialogue[a].field) : Answer(a, v)
       \/ \E x \in Accounts : Upload(a, x) \/ Select(a, x)
  \/ Restart

Spec == Init /\ [][Next]_vars

(***************************************************************************)
(* Properties.                                                             *)
(***************************************************************************)
Values == {"given", "auto", "manual", None} \cup Accounts

TypeOK ==
  /\ products \in Seq([login : Accounts \cup {None}, authenticator : Accounts \cup {None},
                       delivery : {"auto", "manual"}, draft : 1..started, retyped : BOOLEAN])
  /\ authenticators \subseteq Accounts
  /\ dialogue \in [Admins -> [number : 0..started, edit : 0..Len(products), field : Fields \cup {None},
                              draft : [Fields -> Values \cup {Unset}], reviewing : BOOLEAN, saved : BOOLEAN]]

\* "maFile належить акаунту …, а в товарі вказано …" (admin.py:1519): the codes
\* of a product are those of the account it hands over, whoever edits it and
\* whichever buttons are pressed - as long as neither its login nor its way of
\* delivery is typed again afterwards, which nothing compares (admin.py:1836).
CodesOfItsAccount ==
  \A p \in Products :
    ~products[p].retyped =>
      IF products[p].delivery = "manual"
      THEN products[p].login = None
      ELSE products[p].login # None /\ products[p].authenticator = products[p].login

\* A draft becomes one product, and one more for each time the process stopped
\* between the commit and the end of the dialogue (admin.py:1647-1648).
AddedOnce ==
  \A n \in 1..started : Cardinality({p \in Products : products[p].draft = n}) <= 1 + failures
=============================================================================
