----------------------------- MODULE SteamCodes -----------------------------
(***************************************************************************)
(* Steam Guard codes: Shop.code (app/services.py:830), the handlers that   *)
(* ask for one (bot.py:2086, admin.py:359) and the time they wait for a    *)
(* fresh one (app/steam_guard.py).                                         *)
(*                                                                         *)
(* One Telegram user with several orders; the user may be an administrator *)
(* too.  Redis lets one event of a user be handled at a time, by a lock    *)
(* that expires while a slow handler is still at work.  The clock counts   *)
(* whole seconds; what a fraction of a second would change is a choice.    *)
(***************************************************************************)
EXTENDS Integers, FiniteSets

CONSTANTS
  Orders,
  Handlers, \* events being handled (bounds the model)
  Limit,    \* products.code_limit
  Lags,     \* the times a message to Telegram may take, in seconds
  LockTimeout, \* the life of the lock of a user's events; 120 in main.py:54
  Overtime, \* how often the lock may expire under a handler (bounds the model)
  Orphan,   \* holder of a lock whose process has stopped
  None

STEAM_CODE_PERIOD == 30
FRESH_CODE_MIN_LIFETIME == 26
CODE_REQUEST_COOLDOWN_SECONDS == 30

\* A message that takes longer is slow; the Bot of main.py:45 gives up after 60.
PROMPT == 2

ASSUME SteamCodesAssumption ==
  /\ IsFiniteSet(Handlers)
  /\ Limit \in Nat /\ Overtime \in Nat
  /\ Lags \subseteq Nat
  /\ LockTimeout \in Nat /\ LockTimeout > STEAM_CODE_PERIOD + PROMPT
  /\ None \notin Orders \cup Handlers \cup {Orphan} /\ Orphan \notin Handlers

VARIABLES
  age,      \* the second of the period the clock is in
  lock,     \* the event that holds the user's lock
  life,     \* seconds until the lock expires
  cooldown, \* seconds until code:user:<id> expires
  open,     \* orders that may still ask for codes
  found,    \* requests of each order whose outcome is "found"
  sent,     \* codes of each order that reached the buyer
  task,     \* each handler: [pc, order, due (seconds until it goes on), left (of the code's life)],
            \* and as history, took (the time of the code's message), slow (a message of it was)
  outlived  \* history: requests of each order the lock expired under; at None, the administrator's

vars == <<age, lock, life, cooldown, open, found, sent, task, outlived>>
counts == <<open, found, sent, outlived>>

Idle == [pc |-> "idle", order |-> None, due |-> 0, left |-> 0, took |-> 0, slow |-> FALSE]
Tasks == [pc : {"idle", "asked", "waiting", "sending"}, order : Orders \cup {None}, due : Nat,
          left : 0..STEAM_CODE_PERIOD, took : Nat, slow : BOOLEAN]
Working == {h \in Handlers : task[h].pc # "idle"}

Init ==
  /\ age \in 0..STEAM_CODE_PERIOD - 1
  /\ lock = None /\ life = 0 /\ cooldown = 0
  /\ open = Orders
  /\ found = [o \in Orders |-> 0]
  /\ sent = [o \in Orders |-> 0]
  /\ task = [h \in Handlers |-> Idle]
  /\ outlived = [o \in Orders \cup {None} |-> 0]

\* Mutation: a code is awaited that is not older than a second.
FreshWait_Strict(a) ==
  IF a < 1 THEN {0} ELSE {STEAM_CODE_PERIOD - a, STEAM_CODE_PERIOD - a + 1}

\* Mutation: any code will do.
FreshWait_Any(a) == {0}

\* fresh_code_wait_seconds at second a of a period: the answer at a fraction
\* of that second, and at its very beginning.
FreshWait(a) ==
  LET late == STEAM_CODE_PERIOD - FRESH_CODE_MIN_LIFETIME IN
  IF a < late THEN {0}
  ELSE IF a = late THEN {0, STEAM_CODE_PERIOD - a}
  ELSE {STEAM_CODE_PERIOD - a, STEAM_CODE_PERIOD - a + 1}

\* Mutation: the loop sleeps for the whole wait it has shown.
Nap_Whole(wait) == wait

\* What the loop sleeps for.
Nap(wait) == IF wait < 3 THEN wait ELSE 3

(***************************************************************************)
(* One event is handled.                                                   *)
(***************************************************************************)
Take(h) ==
  /\ task[h].pc = "idle" /\ lock = None
  /\ lock' = h /\ life' = LockTimeout

\* The handler returns, or raises.
End(h) ==
  /\ task' = [task EXCEPT ![h] = Idle]
  /\ IF lock = h THEN lock' = None /\ life' = 0 ELSE UNCHANGED <<lock, life>>

\* The buyer asks; the codes used are counted.
Request(h, o) ==
  /\ Take(h)
  /\ o \in open /\ found[o] < Limit
  /\ task' = [task EXCEPT ![h].pc = "asked", ![h].order = o]
  /\ UNCHANGED <<age, cooldown, counts>>

\* The administrator's own button asks for no permission.
AdminRequest(h) ==
  /\ Take(h)
  /\ task' = [task EXCEPT ![h].pc = "waiting"]
  /\ UNCHANGED <<age, cooldown, counts>>

Throttled(h) ==
  /\ task[h].pc = "asked" /\ cooldown > 0
  /\ End(h)
  /\ UNCHANGED <<age, cooldown, counts>>

Allowed(h) ==
  /\ task[h].pc = "asked" /\ cooldown = 0
  /\ cooldown' = CODE_REQUEST_COOLDOWN_SECONDS
  /\ task' = [task EXCEPT ![h].pc = "waiting"]
  /\ UNCHANGED <<age, lock, life, counts>>

\* There is no authenticator, or its secret cannot be read.
NoSecret(h) ==
  /\ task[h].pc = "asked" /\ cooldown = 0
  /\ cooldown' = CODE_REQUEST_COOLDOWN_SECONDS
  /\ End(h)
  /\ UNCHANGED <<age, counts>>

Awake(h) == task[h].pc = "waiting" /\ task[h].due = 0

\* Bound: messages are slow until the lock has expired Overtime times.
Takes(lag) == lag > PROMPT => \A o \in Orders \cup {None} : outlived[o] < Overtime

\* The buyer is told how long to wait, then the handler sleeps.
Wait(h, wait, lag) ==
  /\ Awake(h) /\ wait \in FreshWait(age) \ {0} /\ Takes(lag)
  /\ task' = [task EXCEPT ![h].due = lag + Nap(wait), ![h].slow = @ \/ lag > PROMPT]
  /\ UNCHANGED <<age, lock, life, cooldown, counts>>

\* That message, or the generation of the code, fails.
Breaks(h) ==
  /\ Awake(h)
  /\ End(h)
  /\ UNCHANGED <<age, cooldown, counts>>

\* Mutation: the request is not recorded as found.
Make_Uncounted(h, lag) ==
  /\ Awake(h) /\ 0 \in FreshWait(age) /\ Takes(lag)
  /\ task' = [task EXCEPT ![h].pc = "sending", ![h].due = lag, ![h].left = STEAM_CODE_PERIOD - age,
                          ![h].took = lag, ![h].slow = @ \/ lag > PROMPT]
  /\ UNCHANGED <<age, lock, life, cooldown, counts>>

\* The code is made and counted before it is sent.
Make(h, lag) ==
  /\ Awake(h) /\ 0 \in FreshWait(age) /\ Takes(lag)
  /\ task' = [task EXCEPT ![h].pc = "sending", ![h].due = lag, ![h].left = STEAM_CODE_PERIOD - age,
                          ![h].took = lag, ![h].slow = @ \/ lag > PROMPT]
  /\ found' = IF task[h].order = None THEN found ELSE [found EXCEPT ![task[h].order] = @ + 1]
  /\ UNCHANGED <<age, lock, life, cooldown, open, sent, outlived>>

Arriving(h) == task[h].pc = "sending" /\ task[h].due = 0

Arrive(h) ==
  /\ Arriving(h)
  /\ sent' = IF task[h].order = None THEN sent ELSE [sent EXCEPT ![task[h].order] = @ + 1]
  /\ End(h)
  /\ UNCHANGED <<age, cooldown, open, found, outlived>>

SendFails(h) ==
  /\ Arriving(h)
  /\ End(h)
  /\ UNCHANGED <<age, cooldown, counts>>

(***************************************************************************)
(* Everything else.                                                        *)
(***************************************************************************)

\* Redis outlives the process: the lock of an event nobody handles any more.
Crash ==
  /\ Working # {}
  /\ task' = [h \in Handlers |-> Idle]
  /\ lock' = IF lock = None THEN None ELSE Orphan
  /\ UNCHANGED <<age, life, cooldown, counts>>

\* code_request_window_open; bound: it matters only until the last code.
WindowCloses(o) ==
  /\ o \in open /\ found[o] < Limit
  /\ open' = open \ {o}
  /\ UNCHANGED <<age, lock, life, cooldown, found, sent, task, outlived>>

Less(n) == IF n > 0 THEN n - 1 ELSE 0

\* Bound: Redis and the database answer within the second.
Tick ==
  /\ \A h \in Working : task[h].due > 0
  /\ age' = IF age + 1 = STEAM_CODE_PERIOD THEN 0 ELSE age + 1
  /\ life' = Less(life)
  /\ lock' = IF life' = 0 THEN None ELSE lock
  /\ cooldown' = Less(cooldown)
  /\ task' = [h \in Handlers |-> [task[h] EXCEPT !.due = Less(@), !.left = Less(@)]]
  /\ outlived' = IF life = 1 /\ lock \in Working THEN [outlived EXCEPT ![task[lock].order] = @ + 1]
                                               ELSE outlived
  /\ UNCHANGED <<open, found, sent>>

(***************************************************************************)
(* The specification.                                                      *)
(***************************************************************************)
Ask(h) == AdminRequest(h) \/ \E o \in Orders : Request(h, o)
Answer(h) == \/ Throttled(h) \/ Allowed(h) \/ NoSecret(h)
             \/ \E wait \in 1..STEAM_CODE_PERIOD, lag \in Lags : Wait(h, wait, lag)
             \/ Breaks(h)
             \/ \E lag \in Lags : Make(h, lag)
             \/ Arrive(h) \/ SendFails(h)

Next ==
  \/ \E h \in Handlers : Ask(h) \/ Answer(h)
  \/ \E o \in Orders : WindowCloses(o)
  \/ Crash
  \/ Tick

Spec == Init /\ [][Next]_vars

-----------------------------------------------------------------------------
(***************************************************************************)
(* Properties.                                                             *)
(***************************************************************************)

\* The variables keep their types, and a handler no message of which was slow
\* sleeps for a nap and a message at the most.
TypeOK ==
  /\ age \in 0..STEAM_CODE_PERIOD - 1
  /\ lock \in Handlers \cup {None, Orphan}
  /\ life \in 0..LockTimeout /\ (lock = None) = (life = 0)
  /\ cooldown \in 0..CODE_REQUEST_COOLDOWN_SECONDS
  /\ open \subseteq Orders
  /\ found \in [Orders -> Nat] /\ sent \in [Orders -> Nat]
  /\ task \in [Handlers -> Tasks]
  /\ \A h \in Handlers : ~task[h].slow => task[h].due <= PROMPT + 3
  /\ outlived \in [Orders \cup {None} -> Nat]

\* The naps and the messages between them never miss the few seconds in which a
\* code is fresh: an event ends before the lock of the user's events does, unless
\* a message of its own was slow, and only then is another handled meanwhile
\* (services.py:886, main.py:54).
OneAtATime == \A h \in Working : lock = h \/ task[h].slow

\* An order gets no more codes than its product allows, although they are
\* counted before the wait and recorded after it, whatever is repeated, fails
\* or is cut by a restart (services.py:845), but one for each of its requests
\* under which the lock expired.
CodesWithinLimit ==
  \A o \in Orders : sent[o] <= found[o] /\ found[o] <= Limit + outlived[o]

\* A code that arrives lives for as long as the shop promises, less the time its
\* message took (steam_guard.py:60).
ArrivesAlive ==
  \A h \in Handlers : Arriving(h) => task[h].left + task[h].took >= FRESH_CODE_MIN_LIFETIME
=============================================================================
