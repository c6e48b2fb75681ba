-------------------------- MODULE SteamCodesProofs --------------------------
(***************************************************************************)
(* Proofs about SteamCodes, for any orders, events, limit, clock and times *)
(* messages take.                                                          *)
(***************************************************************************)
EXTENDS SteamCodes, FiniteSetTheorems, TLAPS

(***************************************************************************)
(* The inductive invariant.                                                *)
(***************************************************************************)
\* How long the event that holds the lock has been handled.
Elapsed == LockTimeout - life

\* Between two looks at the clock a handler cannot sleep past the seconds in
\* which a code is fresh: before the period ends it has waited since second 4 at
\* the earliest and wakes by second 3 of the next one, after that no later.
Punctual(h) ==
  \/ task[h].due = 0 /\ Elapsed = 0
  \/ age >= 4 /\ Elapsed <= age - 4 /\ age + task[h].due <= STEAM_CODE_PERIOD + 3
  \/ age <= 3 /\ Elapsed <= age + 26 /\ age + task[h].due <= 3

\* What is known of an event at work, by what it is doing; of its time, only if
\* no message of its own was slow.
Progress(h) ==
  /\ task[h].pc = "asked" =>
       task[h].order \in Orders /\ task[h].due = 0 /\ Elapsed = 0 /\ ~task[h].slow
  /\ task[h].pc = "waiting" => task[h].slow \/ Punctual(h)
  /\ task[h].pc = "sending" =>
       /\ task[h].due <= task[h].took
       /\ task[h].left + task[h].took >= FRESH_CODE_MIN_LIFETIME + task[h].due
       /\ task[h].slow \/ (task[h].due <= PROMPT /\ Elapsed + task[h].due <= 29 + PROMPT)

Resting == \A h \in Handlers \ Working : task[h] = Idle

\* The requests of order o whose code is on its way, those not yet recorded as
\* found, and those that work without the lock.
Sending(o, tasks) == {h \in Handlers : tasks[h].pc = "sending" /\ tasks[h].order = o}
Unrecorded(o, tasks) == {h \in Handlers : tasks[h].pc \in {"asked", "waiting"} /\ tasks[h].order = o}
Lockless(o, tasks, holder) == {h \in Handlers : tasks[h].order = o /\ h # holder}

\* A code is recorded before it is sent; whoever began with the lock found a code
\* left, and every other request at work has outlived the lock.
Counted ==
  \A o \in Orders :
    /\ sent[o] + Cardinality(Sending(o, task)) <= found[o]
    /\ found[o] + Cardinality(Unrecorded(o, task)) <= Limit + outlived[o]
    /\ Cardinality(Lockless(o, task, lock)) <= outlived[o]

IInv ==
  /\ TypeOK /\ OneAtATime /\ Resting /\ Counted
  /\ \A h \in Working : Progress(h)

(***************************************************************************)
(* Counting, and waits.                                                    *)
(***************************************************************************)
LEMMA Fewer ==
  ASSUME NEW S \in SUBSET Handlers, NEW T \in SUBSET S
  PROVE  Cardinality(S) \in Nat /\ Cardinality(T) \in Nat /\ Cardinality(T) <= Cardinality(S)
<1>1. IsFiniteSet(S)
  BY SteamCodesAssumption, FS_Subset
<1>2. IsFiniteSet(T) /\ Cardinality(T) <= Cardinality(S)
  BY <1>1, FS_Subset
<1> QED
  BY <1>1, <1>2, FS_CardinalityType

LEMMA OneMore ==
  ASSUME NEW S \in SUBSET Handlers, NEW h \in Handlers, NEW T \in SUBSET (S \cup {h})
  PROVE  Cardinality(T) <= Cardinality(S) + 1
<1>1. IsFiniteSet(S)
  BY SteamCodesAssumption, FS_Subset
<1>2. Cardinality(S \cup {h}) <= Cardinality(S) + 1
  <2>1. Cardinality(S) \in Nat
    BY <1>1, FS_CardinalityType
  <2>2. Cardinality(S \cup {h}) = IF h \in S THEN Cardinality(S) ELSE Cardinality(S) + 1
    BY <1>1, FS_AddElement
  <2> QED
    BY <2>1, <2>2
<1>3. /\ Cardinality(T) <= Cardinality(S \cup {h})
      /\ Cardinality(T) \in Nat /\ Cardinality(S \cup {h}) \in Nat /\ Cardinality(S) \in Nat
  BY Fewer
<1> QED
  BY <1>2, <1>3

LEMMA OneFewer ==
  ASSUME NEW S \in SUBSET Handlers, NEW h \in S, NEW T \in SUBSET (S \ {h})
  PROVE  Cardinality(T) + 1 <= Cardinality(S)
<1>1. IsFiniteSet(S)
  BY SteamCodesAssumption, FS_Subset
<1>2. Cardinality(S \ {h}) = Cardinality(S) - 1
  BY <1>1, FS_RemoveElement
<1>3. /\ Cardinality(T) <= Cardinality(S \ {h})
      /\ Cardinality(T) \in Nat /\ Cardinality(S \ {h}) \in Nat /\ Cardinality(S) \in Nat
  BY Fewer
<1> QED
  BY <1>2, <1>3

\* What counts: numbers, of what is recorded and of who is at work.
LEMMA Counts ==
  ASSUME IInv, NEW o \in Orders
  PROVE  /\ found[o] \in Nat /\ sent[o] \in Nat /\ outlived[o] \in Nat /\ Limit \in Nat
         /\ Sending(o, task) \in SUBSET Handlers /\ Unrecorded(o, task) \in SUBSET Handlers
         /\ Lockless(o, task, lock) \in SUBSET Handlers
         /\ Cardinality(Sending(o, task)) \in Nat /\ Cardinality(Unrecorded(o, task)) \in Nat
         /\ Cardinality(Lockless(o, task, lock)) \in Nat
<1>1. /\ Sending(o, task) \in SUBSET Handlers /\ Unrecorded(o, task) \in SUBSET Handlers
      /\ Lockless(o, task, lock) \in SUBSET Handlers
  BY DEF Sending, Unrecorded, Lockless
<1>2. found[o] \in Nat /\ sent[o] \in Nat /\ outlived[o] \in Nat /\ Limit \in Nat
  BY SteamCodesAssumption DEF IInv, TypeOK
<1> QED
  BY <1>1, <1>2, Fewer

\* A step that records and sends nothing, and after which no more requests are at
\* work and no more of them without the lock.
LEMMA CountedKept ==
  ASSUME IInv, UNCHANGED <<found, sent, outlived>>,
         \A o \in Orders : /\ Sending(o, task') \in SUBSET Sending(o, task)
                           /\ Unrecorded(o, task') \in SUBSET Unrecorded(o, task)
                           /\ Lockless(o, task', lock') \in SUBSET Lockless(o, task, lock)
  PROVE  Counted'
<1> SUFFICES ASSUME NEW o \in Orders
             PROVE  /\ sent[o] + Cardinality(Sending(o, task')) <= found[o]
                    /\ found[o] + Cardinality(Unrecorded(o, task')) <= Limit + outlived[o]
                    /\ Cardinality(Lockless(o, task', lock')) <= outlived[o]
  BY DEF Counted
<1> DEFINE s == Cardinality(Sending(o, task))
           n == Cardinality(Unrecorded(o, task))
           l == Cardinality(Lockless(o, task, lock))
           s1 == Cardinality(Sending(o, task'))
           n1 == Cardinality(Unrecorded(o, task'))
           l1 == Cardinality(Lockless(o, task', lock'))
<1>1. /\ s1 <= s /\ n1 <= n /\ l1 <= l /\ s \in Nat /\ n \in Nat /\ l \in Nat
      /\ s1 \in Nat /\ n1 \in Nat /\ l1 \in Nat
  BY Counts, Fewer
<1>2. sent[o] + s <= found[o] /\ found[o] + n <= Limit + outlived[o] /\ l <= outlived[o]
  BY DEF IInv, Counted
<1>3. found[o] \in Nat /\ sent[o] \in Nat /\ outlived[o] \in Nat /\ Limit \in Nat
  BY Counts
<1> HIDE DEF s, n, l, s1, n1, l1
<1>4. sent[o] + s1 <= found[o] /\ found[o] + n1 <= Limit + outlived[o] /\ l1 <= outlived[o]
  BY <1>1, <1>2, <1>3
<1> QED
  BY <1>4 DEF s1, n1, l1

\* What FreshWait may answer.
LEMMA Waits ==
  ASSUME NEW a \in 0..29
  PROVE /\ FreshWait(a) \subseteq 0..31
        /\ 0 \in FreshWait(a) => a <= 4
        /\ \A w \in FreshWait(a) \ {0} :
             a >= 4 /\ w \in 1..27 /\ Nap(w) \in 1..3 /\ a + Nap(w) <= 31
  BY DEF FreshWait, Nap, STEAM_CODE_PERIOD, FRESH_CODE_MIN_LIFETIME

(***************************************************************************)
(* Each step.                                                              *)
(***************************************************************************)
LEMMA InitIInv == Init => IInv
<1> SUFFICES ASSUME Init PROVE IInv
  OBVIOUS
<1>1. TypeOK /\ OneAtATime /\ Resting /\ \A h \in Working : Progress(h)
  BY SteamCodesAssumption
  DEF Init, TypeOK, Tasks, OneAtATime, Resting, Working, Idle, STEAM_CODE_PERIOD,
      CODE_REQUEST_COOLDOWN_SECONDS, PROMPT
<1>2. \A o \in Orders : Sending(o, task) = {} /\ Unrecorded(o, task) = {} /\ Lockless(o, task, lock) = {}
  BY SteamCodesAssumption DEF Init, Sending, Unrecorded, Lockless, Idle
<1>3. Counted
  BY <1>2, FS_EmptySet, SteamCodesAssumption DEF Init, Counted
<1> QED
  BY <1>1, <1>3 DEF IInv

\* An event whose own task does not change, while the clock stands still and
\* the lock stays with it, unless it had lost that already.
LEMMA OthersProgress ==
  ASSUME IInv, NEW g \in Working, task'[g] = task[g], age' = age, lock = g => life' = life
  PROVE  Progress(g)'
<1>1. Progress(g) /\ (lock = g \/ task[g].slow)
  BY DEF IInv, OneAtATime
<1>2. CASE lock = g
  BY <1>1, <1>2 DEF Progress, Punctual, Elapsed
<1>3. CASE lock # g
  BY <1>1, <1>3 DEF Progress
<1> QED
  BY <1>2, <1>3

\* An event ends.
LEMMA EndKeeps ==
  ASSUME IInv, NEW h \in Working, End(h), age' = age, cooldown' \in 0..CODE_REQUEST_COOLDOWN_SECONDS,
         UNCHANGED <<open, found, outlived>>, sent' \in [Orders -> Nat]
  PROVE  /\ TypeOK' /\ OneAtATime' /\ Resting' /\ \A g \in Working' : Progress(g)'
         /\ \A o \in Orders : /\ Sending(o, task') \in SUBSET (Sending(o, task) \ {h})
                              /\ Unrecorded(o, task') \in SUBSET Unrecorded(o, task)
                              /\ Lockless(o, task', lock') \in SUBSET Lockless(o, task, lock)
<1>0. h \in Handlers
  BY DEF Working
<1>1. /\ task'[h] = Idle /\ \A g \in Handlers \ {h} : task'[g] = task[g]
      /\ lock = h => lock' = None /\ life' = 0
      /\ lock # h => lock' = lock /\ life' = life
  BY <1>0 DEF End, IInv, TypeOK
<1>2. Working' = Working \ {h}
  BY <1>0, <1>1 DEF Working, Idle
<1>3. TypeOK'
  <2>1. Idle \in Tasks /\ Idle.due = 0
    BY DEF Idle, Tasks, STEAM_CODE_PERIOD
  <2>2. task' \in [Handlers -> Tasks]
    BY <1>0, <2>1 DEF End, IInv, TypeOK
  <2>3. \A g \in Handlers : ~task'[g].slow => task'[g].due <= PROMPT + 3
    BY <1>1, <2>1 DEF IInv, TypeOK, PROMPT
  <2>4. lock' \in Handlers \cup {None, Orphan} /\ life' \in 0..LockTimeout /\ (lock' = None) = (life' = 0)
    BY <1>0, <1>1, SteamCodesAssumption DEF IInv, TypeOK
  <2> QED
    BY <2>2, <2>3, <2>4 DEF IInv, TypeOK
<1>4. OneAtATime'
  <2> SUFFICES ASSUME NEW g \in Working, g # h PROVE lock' = g \/ task'[g].slow
    BY <1>2 DEF OneAtATime
  <2>1. g \in Handlers /\ (lock = g \/ task[g].slow)
    BY DEF IInv, OneAtATime, Working
  <2> QED
    BY <1>1, <2>1
<1>5. Resting'
  BY <1>1, <1>2 DEF IInv, Resting
<1>6. ASSUME NEW g \in Working' PROVE Progress(g)'
  <2>1. g \in Working /\ g # h /\ g \in Handlers
    BY <1>2 DEF Working
  <2> QED
    BY <1>1, <2>1, OthersProgress
<1>7. ASSUME NEW o \in Orders
      PROVE  /\ Sending(o, task') \in SUBSET (Sending(o, task) \ {h})
             /\ Unrecorded(o, task') \in SUBSET Unrecorded(o, task)
             /\ Lockless(o, task', lock') \in SUBSET Lockless(o, task, lock)
  <2>1. task'[h].order # o /\ task'[h].pc = "idle"
    BY <1>1, SteamCodesAssumption DEF Idle
  <2> QED
    BY <1>1, <2>1 DEF Sending, Unrecorded, Lockless
<1> QED
  BY <1>3, <1>4, <1>5, <1>6, <1>7

\* An event is taken up by a request or by the administrator's button: whoever
\* is at work has outlived the lock.
LEMMA TakeKeeps ==
  ASSUME IInv, NEW h \in Handlers, NEW o \in Orders \cup {None}, NEW pc \in {"asked", "waiting"},
         Take(h), o = None => pc = "waiting",
         o # None => pc = "asked" /\ found[o] < Limit,
         task' = [task EXCEPT ![h].pc = pc, ![h].order = o],
         UNCHANGED <<age, cooldown, open, found, sent, outlived>>
  PROVE  IInv'
<1>1. /\ task[h].pc = "idle" /\ task[h] = Idle /\ lock = None /\ lock' = h /\ life' = LockTimeout
  BY DEF Take, IInv, Resting, Working
<1>2. /\ task'[h].pc = pc /\ task'[h].order = o /\ task'[h].due = 0 /\ task'[h].slow = FALSE
      /\ \A g \in Handlers \ {h} : task'[g] = task[g]
  BY <1>1 DEF IInv, TypeOK, Idle
<1>3. Working' = Working \cup {h} /\ h \notin Working
  BY <1>1, <1>2 DEF Working
<1>4. TypeOK'
  <2>1. task' \in [Handlers -> Tasks]
    BY DEF IInv, TypeOK, Tasks
  <2>2. \A g \in Handlers : ~task'[g].slow => task'[g].due <= PROMPT + 3
    BY <1>2 DEF IInv, TypeOK, PROMPT
  <2>3. lock' \in Handlers \cup {None, Orphan} /\ life' \in 0..LockTimeout /\ (lock' = None) = (life' = 0)
    BY <1>1, SteamCodesAssumption DEF STEAM_CODE_PERIOD, PROMPT
  <2> QED
    BY <2>1, <2>2, <2>3 DEF IInv, TypeOK
<1>5. OneAtATime'
  <2> SUFFICES ASSUME NEW g \in Working PROVE task'[g].slow
    BY <1>1, <1>3 DEF OneAtATime
  <2>1. g \in Handlers /\ g # h /\ (lock = g \/ task[g].slow)
    BY <1>3 DEF IInv, OneAtATime, Working
  <2> QED
    BY <1>1, <1>2, <2>1, SteamCodesAssumption
<1>6. Resting'
  BY <1>2, <1>3 DEF IInv, Resting
<1>7. ASSUME NEW g \in Working' PROVE Progress(g)'
  <2>1. CASE g = h
    <3>1. Elapsed' = 0 /\ (pc = "asked" => o \in Orders)
      BY <1>1, SteamCodesAssumption DEF Elapsed
    <3> QED
      BY <1>2, <2>1, <3>1 DEF Progress, Punctual
  <2>2. CASE g # h
    <3>1. g \in Working /\ g \in Handlers /\ lock # g
      BY <1>1, <1>3, <2>2, SteamCodesAssumption DEF Working
    <3> QED
      BY <1>2, <2>2, <3>1, OthersProgress
  <2> QED
    BY <2>1, <2>2
<1>8. ASSUME NEW q \in Orders
      PROVE  /\ Sending(q, task') \in SUBSET Sending(q, task)
             /\ Lockless(q, task', lock') \in SUBSET Lockless(q, task, lock)
             /\ q # o => Unrecorded(q, task') \in SUBSET Unrecorded(q, task)
             /\ Unrecorded(q, task') \in SUBSET (Lockless(q, task, lock) \cup {h})
  BY <1>1, <1>2, SteamCodesAssumption DEF Sending, Unrecorded, Lockless
<1>9. Counted'
  <2>1. CASE o = None
    BY <1>8, <2>1, CountedKept, SteamCodesAssumption
  <2>2. CASE o # None
    <3> SUFFICES ASSUME NEW q \in Orders
                 PROVE  /\ sent[q] + Cardinality(Sending(q, task')) <= found[q]
                        /\ found[q] + Cardinality(Unrecorded(q, task')) <= Limit + outlived[q]
                        /\ Cardinality(Lockless(q, task', lock')) <= outlived[q]
      BY DEF Counted
    <3> DEFINE s == Cardinality(Sending(q, task))
               n == Cardinality(Unrecorded(q, task))
               l == Cardinality(Lockless(q, task, lock))
               s1 == Cardinality(Sending(q, task'))
               n1 == Cardinality(Unrecorded(q, task'))
               l1 == Cardinality(Lockless(q, task', lock'))
    <3>1. s1 <= s /\ l1 <= l /\ s \in Nat /\ n \in Nat /\ l \in Nat /\ s1 \in Nat /\ l1 \in Nat
      BY <1>8, Counts, Fewer
    <3>2. sent[q] + s <= found[q] /\ found[q] + n <= Limit + outlived[q] /\ l <= outlived[q]
      BY DEF IInv, Counted
    <3>3. found[q] \in Nat /\ sent[q] \in Nat /\ outlived[q] \in Nat /\ Limit \in Nat
      BY Counts
    <3>4. n1 \in Nat
      <4>1. Unrecorded(q, task') \in SUBSET Handlers
        BY DEF Unrecorded
      <4> QED
        BY <4>1, Fewer
    <3>5. found[q] + n1 <= Limit + outlived[q]
      <4>1. CASE q = o
        <5>1. n1 <= l + 1
          BY <1>8, Counts, OneMore
        <5>2. found[q] + 1 <= Limit
          BY <2>2, <3>3, <4>1
        <5> HIDE DEF s, n, l, s1, n1, l1
        <5> QED
          BY <3>1, <3>2, <3>3, <3>4, <5>1, <5>2
      <4>2. CASE q # o
        <5>1. n1 <= n
          BY <1>8, <4>2, Counts, Fewer
        <5> HIDE DEF s, n, l, s1, n1, l1
        <5> QED
          BY <3>1, <3>2, <3>3, <3>4, <5>1
      <4> QED
        BY <4>1, <4>2
    <3> HIDE DEF s, n, l, s1, n1, l1
    <3>6. sent[q] + s1 <= found[q] /\ l1 <= outlived[q]
      BY <3>1, <3>2, <3>3
    <3> QED
      BY <3>5, <3>6 DEF s1, n1, l1
  <2> QED
    BY <2>1, <2>2
<1> QED
  BY <1>4, <1>5, <1>6, <1>7, <1>9 DEF IInv

LEMMA AskKeeps ==
  ASSUME IInv, NEW h \in Handlers, Ask(h)
  PROVE  IInv'
<1>1. CASE AdminRequest(h)
  <2>1. task[h] = Idle
    BY <1>1 DEF AdminRequest, Take, IInv, Resting, Working
  <2>2. task' = [task EXCEPT ![h].pc = "waiting", ![h].order = None]
    <3>0. Idle.order = None
      BY DEF Idle
    <3>1. task[h].order = None /\ task[h] \in Tasks
      BY <2>1, <3>0 DEF IInv, TypeOK
    <3>2. [task[h] EXCEPT !.pc = "waiting"] = [task[h] EXCEPT !.pc = "waiting", !.order = None]
      BY <3>1 DEF Tasks
    <3> QED
      BY <1>1, <3>2 DEF AdminRequest
  <2> QED
    BY <1>1, <2>2, TakeKeeps DEF AdminRequest, counts
<1>2. ASSUME NEW o \in Orders, Request(h, o) PROVE IInv'
  BY <1>2, TakeKeeps, SteamCodesAssumption DEF Request, counts
<1> QED
  BY <1>1, <1>2 DEF Ask

\* An event at work goes on: only its own task changes, and nothing is sent.
LEMMA MoveKeeps ==
  ASSUME IInv, NEW h \in Working, NEW t \in Tasks, task' = [task EXCEPT ![h] = t],
         t.pc # "idle", task[h].slow => t.slow, t.slow \/ t.due <= PROMPT + 3,
         UNCHANGED <<age, lock, life, open>>, cooldown' \in 0..CODE_REQUEST_COOLDOWN_SECONDS,
         found' \in [Orders -> Nat], sent' \in [Orders -> Nat], outlived' = outlived,
         Progress(h)', Counted'
  PROVE  IInv'
<1>0. h \in Handlers
  BY DEF Working
<1>1. task'[h] = t /\ \A g \in Handlers \ {h} : task'[g] = task[g]
  BY <1>0 DEF IInv, TypeOK
<1>2. Working' = Working
  BY <1>0, <1>1 DEF Working
<1>3. TypeOK'
  <2>1. task' \in [Handlers -> Tasks]
    BY DEF IInv, TypeOK
  <2>2. \A g \in Handlers : ~task'[g].slow => task'[g].due <= PROMPT + 3
    BY <1>1 DEF IInv, TypeOK
  <2> QED
    BY <2>1, <2>2 DEF IInv, TypeOK
<1>4. OneAtATime'
  <2> SUFFICES ASSUME NEW g \in Working PROVE lock = g \/ task'[g].slow
    BY <1>2 DEF OneAtATime
  <2>1. g \in Handlers /\ (lock = g \/ task[g].slow)
    BY DEF IInv, OneAtATime, Working
  <2> QED
    BY <1>1, <2>1
<1>5. Resting'
  BY <1>1, <1>2 DEF IInv, Resting
<1>6. ASSUME NEW g \in Working' PROVE Progress(g)'
  <2>1. g \in Working /\ g \in Handlers
    BY <1>2 DEF Working
  <2>2. CASE g # h
    BY <1>1, <2>1, <2>2, OthersProgress
  <2> QED
    BY <2>2
<1> QED
  BY <1>3, <1>4, <1>5, <1>6 DEF IInv

\* Nobody begins, records, sends or ends in such a step.
LEMMA SameCounts ==
  ASSUME IInv, NEW h \in Working, NEW t \in Tasks, task' = [task EXCEPT ![h] = t],
         t.order = task[h].order,
         \/ t.pc = task[h].pc
         \/ task[h].pc = "asked" /\ t.pc = "waiting",
         UNCHANGED <<lock, found, sent, outlived>>
  PROVE  Counted'
<1>0. h \in Handlers
  BY DEF Working
<1>1. task'[h] = t /\ \A g \in Handlers \ {h} : task'[g] = task[g]
  BY <1>0 DEF IInv, TypeOK
<1>2. ASSUME NEW o \in Orders
      PROVE  /\ Sending(o, task') \in SUBSET Sending(o, task)
             /\ Unrecorded(o, task') \in SUBSET Unrecorded(o, task)
             /\ Lockless(o, task', lock') \in SUBSET Lockless(o, task, lock)
  BY <1>0, <1>1 DEF Sending, Unrecorded, Lockless
<1> QED
  BY <1>2, CountedKept

\* The code is recorded before it is sent.
LEMMA MakeCounts ==
  ASSUME IInv, NEW h \in Working, NEW t \in Tasks, task' = [task EXCEPT ![h] = t],
         t.order = task[h].order, task[h].pc = "waiting", t.pc = "sending",
         found' = IF task[h].order = None THEN found ELSE [found EXCEPT ![task[h].order] = @ + 1],
         UNCHANGED <<lock, sent, outlived>>
  PROVE  Counted'
<1>0. h \in Handlers
  BY DEF Working
<1>1. task'[h] = t /\ \A g \in Handlers \ {h} : task'[g] = task[g]
  BY <1>0 DEF IInv, TypeOK
<1> SUFFICES ASSUME NEW o \in Orders
             PROVE  /\ sent[o] + Cardinality(Sending(o, task')) <= found'[o]
                    /\ found'[o] + Cardinality(Unrecorded(o, task')) <= Limit + outlived[o]
                    /\ Cardinality(Lockless(o, task', lock)) <= outlived[o]
  BY DEF Counted
<1> DEFINE s == Cardinality(Sending(o, task))
           n == Cardinality(Unrecorded(o, task))
           l == Cardinality(Lockless(o, task, lock))
           s1 == Cardinality(Sending(o, task'))
           n1 == Cardinality(Unrecorded(o, task'))
           l1 == Cardinality(Lockless(o, task', lock))
<1>2. sent[o] + s <= found[o] /\ found[o] + n <= Limit + outlived[o] /\ l <= outlived[o]
  BY DEF IInv, Counted
<1>3. /\ found[o] \in Nat /\ sent[o] \in Nat /\ outlived[o] \in Nat /\ Limit \in Nat
      /\ s \in Nat /\ n \in Nat /\ l \in Nat
  BY Counts
<1>4. s1 \in Nat /\ n1 \in Nat /\ l1 \in Nat
  <2>1. /\ Sending(o, task') \in SUBSET Handlers /\ Unrecorded(o, task') \in SUBSET Handlers
        /\ Lockless(o, task', lock) \in SUBSET Handlers
    BY DEF Sending, Unrecorded, Lockless
  <2> QED
    BY <2>1, Fewer
<1>5. l1 <= l
  <2>1. Lockless(o, task', lock) \in SUBSET Lockless(o, task, lock)
    BY <1>0, <1>1 DEF Lockless
  <2> QED
    BY <2>1, Counts, Fewer
<1>6. CASE task[h].order = o
  <2>1. found'[o] = found[o] + 1
    BY <1>6, SteamCodesAssumption DEF IInv, TypeOK
  <2>2. s1 <= s + 1
    <3>1. Sending(o, task') \in SUBSET (Sending(o, task) \cup {h})
      BY <1>0, <1>1 DEF Sending
    <3> QED
      BY <1>0, <3>1, Counts, OneMore
  <2>3. n1 + 1 <= n
    <3>1. h \in Unrecorded(o, task) /\ Unrecorded(o, task') \in SUBSET (Unrecorded(o, task) \ {h})
      BY <1>0, <1>1, <1>6 DEF Unrecorded
    <3> QED
      BY <3>1, Counts, OneFewer
  <2> HIDE DEF s, n, l, s1, n1, l1
  <2>4. sent[o] + s1 <= found'[o] /\ found'[o] + n1 <= Limit + outlived[o] /\ l1 <= outlived[o]
    BY <1>2, <1>3, <1>4, <1>5, <2>1, <2>2, <2>3
  <2> QED
    BY <2>4 DEF s1, n1, l1
<1>7. CASE task[h].order # o
  <2>1. found'[o] = found[o]
    BY <1>7 DEF IInv, TypeOK
  <2>2. s1 <= s /\ n1 <= n
    <3>1. /\ Sending(o, task') \in SUBSET Sending(o, task)
          /\ Unrecorded(o, task') \in SUBSET Unrecorded(o, task)
      BY <1>0, <1>1, <1>7 DEF Sending, Unrecorded
    <3> QED
      BY <3>1, Counts, Fewer
  <2> HIDE DEF s, n, l, s1, n1, l1
  <2>3. sent[o] + s1 <= found'[o] /\ found'[o] + n1 <= Limit + outlived[o] /\ l1 <= outlived[o]
    BY <1>2, <1>3, <1>4, <1>5, <2>1, <2>2
  <2> QED
    BY <2>3 DEF s1, n1, l1
<1> QED
  BY <1>6, <1>7

\* A code that arrives has been recorded, and is not on its way any more.
LEMMA ArriveKeeps ==
  ASSUME IInv, NEW h \in Working, Arrive(h)
  PROVE  IInv'
<1>1. h \in Handlers /\ task[h].pc = "sending" /\ task[h].order \in Orders \cup {None}
  BY DEF Arrive, Arriving, Working, IInv, TypeOK, Tasks
<1>2. /\ End(h) /\ UNCHANGED <<age, cooldown, open, found, outlived>>
      /\ sent' = IF task[h].order = None THEN sent ELSE [sent EXCEPT ![task[h].order] = @ + 1]
      /\ sent' \in [Orders -> Nat] /\ cooldown' \in 0..CODE_REQUEST_COOLDOWN_SECONDS
  <2>1. /\ End(h) /\ UNCHANGED <<age, cooldown, open, found, outlived>>
        /\ sent' = IF task[h].order = None THEN sent ELSE [sent EXCEPT ![task[h].order] = @ + 1]
    BY DEF Arrive
  <2>2. sent \in [Orders -> Nat] /\ cooldown \in 0..CODE_REQUEST_COOLDOWN_SECONDS
    BY DEF IInv, TypeOK
  <2>3. CASE task[h].order = None
    BY <2>1, <2>2, <2>3
  <2>4. CASE task[h].order \in Orders
    <3>1. sent' = [sent EXCEPT ![task[h].order] = sent[task[h].order] + 1]
      BY <2>1, <2>4, SteamCodesAssumption
    <3>2. sent[task[h].order] + 1 \in Nat
      BY <2>2, <2>4
    <3>3. sent' \in [Orders -> Nat]
      BY <2>2, <2>4, <3>1, <3>2
    <3> QED
      BY <2>1, <2>2, <3>3
  <2> QED
    BY <1>1, <2>3, <2>4
<1>3. /\ TypeOK' /\ OneAtATime' /\ Resting' /\ \A g \in Working' : Progress(g)'
      /\ \A o \in Orders : /\ Sending(o, task') \in SUBSET (Sending(o, task) \ {h})
                           /\ Unrecorded(o, task') \in SUBSET Unrecorded(o, task)
                           /\ Lockless(o, task', lock') \in SUBSET Lockless(o, task, lock)
  BY <1>2, EndKeeps
<1>4. Counted'
  <2> SUFFICES ASSUME NEW o \in Orders
               PROVE  /\ sent'[o] + Cardinality(Sending(o, task')) <= found[o]
                      /\ found[o] + Cardinality(Unrecorded(o, task')) <= Limit + outlived[o]
                      /\ Cardinality(Lockless(o, task', lock')) <= outlived[o]
    BY <1>2 DEF Counted
  <2> DEFINE s == Cardinality(Sending(o, task))
             n == Cardinality(Unrecorded(o, task))
             l == Cardinality(Lockless(o, task, lock))
             s1 == Cardinality(Sending(o, task'))
             n1 == Cardinality(Unrecorded(o, task'))
             l1 == Cardinality(Lockless(o, task', lock'))
  <2>1. sent[o] + s <= found[o] /\ found[o] + n <= Limit + outlived[o] /\ l <= outlived[o]
    BY DEF IInv, Counted
  <2>2. /\ found[o] \in Nat /\ sent[o] \in Nat /\ outlived[o] \in Nat /\ Limit \in Nat
        /\ s \in Nat /\ n \in Nat /\ l \in Nat
    BY Counts
  <2>3. n1 <= n /\ l1 <= l /\ n1 \in Nat /\ l1 \in Nat
    BY <1>3, Counts, Fewer
  <2>4. s1 \in Nat /\ s1 <= s
    <3>1. Sending(o, task') \in SUBSET Sending(o, task)
      BY <1>3
    <3> QED
      BY <3>1, Counts, Fewer
  <2>5. sent'[o] + s1 <= sent[o] + s
    <3>1. CASE task[h].order = o
      <4>1. h \in Sending(o, task)
        BY <1>1, <3>1 DEF Sending
      <4>2. s1 + 1 <= s
        BY <1>3, <4>1, Counts, OneFewer
      <4>3. sent'[o] = sent[o] + 1
        BY <1>2, <3>1, SteamCodesAssumption DEF IInv, TypeOK
      <4> HIDE DEF s, s1
      <4> QED
        BY <2>2, <2>4, <4>2, <4>3
    <3>2. CASE task[h].order # o
      <4>1. sent'[o] = sent[o]
        BY <1>1, <1>2, <3>2 DEF IInv, TypeOK
      <4> HIDE DEF s, s1
      <4> QED
        BY <2>2, <2>4, <4>1
    <3> QED
      BY <3>1, <3>2
  <2>6. sent'[o] \in Nat
    BY <1>2
  <2> HIDE DEF s, n, l, s1, n1, l1
  <2>7. sent'[o] + s1 <= found[o] /\ found[o] + n1 <= Limit + outlived[o] /\ l1 <= outlived[o]
    BY <2>1, <2>2, <2>3, <2>4, <2>5, <2>6
  <2> QED
    BY <2>7 DEF s1, n1, l1
<1> QED
  BY <1>3, <1>4 DEF IInv

\* Each step of an event at work.
LEMMA AnswerKeeps ==
  ASSUME IInv, NEW h \in Handlers, Answer(h)
  PROVE IInv'
<1>1. h \in Working /\ Progress(h) /\ (lock = h \/ task[h].slow) /\ task[h] \in Tasks
  BY DEF IInv, TypeOK, OneAtATime, Working, Answer, Throttled, Allowed, NoSecret, Wait, Breaks, Make, Arrive,
         SendFails, Awake, Arriving
<1>2. CASE Throttled(h) \/ NoSecret(h) \/ Breaks(h) \/ SendFails(h)
  <2>1. /\ End(h) /\ UNCHANGED <<age, open, found, sent, outlived>> /\ sent' \in [Orders -> Nat]
        /\ cooldown' \in 0..CODE_REQUEST_COOLDOWN_SECONDS
    BY <1>2 DEF Throttled, NoSecret, Breaks, SendFails, counts, IInv, TypeOK, CODE_REQUEST_COOLDOWN_SECONDS
  <2>2. /\ TypeOK' /\ OneAtATime' /\ Resting' /\ \A g \in Working' : Progress(g)'
        /\ \A o \in Orders : /\ Sending(o, task') \in SUBSET (Sending(o, task) \ {h})
                             /\ Unrecorded(o, task') \in SUBSET Unrecorded(o, task)
                             /\ Lockless(o, task', lock') \in SUBSET Lockless(o, task, lock)
    BY <1>1, <2>1, EndKeeps
  <2>3. \A o \in Orders : Sending(o, task') \in SUBSET Sending(o, task)
    BY <2>2
  <2>4. Counted'
    BY <2>1, <2>2, <2>3, CountedKept
  <2> QED
    BY <2>2, <2>4 DEF IInv
<1>3. CASE Arrive(h)
  BY <1>1, <1>3, ArriveKeeps
<1>4. CASE Allowed(h)
  <2> DEFINE t == [task[h] EXCEPT !.pc = "waiting"]
  <2>1. /\ task[h].pc = "asked" /\ task' = [task EXCEPT ![h] = t]
        /\ UNCHANGED <<age, lock, life, open, found, sent, outlived>>
        /\ cooldown' \in 0..CODE_REQUEST_COOLDOWN_SECONDS
    BY <1>4 DEF Allowed, counts, CODE_REQUEST_COOLDOWN_SECONDS
  <2>2. /\ t \in Tasks /\ t.pc = "waiting" /\ t.order = task[h].order /\ t.due = task[h].due
        /\ t.slow = task[h].slow
    BY <1>1 DEF Tasks
  <2>3. task'[h] = t
    BY <1>1, <2>1 DEF IInv, TypeOK
  <2> HIDE DEF t
  <2>4. Progress(h)'
    BY <1>1, <2>1, <2>2, <2>3 DEF Progress, Punctual, Elapsed
  <2>5. t.slow \/ t.due <= PROMPT + 3
    BY <1>1, <2>2 DEF IInv, TypeOK
  <2>6. Counted'
    BY <1>1, <2>1, <2>2, SameCounts
  <2>7. found' \in [Orders -> Nat] /\ sent' \in [Orders -> Nat]
    BY <2>1 DEF IInv, TypeOK
  <2> QED
    BY <1>1, <2>1, <2>2, <2>4, <2>5, <2>6, <2>7, MoveKeeps
<1>5. ASSUME NEW wait \in 1..STEAM_CODE_PERIOD, NEW lag \in Lags, Wait(h, wait, lag)
      PROVE  IInv'
  <2> DEFINE t == [task[h] EXCEPT !.due = lag + Nap(wait), !.slow = task[h].slow \/ lag > PROMPT]
  <2>1. /\ age \in 4..29 /\ Nap(wait) \in 1..3 /\ age + Nap(wait) <= 31 /\ lag \in Nat
        /\ task[h].pc = "waiting" /\ task[h].due = 0
    BY <1>5, Waits, SteamCodesAssumption DEF Wait, Awake, IInv, TypeOK, STEAM_CODE_PERIOD
  <2>2. /\ task' = [task EXCEPT ![h] = t]
        /\ UNCHANGED <<age, lock, life, cooldown, open, found, sent, outlived>>
    BY <1>5 DEF Wait, counts
  <2>3. /\ t \in Tasks /\ t.pc = "waiting" /\ t.order = task[h].order /\ t.due = lag + Nap(wait)
        /\ task[h].slow => t.slow
        /\ ~t.slow => ~task[h].slow /\ lag <= PROMPT
    <3>1. (task[h].slow \/ lag > PROMPT) \in BOOLEAN /\ lag + Nap(wait) \in Nat
      BY <2>1
    <3>2. t \in Tasks
      BY <1>1, <3>1 DEF Tasks
    <3>3. t.pc = "waiting" /\ t.order = task[h].order /\ t.due = lag + Nap(wait)
      BY <1>1, <2>1 DEF Tasks
    <3>4. t.slow = (task[h].slow \/ lag > PROMPT)
      BY <1>1 DEF Tasks
    <3> HIDE DEF t
    <3>5. (task[h].slow => t.slow) /\ (~t.slow => ~task[h].slow /\ ~(lag > PROMPT))
      BY <3>4, Zenon
    <3>6. ~(lag > PROMPT) => lag <= PROMPT
      BY <2>1 DEF PROMPT
    <3> QED
      BY <3>2, <3>3, <3>5, <3>6
  <2>4. task'[h] = t
    BY <1>1, <2>2 DEF IInv, TypeOK
  <2> HIDE DEF t
  <2>5. Progress(h)'
    <3>1. CASE t.slow
      BY <2>3, <2>4, <3>1 DEF Progress
    <3>2. CASE ~t.slow
      <4>1. Punctual(h)
        BY <1>1, <2>1, <2>3, <3>2 DEF Progress
      <4>2. life \in 0..LockTimeout /\ LockTimeout \in Nat
        BY SteamCodesAssumption DEF IInv, TypeOK
      <4>3. Punctual(h)'
        BY <2>1, <2>2, <2>3, <2>4, <3>2, <4>1, <4>2 DEF Punctual, Elapsed, STEAM_CODE_PERIOD, PROMPT
      <4> QED
        BY <2>3, <2>4, <4>3 DEF Progress
    <3> QED
      BY <3>1, <3>2
  <2>6. t.slow \/ t.due <= PROMPT + 3
    BY <2>1, <2>3 DEF PROMPT
  <2>7. Counted'
    BY <1>1, <2>1, <2>2, <2>3, SameCounts
  <2>8. /\ found' \in [Orders -> Nat] /\ sent' \in [Orders -> Nat]
        /\ cooldown' \in 0..CODE_REQUEST_COOLDOWN_SECONDS
    BY <2>2 DEF IInv, TypeOK
  <2> QED
    BY <1>1, <2>2, <2>3, <2>5, <2>6, <2>7, <2>8, MoveKeeps
<1>6. ASSUME NEW lag \in Lags, Make(h, lag)
      PROVE  IInv'
  <2> DEFINE t == [task[h] EXCEPT !.pc = "sending", !.due = lag, !.left = STEAM_CODE_PERIOD - age,
                                  !.took = lag, !.slow = task[h].slow \/ lag > PROMPT]
  <2>1. age \in 0..4 /\ lag \in Nat /\ task[h].pc = "waiting" /\ task[h].due = 0
    BY <1>6, Waits, SteamCodesAssumption DEF Make, Awake, IInv, TypeOK, STEAM_CODE_PERIOD
  <2>2. /\ task' = [task EXCEPT ![h] = t]
        /\ found' = IF task[h].order = None THEN found ELSE [found EXCEPT ![task[h].order] = @ + 1]
        /\ UNCHANGED <<age, lock, life, cooldown, open, sent, outlived>>
    BY <1>6 DEF Make
  <2>3. /\ t \in Tasks /\ t.pc = "sending" /\ t.order = task[h].order /\ t.due = lag
        /\ t.left = 30 - age /\ t.took = lag
        /\ task[h].slow => t.slow
        /\ ~t.slow => ~task[h].slow /\ lag <= PROMPT
    <3>1. (task[h].slow \/ lag > PROMPT) \in BOOLEAN /\ STEAM_CODE_PERIOD - age \in 0..STEAM_CODE_PERIOD
      BY <2>1 DEF STEAM_CODE_PERIOD
    <3>2. t \in Tasks
      BY <1>1, <2>1, <3>1 DEF Tasks
    <3>3. /\ t.pc = "sending" /\ t.order = task[h].order /\ t.due = lag
          /\ t.left = 30 - age /\ t.took = lag
      BY <1>1 DEF Tasks, STEAM_CODE_PERIOD
    <3>4. t.slow = (task[h].slow \/ lag > PROMPT)
      BY <1>1 DEF Tasks
    <3> HIDE DEF t
    <3>5. (task[h].slow => t.slow) /\ (~t.slow => ~task[h].slow /\ ~(lag > PROMPT))
      BY <3>4, Zenon
    <3>6. ~(lag > PROMPT) => lag <= PROMPT
      BY <2>1 DEF PROMPT
    <3> QED
      BY <3>2, <3>3, <3>5, <3>6
  <2>4. task'[h] = t
    BY <1>1, <2>2 DEF IInv, TypeOK
  <2> HIDE DEF t
  <2>5. Progress(h)'
    <3>1. t.left + t.took >= FRESH_CODE_MIN_LIFETIME + t.due
      BY <2>1, <2>3 DEF FRESH_CODE_MIN_LIFETIME
    <3>2. ~t.slow => t.due <= PROMPT /\ Elapsed + t.due <= 29 + PROMPT
      <4> SUFFICES ASSUME ~t.slow PROVE t.due <= PROMPT /\ Elapsed + t.due <= 29 + PROMPT
        OBVIOUS
      <4>1. Punctual(h)
        BY <1>1, <2>1, <2>3 DEF Progress
      <4>2. life \in 0..LockTimeout /\ LockTimeout \in Nat
        BY SteamCodesAssumption DEF IInv, TypeOK
      <4> QED
        BY <2>1, <2>3, <4>1, <4>2 DEF Punctual, Elapsed, STEAM_CODE_PERIOD, PROMPT
    <3>3. Elapsed' = Elapsed
      BY <2>2 DEF Elapsed
    <3> QED
      BY <2>1, <2>3, <2>4, <3>1, <3>2, <3>3 DEF Progress
  <2>6. t.slow \/ t.due <= PROMPT + 3
    BY <2>1, <2>3 DEF PROMPT
  <2>7. Counted'
    BY <1>1, <2>1, <2>2, <2>3, MakeCounts
  <2>8. /\ found' \in [Orders -> Nat] /\ sent' \in [Orders -> Nat]
        /\ cooldown' \in 0..CODE_REQUEST_COOLDOWN_SECONDS
    BY <1>1, <2>2 DEF IInv, TypeOK, Tasks
  <2> QED
    BY <1>1, <2>2, <2>3, <2>5, <2>6, <2>7, <2>8, MoveKeeps
<1> QED
  BY <1>2, <1>3, <1>4, <1>5, <1>6 DEF Answer

\* A second passes: an event without a slow message still holds its lock, and the
\* lock of another may be the one that expires.
LEMMA TickKeeps ==
  ASSUME IInv, Tick
  PROVE IInv'
<1> USE SteamCodesAssumption
<1>1. age \in 0..29 /\ age' = IF age = 29 THEN 0 ELSE age + 1
  <2>1. age \in 0..29
    BY DEF IInv, TypeOK, STEAM_CODE_PERIOD
  <2>2. age' = IF age + 1 = STEAM_CODE_PERIOD THEN 0 ELSE age + 1
    BY DEF Tick
  <2> QED
    BY <2>1, <2>2 DEF STEAM_CODE_PERIOD
<1>2. /\ life \in 0..LockTimeout /\ life' = IF life > 0 THEN life - 1 ELSE 0
      /\ cooldown \in 0..30 /\ cooldown' = IF cooldown > 0 THEN cooldown - 1 ELSE 0
  BY DEF Tick, Less, IInv, TypeOK, CODE_REQUEST_COOLDOWN_SECONDS
<1>3. /\ lock' = (IF life' = 0 THEN None ELSE lock) /\ UNCHANGED <<open, found, sent>>
      /\ lock \in Handlers \cup {None, Orphan} /\ (lock = None) = (life = 0)
  BY DEF Tick, IInv, TypeOK
<1>4. ASSUME NEW h \in Handlers
      PROVE  /\ task[h] \in Tasks /\ task'[h] \in Tasks
             /\ task'[h].pc = task[h].pc /\ task'[h].order = task[h].order
             /\ task'[h].took = task[h].took /\ task'[h].slow = task[h].slow
             /\ task'[h].due = IF task[h].due > 0 THEN task[h].due - 1 ELSE 0
             /\ task'[h].left = IF task[h].left > 0 THEN task[h].left - 1 ELSE 0
             /\ task[h] = Idle => task'[h] = Idle
  <2>1. task[h] \in Tasks
    BY DEF IInv, TypeOK
  <2>2. task'[h] = [pc |-> task[h].pc, order |-> task[h].order, due |-> Less(task[h].due),
                    left |-> Less(task[h].left), took |-> task[h].took, slow |-> task[h].slow]
    BY DEF Tick, IInv, TypeOK, Tasks
  <2>3. /\ task[h].due \in Nat /\ task[h].left \in 0..30
        /\ Less(task[h].due) \in Nat /\ Less(task[h].left) \in 0..30
    BY <2>1 DEF Tasks, Less, STEAM_CODE_PERIOD
  <2>4. task'[h] \in Tasks
    BY <2>1, <2>2, <2>3 DEF Tasks, STEAM_CODE_PERIOD
  <2>5. /\ task'[h].pc = task[h].pc /\ task'[h].order = task[h].order
        /\ task'[h].took = task[h].took /\ task'[h].slow = task[h].slow
    BY <2>2
  <2>6. task'[h].due = Less(task[h].due) /\ task'[h].left = Less(task[h].left)
    BY <2>2
  <2>7. task[h] = Idle => task'[h] = Idle
    BY <2>2 DEF Idle, Less
  <2> QED
    BY <2>1, <2>4, <2>5, <2>6, <2>7 DEF Less
<1>5. DOMAIN task' = Handlers /\ task' = [h \in Handlers |-> task'[h]]
  BY DEF Tick
<1>6. Working' = Working
  BY <1>4 DEF Working
<1>7. Resting'
  <2> SUFFICES ASSUME NEW h \in Handlers \ Working PROVE task'[h] = Idle
    BY <1>6 DEF Resting
  <2> QED
    BY <1>4 DEF IInv, Resting
<1>8. ASSUME NEW h \in Working
      PROVE  Progress(h)' /\ (task[h].slow \/ (lock = h /\ life > 1))
  <2>1. h \in Handlers /\ Progress(h) /\ (lock = h \/ task[h].slow) /\ task[h].due > 0
    BY DEF IInv, OneAtATime, Working, Tick
  <2>2. /\ task[h].pc \in {"waiting", "sending"} /\ task[h].due \in Nat
        /\ task[h].left \in 0..30 /\ task[h].took \in Nat
    BY <2>1 DEF Progress, Working, IInv, TypeOK, Tasks, STEAM_CODE_PERIOD
  <2>3. /\ task'[h].pc = task[h].pc /\ task'[h].took = task[h].took /\ task'[h].slow = task[h].slow
        /\ task'[h].due = task[h].due - 1
        /\ task'[h].left = IF task[h].left > 0 THEN task[h].left - 1 ELSE 0
    BY <1>4, <2>1, <2>2
  <2>4. CASE task[h].pc = "waiting"
    <3>1. CASE task[h].slow
      BY <2>3, <2>4, <3>1 DEF Progress
    <3>2. CASE ~task[h].slow
      <4>1. Punctual(h) /\ lock = h
        BY <2>1, <2>4, <3>2 DEF Progress
      <4>2. life > 1 /\ Punctual(h)'
        BY <1>1, <1>2, <2>1, <2>2, <2>3, <4>1 DEF Punctual, Elapsed, STEAM_CODE_PERIOD, PROMPT
      <4> QED
        BY <2>3, <2>4, <4>1, <4>2 DEF Progress
    <3> QED
      BY <3>1, <3>2
  <2>5. CASE task[h].pc = "sending"
    <3>1. /\ task[h].due <= task[h].took
          /\ task[h].left + task[h].took >= FRESH_CODE_MIN_LIFETIME + task[h].due
          /\ task[h].slow \/ (task[h].due <= PROMPT /\ Elapsed + task[h].due <= 29 + PROMPT)
      BY <2>1, <2>5 DEF Progress
    <3>2. /\ task'[h].due <= task'[h].took
          /\ task'[h].left + task'[h].took >= FRESH_CODE_MIN_LIFETIME + task'[h].due
      BY <2>2, <2>3, <3>1 DEF FRESH_CODE_MIN_LIFETIME
    <3>3. CASE task[h].slow
      BY <2>3, <2>5, <3>2, <3>3 DEF Progress
    <3>4. CASE ~task[h].slow
      <4>1. task[h].due <= PROMPT /\ Elapsed + task[h].due <= 29 + PROMPT /\ lock = h
        BY <2>1, <3>1, <3>4
      <4>2. life > 1 /\ task'[h].due <= PROMPT /\ Elapsed' + task'[h].due <= 29 + PROMPT
        BY <1>2, <2>1, <2>2, <2>3, <4>1 DEF Elapsed, STEAM_CODE_PERIOD, PROMPT
      <4> QED
        BY <2>3, <2>5, <3>2, <4>1, <4>2 DEF Progress
    <3> QED
      BY <3>3, <3>4
  <2> QED
    BY <2>2, <2>4, <2>5
<1>9. /\ outlived' \in [Orders \cup {None} -> Nat]
      /\ life = 1 /\ lock \in Working =>
           outlived' = [outlived EXCEPT ![task[lock].order] = outlived[task[lock].order] + 1]
      /\ ~(life = 1 /\ lock \in Working) => outlived' = outlived
  <2>1. outlived \in [Orders \cup {None} -> Nat]
    BY DEF IInv, TypeOK
  <2>2. /\ life = 1 /\ lock \in Working =>
             outlived' = [outlived EXCEPT ![task[lock].order] = outlived[task[lock].order] + 1]
        /\ ~(life = 1 /\ lock \in Working) => outlived' = outlived
    BY DEF Tick
  <2>3. lock \in Working => task[lock].order \in Orders \cup {None}
    BY <1>4 DEF Working, Tasks
  <2>4. lock \in Working => outlived[task[lock].order] + 1 \in Nat
    BY <2>1, <2>3
  <2> QED
    BY <2>1, <2>2, <2>3, <2>4
<1>10. TypeOK'
  <2>1. age' \in 0..29
    BY <1>1
  <2>2. lock' \in Handlers \cup {None, Orphan} /\ (lock' = None) = (life' = 0) /\ life' \in 0..LockTimeout
    BY <1>2, <1>3
  <2>3. task' \in [Handlers -> Tasks]
    BY <1>4, <1>5
  <2>4. ASSUME NEW h \in Handlers, ~task'[h].slow PROVE task'[h].due <= PROMPT + 3
    <3>1. ~task[h].slow /\ task[h].due <= PROMPT + 3 /\ task[h].due \in Nat
      BY <1>4, <2>4 DEF IInv, TypeOK, Tasks
    <3> QED
      BY <1>4, <3>1 DEF PROMPT
  <2>5. cooldown' \in 0..30
    BY <1>2
  <2>6. open \subseteq Orders /\ found \in [Orders -> Nat] /\ sent \in [Orders -> Nat]
    BY DEF IInv, TypeOK
  <2> QED
    BY <1>3, <1>9, <2>1, <2>2, <2>3, <2>4, <2>5, <2>6
    DEF TypeOK, STEAM_CODE_PERIOD, CODE_REQUEST_COOLDOWN_SECONDS
<1>11. OneAtATime'
  <2> SUFFICES ASSUME NEW h \in Working PROVE lock' = h \/ task'[h].slow
    BY <1>6 DEF OneAtATime
  <2>1. h \in Handlers
    BY DEF Working
  <2>2. CASE task[h].slow
    BY <1>4, <2>1, <2>2
  <2>3. CASE lock = h /\ life > 1
    BY <1>2, <1>3, <2>3
  <2> QED
    BY <1>8, <2>2, <2>3
<1>12. ASSUME NEW o \in Orders
       PROVE  /\ Sending(o, task') \in SUBSET Sending(o, task)
              /\ Unrecorded(o, task') \in SUBSET Unrecorded(o, task)
  BY <1>4 DEF Sending, Unrecorded
<1>13. Counted'
  <2> SUFFICES ASSUME NEW o \in Orders
               PROVE  /\ sent[o] + Cardinality(Sending(o, task')) <= found[o]
                      /\ found[o] + Cardinality(Unrecorded(o, task')) <= Limit + outlived'[o]
                      /\ Cardinality(Lockless(o, task', lock')) <= outlived'[o]
    BY <1>3 DEF Counted
  <2> DEFINE s == Cardinality(Sending(o, task))
             n == Cardinality(Unrecorded(o, task))
             l == Cardinality(Lockless(o, task, lock))
             s1 == Cardinality(Sending(o, task'))
             n1 == Cardinality(Unrecorded(o, task'))
             l1 == Cardinality(Lockless(o, task', lock'))
  <2>1. sent[o] + s <= found[o] /\ found[o] + n <= Limit + outlived[o] /\ l <= outlived[o]
    BY DEF IInv, Counted
  <2>2. /\ found[o] \in Nat /\ sent[o] \in Nat /\ outlived[o] \in Nat /\ Limit \in Nat
        /\ s \in Nat /\ n \in Nat /\ l \in Nat
    BY Counts
  <2>3. s1 <= s /\ n1 <= n /\ s1 \in Nat /\ n1 \in Nat
    BY <1>12, Counts, Fewer
  <2>4. l1 \in Nat
    <3>1. Lockless(o, task', lock') \in SUBSET Handlers
      BY DEF Lockless
    <3> QED
      BY <3>1, Fewer
  <2>5. /\ outlived'[o] \in Nat /\ outlived'[o] >= outlived[o] /\ l1 <= l + (outlived'[o] - outlived[o])
    <3>1. CASE life = 1 /\ lock \in Working /\ task[lock].order = o
      <4>1. outlived'[o] = outlived[o] + 1
        BY <1>9, <3>1 DEF IInv, TypeOK
      <4>2. Lockless(o, task', lock') \in SUBSET (Lockless(o, task, lock) \cup {lock}) /\ lock \in Handlers
        BY <1>4, <3>1 DEF Lockless, Working
      <4>3. l1 <= l + 1
        BY <4>2, Counts, OneMore
      <4> HIDE DEF l, l1
      <4> QED
        BY <2>2, <4>1, <4>3
    <3>2. CASE ~(life = 1 /\ lock \in Working /\ task[lock].order = o)
      <4>1. outlived'[o] = outlived[o]
        BY <1>9, <3>2 DEF IInv, TypeOK
      <4>2. ASSUME NEW h \in Handlers, task[h].order = o, h = lock PROVE lock' = lock
        <5>1. h \in Working
          BY <4>2 DEF IInv, Resting, Working, Idle
        <5>2. life > 1
          BY <1>2, <1>3, <3>2, <4>2, <5>1
        <5> QED
          BY <1>2, <1>3, <5>2
      <4>3. Lockless(o, task', lock') \in SUBSET Lockless(o, task, lock)
        BY <1>4, <4>2 DEF Lockless
      <4>4. l1 <= l
        BY <4>3, Counts, Fewer
      <4> HIDE DEF l, l1
      <4> QED
        BY <2>2, <2>4, <4>1, <4>4
    <3> QED
      BY <3>1, <3>2
  <2> HIDE DEF s, n, l, s1, n1, l1
  <2>6. sent[o] + s1 <= found[o] /\ found[o] + n1 <= Limit + outlived'[o] /\ l1 <= outlived'[o]
    BY <2>1, <2>2, <2>3, <2>4, <2>5
  <2> QED
    BY <2>6 DEF s1, n1, l1
<1> QED
  BY <1>6, <1>7, <1>8, <1>10, <1>11, <1>13 DEF IInv

\* A restart: nobody is at work any more.
LEMMA CrashKeeps ==
  ASSUME IInv, Crash
  PROVE  IInv'
<1>1. /\ \A h \in Handlers : task'[h] = Idle
      /\ task' \in [Handlers -> {Idle}] /\ lock' \in {None, Orphan} /\ (lock' = None) = (lock = None)
      /\ UNCHANGED <<age, life, cooldown, open, found, sent, outlived>>
  BY SteamCodesAssumption DEF Crash, counts
<1>2. Working' = {} /\ Resting'
  BY <1>1 DEF Working, Resting, Idle
<1>3. TypeOK'
  <2>1. Idle \in Tasks /\ Idle.due = 0
    BY DEF Idle, Tasks, STEAM_CODE_PERIOD
  <2>2. task' \in [Handlers -> Tasks] /\ \A h \in Handlers : task'[h].due <= PROMPT + 3
    BY <1>1, <2>1 DEF PROMPT
  <2> QED
    BY <1>1, <2>2 DEF IInv, TypeOK
<1>4. \A o \in Orders : /\ Sending(o, task') \in SUBSET Sending(o, task)
                        /\ Unrecorded(o, task') \in SUBSET Unrecorded(o, task)
                        /\ Lockless(o, task', lock') \in SUBSET Lockless(o, task, lock)
  BY <1>1, SteamCodesAssumption DEF Sending, Unrecorded, Lockless, Idle
<1>5. Counted'
  BY <1>1, <1>4, CountedKept
<1> QED
  BY <1>2, <1>3, <1>5 DEF IInv, OneAtATime

LEMMA StepIInv == IInv /\ [Next]_vars => IInv'
<1> SUFFICES ASSUME IInv, [Next]_vars PROVE IInv'
  OBVIOUS
<1>1. CASE \E h \in Handlers : Ask(h) \/ Answer(h)
  BY <1>1, AskKeeps, AnswerKeeps
<1>2. CASE (\E o \in Orders : WindowCloses(o)) \/ UNCHANGED vars
  <2>1. /\ open' \in SUBSET open
        /\ UNCHANGED <<age, lock, life, cooldown, found, sent, task, outlived>>
    BY <1>2 DEF WindowCloses, vars
  <2>2. TypeOK' /\ OneAtATime' /\ Resting'
    BY <2>1 DEF IInv, TypeOK, OneAtATime, Resting, Working
  <2>3. Working' = Working /\ \A h \in Working : Progress(h)'
    BY <2>1 DEF IInv, Working, Progress, Punctual, Elapsed
  <2>4. Counted'
    BY <2>1, CountedKept
  <2> QED
    BY <2>2, <2>3, <2>4 DEF IInv
<1>3. CASE Crash
  BY <1>3, CrashKeeps
<1>4. CASE Tick
  BY <1>4, TickKeeps
<1> QED
  BY <1>1, <1>2, <1>3, <1>4 DEF Next

LEMMA Invariance == Spec => []IInv
  BY InitIInv, StepIInv, PTL DEF Spec

\* All variables of SteamCodes keep their types.
THEOREM TypeCorrect == Spec => []TypeOK
  BY Invariance, PTL DEF IInv

\* Whatever times messages take, an event ends before the lock of its user's
\* events expires, unless a message of its own was slow (services.py:886, main.py:54).
THEOREM EventsDoNotOverlap == Spec => []OneAtATime
  BY Invariance, PTL DEF IInv

\* Whatever times messages take, no order gets more codes than code_limit, but
\* one for each of its requests under which the lock expired (services.py:845).
THEOREM LimitHolds == Spec => []CodesWithinLimit
<1>1. IInv => CodesWithinLimit
  <2> SUFFICES ASSUME IInv, NEW o \in Orders
               PROVE  sent[o] <= found[o] /\ found[o] <= Limit + outlived[o]
    BY DEF CodesWithinLimit
  <2> DEFINE s == Cardinality(Sending(o, task))
             n == Cardinality(Unrecorded(o, task))
  <2>1. sent[o] + s <= found[o] /\ found[o] + n <= Limit + outlived[o]
    BY DEF IInv, Counted
  <2>2. /\ found[o] \in Nat /\ sent[o] \in Nat /\ outlived[o] \in Nat /\ Limit \in Nat
        /\ s \in Nat /\ n \in Nat
    BY Counts
  <2> HIDE DEF s, n
  <2> QED
    BY <2>1, <2>2
<1> QED
  BY <1>1, Invariance, PTL

\* A code arrives while it can still be typed in, less the time of the message
\* that brings it, whatever that is (steam_guard.py:60).
THEOREM CodesArriveAlive == Spec => []ArrivesAlive
<1>1. IInv => ArrivesAlive
  BY DEF IInv, ArrivesAlive, Arriving, Working, Progress, TypeOK, Tasks, FRESH_CODE_MIN_LIFETIME
<1> QED
  BY <1>1, Invariance, PTL
=============================================================================
