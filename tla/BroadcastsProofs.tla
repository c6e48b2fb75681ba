-------------------------- MODULE BroadcastsProofs --------------------------
(***************************************************************************)
(* Proofs about Broadcasts, for any users, batch and bounds.               *)
(***************************************************************************)
EXTENDS Broadcasts, FiniteSetTheorems, SequenceTheorems, WellFoundedInduction, TLAPS

(***************************************************************************)
(* The inductive invariant.                                                *)
(***************************************************************************)
\* The histories have their types, and a worker without a broadcast has sent
\* nothing.
Histories ==
  /\ got \in [Jobs -> [Users -> Nat]]
  /\ steady \in [Jobs -> SUBSET Users] /\ tried \in [Jobs -> SUBSET Users]
  /\ late \in [Users -> Nat] /\ news \in [Users -> {"none", "sale", "no sale"}]
  /\ worker.job = 0 => worker.outcome = "none"

\* Who is still to be sent a message of the batch.
Pending == IF worker.outcome = "none" THEN worker.rest ELSE worker.rest \ {Recipient}

\* Who subscribes, or waits in a batch, has not been sent anything since leaving.
LeftAlone == \A u \in Users : late[u] <= 1 /\ (u \in subscribed \cup Pending => late[u] = 0)

\* Broadcasts are sent in their order: the worker is at the oldest that is open,
\* and nobody has been tried for the others.
InTurn ==
  /\ \A i, j \in Jobs : i < j /\ jobs[i].open => jobs[j].open /\ tried[j] = {}
  /\ worker.job # 0 => jobs[worker.job].open /\ \A i \in Jobs : i < worker.job => ~jobs[i].open

\* Who has wanted a broadcast all the time is in its audience still, and has been
\* tried once the progress has come to them.
SteadyReached ==
  \A j \in Jobs :
    /\ steady[j] \subseteq jobs[j].audience \cap Wanting
    /\ \A u \in steady[j] : u <= jobs[j].cursor \/ ~jobs[j].open => u \in tried[j]

\* A batch is a piece of the audience right behind the progress.
BatchAhead ==
  LET j == worker.job IN
  j # 0 => /\ \A v \in worker.rest : jobs[j].cursor < v
           /\ \A u \in steady[j], v \in worker.rest : jobs[j].cursor < u /\ u < v => u \in worker.rest
           /\ worker.outcome # "none" => Recipient \in tried[j]
           /\ worker.outcome = "delivered" => got[j][Recipient] > 0

\* The counts of a broadcast are of users its progress has passed.
Reached(j) == {u \in Users : got[j][u] > 0 /\ u <= jobs[j].cursor}
Passed(j) == {u \in tried[j] : u <= jobs[j].cursor}
CountsTrue ==
  \A j \in Jobs : /\ jobs[j].delivered <= Cardinality(Reached(j))
                  /\ jobs[j].delivered + jobs[j].refused + jobs[j].errors <= Cardinality(Passed(j))

\* The news a user has are those of the last broadcast about the sale that has
\* tried the user, and the last of them all tells what the sale is.
SaleJobs == {j \in Jobs : jobs[j].kind # "message"}
NewsOf(u) ==
  \/ news[u] = "none" /\ \A j \in SaleJobs : u \notin tried[j]
  \/ \E j \in SaleJobs : /\ u \in tried[j] /\ news[u] = jobs[j].kind
                         /\ \A i \in SaleJobs : i > j => u \notin tried[i]
NewsInOrder ==
  /\ \A u \in Users : NewsOf(u)
  /\ \A j \in SaleJobs : (\A i \in SaleJobs : i <= j) => jobs[j].kind = IF sale THEN "sale" ELSE "no sale"

IInv ==
  /\ TypeOK /\ Histories /\ LeftAlone /\ InTurn
  /\ SteadyReached /\ BatchAhead /\ CountsTrue /\ NewsInOrder

(***************************************************************************)
(* Least elements, sequences, counting.                                    *)
(***************************************************************************)
LEMMA MinOf ==
  ASSUME NEW S \in SUBSET Nat, S # {}
  PROVE  Min(S) \in S /\ \A x \in S : Min(S) <= x
<1> DEFINE less == {p \in Nat \X Nat : p[1] < p[2]}
<1>0. IsWellFoundedOn(less, Nat)
  BY NatLessThanWellFounded DEF OpToRel
<1>1. PICK x \in S : \A y \in S : <<y, x>> \notin less
  <2> HIDE DEF less
  <2> QED
    BY <1>0, WFMin
<1>2. ASSUME NEW y \in S PROVE x <= y
  <2>1. <<y, x>> \in Nat \X Nat /\ <<y, x>>[1] = y /\ <<y, x>>[2] = x
    OBVIOUS
  <2>2. ~(y < x)
    BY <1>1, <2>1
  <2>3. x \in Nat /\ y \in Nat
    OBVIOUS
  <2> QED
    BY <2>2, <2>3
<1> QED
  BY <1>2 DEF Min

LEMMA FunctionIsSeq ==
  ASSUME NEW T, NEW n \in Nat, NEW s \in [1..n -> T]
  PROVE  s \in Seq(T) /\ Len(s) = n
<1>1. s \in Seq(T)
  BY SeqDef
<1>2. Len(s) \in Nat /\ DOMAIN s = 1..Len(s)
  BY <1>1, LenProperties
<1>3. 1..n = 1..Len(s)
  BY <1>2
<1> QED
  BY <1>1, <1>2, <1>3

LEMMA Appended ==
  ASSUME NEW T, NEW s \in Seq(T), NEW x \in T, NEW longer, longer = Append(s, x)
  PROVE  /\ longer \in [1..(Len(s) + 1) -> T] /\ longer \in Seq(T) /\ Len(longer) = Len(s) + 1
         /\ longer[Len(s) + 1] = x /\ \A j \in 1..Len(s) : longer[j] = s[j]
<1>1. /\ Append(s, x) \in Seq(T) /\ Len(Append(s, x)) = Len(s) + 1
      /\ \A j \in 1..Len(s) : Append(s, x)[j] = s[j]
      /\ Append(s, x)[Len(s) + 1] = x
  BY AppendProperties
<1>2. longer \in [1..Len(longer) -> T]
  BY <1>1, LenProperties
<1> QED
  BY <1>1, <1>2

LEMMA OneMore ==
  ASSUME NEW m \in Nat
  PROVE  /\ 1..(m + 1) = 1..m \cup {m + 1} /\ m + 1 \notin 1..m /\ m + 1 \in Nat
         /\ \A j \in 1..m : j < m + 1 /\ ~(m + 1 < j) /\ ~(m + 1 <= j)
OBVIOUS

LEMMA NoUser == 0 \notin Users /\ Users \subseteq Nat
BY BroadcastsAssumption

LEMMA Counting ==
  ASSUME NEW S \in SUBSET Users
  PROVE  /\ IsFiniteSet(S) /\ Cardinality(S) \in Nat
         /\ \A T \in SUBSET S : Cardinality(T) <= Cardinality(S) /\ Cardinality(T) \in Nat
         /\ \A u \in S : \A T \in SUBSET (S \ {u}) : Cardinality(T) + 1 <= Cardinality(S)
<1>1. IsFiniteSet(S) /\ Cardinality(S) \in Nat
  BY BroadcastsAssumption, FS_Subset, FS_CardinalityType
<1>2. \A T \in SUBSET S : IsFiniteSet(T) /\ Cardinality(T) <= Cardinality(S) /\ Cardinality(T) \in Nat
  BY <1>1, FS_Subset, FS_CardinalityType
<1>3. ASSUME NEW u \in S, NEW T \in SUBSET (S \ {u}) PROVE Cardinality(T) + 1 <= Cardinality(S)
  <2>1. IsFiniteSet(T) /\ u \notin T /\ Cardinality(T) \in Nat
    BY <1>2
  <2>2. IsFiniteSet(T \cup {u}) /\ Cardinality(T \cup {u}) = Cardinality(T) + 1
    BY <2>1, FS_AddElement
  <2>3. T \cup {u} \in SUBSET S
    OBVIOUS
  <2>4. Cardinality(T \cup {u}) <= Cardinality(S)
    BY <1>2, <2>3
  <2> QED
    BY <2>2, <2>4
<1> QED
  BY <1>1, <1>2, <1>3

\* Jobs, and what the invariant says of the worker's place.
LEMMA Places ==
  ASSUME IInv
  PROVE  /\ Len(jobs) \in Nat /\ Jobs = 1..Len(jobs) /\ jobs \in [Jobs -> JobRows]
         /\ worker.job # 0 => /\ worker.job \in Jobs /\ worker.rest # {} /\ worker.rest \subseteq Users
                              /\ Recipient \in worker.rest /\ \A v \in worker.rest : Recipient <= v
         /\ worker.job = 0 => worker.rest = {} /\ worker.outcome = "none"
<1>1. /\ Len(jobs) \in Nat /\ Jobs = 1..Len(jobs) /\ jobs \in [Jobs -> JobRows]
  BY LenProperties DEF IInv, TypeOK, Jobs
<1>2. worker.job = 0 => worker.rest = {} /\ worker.outcome = "none"
  BY DEF IInv, TypeOK, Histories
<1>3. worker.job # 0 => worker.job \in Jobs /\ worker.rest # {} /\ worker.rest \subseteq Users
  BY DEF IInv, TypeOK
<1>4. worker.job # 0 => Recipient \in worker.rest /\ \A v \in worker.rest : Recipient <= v
  BY <1>3, NoUser, MinOf DEF Recipient
<1> QED
  BY <1>1, <1>2, <1>3, <1>4

(***************************************************************************)
(* The properties follow from the invariant.                               *)
(***************************************************************************)
LEMMA CompletedFollows == IInv => CompletedIsTrue
<1> SUFFICES ASSUME IInv, NEW j \in Jobs, ~jobs[j].open
             PROVE  /\ steady[j] \subseteq tried[j]
                    /\ jobs[j].delivered <= Cardinality({u \in Users : got[j][u] > 0})
                    /\ jobs[j].delivered + jobs[j].refused + jobs[j].errors <= Cardinality(tried[j])
  BY DEF CompletedIsTrue
<1>1. steady[j] \subseteq tried[j]
  BY DEF IInv, SteadyReached
<1>2. jobs[j].delivered \in Nat /\ jobs[j].refused \in Nat /\ jobs[j].errors \in Nat
  BY Places DEF JobRows
<1>3. /\ Cardinality(Reached(j)) <= Cardinality({u \in Users : got[j][u] > 0})
      /\ Cardinality(Reached(j)) \in Nat /\ Cardinality({u \in Users : got[j][u] > 0}) \in Nat
  <2>1. {u \in Users : got[j][u] > 0} \in SUBSET Users /\ Reached(j) \in SUBSET {u \in Users : got[j][u] > 0}
    BY DEF Reached
  <2> QED
    BY <2>1, Counting
<1>4. /\ Cardinality(Passed(j)) <= Cardinality(tried[j])
      /\ Cardinality(Passed(j)) \in Nat /\ Cardinality(tried[j]) \in Nat
  <2>1. tried[j] \in SUBSET Users /\ Passed(j) \in SUBSET tried[j]
    BY DEF Passed, IInv, Histories
  <2> QED
    BY <2>1, Counting
<1>5. /\ jobs[j].delivered <= Cardinality(Reached(j))
      /\ jobs[j].delivered + jobs[j].refused + jobs[j].errors <= Cardinality(Passed(j))
  BY DEF IInv, CountsTrue
<1> QED
  BY <1>1, <1>2, <1>3, <1>4, <1>5

LEMMA NewsFollow == IInv => LastNewsTrue
<1> SUFFICES ASSUME IInv, \A j \in Jobs : ~jobs[j].open, NEW u \in Users,
                    \A j \in SaleJobs : u \in steady[j], SaleJobs # {}
             PROVE  news[u] = IF sale THEN "sale" ELSE "no sale"
  BY DEF LastNewsTrue, SaleJobs
<1>1. \A j \in SaleJobs : u \in tried[j]
  BY DEF IInv, SteadyReached, SaleJobs
<1>2. PICK j \in SaleJobs : /\ u \in tried[j] /\ news[u] = jobs[j].kind
                            /\ \A i \in SaleJobs : i > j => u \notin tried[i]
  BY <1>1 DEF IInv, NewsInOrder, NewsOf
<1>3. \A i \in SaleJobs : i <= j
  BY <1>1, <1>2, Places DEF SaleJobs
<1> QED
  BY <1>2, <1>3 DEF IInv, NewsInOrder

(***************************************************************************)
(* The users, and the administrator about them.                            *)
(***************************************************************************)
People == /\ member \subseteq Users /\ barred \subseteq Users
          /\ subscribed \subseteq member /\ blocked \subseteq member /\ denied \subseteq member

\* People come and go: a broadcast loses some of those who have wanted it all
\* the time, and the messages after leaving are counted anew.
LEMMA PeopleMove ==
  ASSUME IInv, People',
         jobs' \in Seq(JobRows), Len(jobs') = Len(jobs),
         \A j \in Jobs : /\ jobs'[j].kind = jobs[j].kind /\ jobs'[j].open = jobs[j].open
                         /\ jobs'[j].cursor = jobs[j].cursor /\ jobs'[j].delivered = jobs[j].delivered
                         /\ jobs'[j].refused = jobs[j].refused /\ jobs'[j].errors = jobs[j].errors,
         steady' \in [Jobs -> SUBSET Users],
         \A j \in Jobs : /\ steady'[j] \subseteq steady[j]
                         /\ steady'[j] \subseteq jobs'[j].audience \cap (subscribed' \ blocked'),
         late' \in [Users -> Nat],
         \A u \in Users : late'[u] = 0 \/ (late'[u] = late[u] /\ (u \in subscribed' => u \in subscribed)),
         UNCHANGED <<sale, draft, worker, got, tried, news>>
  PROVE  IInv'
<1>1. Jobs' = Jobs /\ Jobs = 1..Len(jobs) /\ Len(jobs) \in Nat
  BY Places DEF Jobs
<1>2. TypeOK' /\ Histories'
  <2>1. TypeOK'
    BY <1>1 DEF People, IInv, TypeOK
  <2>2. Histories'
    BY <1>1 DEF IInv, Histories
  <2> QED
    BY <2>1, <2>2
<1>3. Recipient' = Recipient /\ Pending' = Pending
  BY DEF Recipient, Pending
<1>4. LeftAlone'
  BY <1>3 DEF IInv, LeftAlone
<1>5. InTurn'
  <2>1. \A i, j \in Jobs : i < j /\ jobs'[i].open => jobs'[j].open /\ tried'[j] = {}
    BY DEF IInv, InTurn
  <2>2. worker.job # 0 => jobs'[worker.job].open /\ \A i \in Jobs : i < worker.job => ~jobs'[i].open
    BY Places DEF IInv, InTurn
  <2> QED
    BY <1>1, <2>1, <2>2 DEF InTurn
<1>6. SteadyReached'
  BY <1>1 DEF IInv, SteadyReached, Wanting
<1>7. BatchAhead'
  BY <1>3, Places DEF IInv, BatchAhead
<1>8. CountsTrue'
  <2>1. \A j \in Jobs : Reached(j)' = Reached(j) /\ Passed(j)' = Passed(j)
    BY DEF Reached, Passed
  <2> QED
    BY <1>1, <2>1 DEF IInv, CountsTrue
<1>9. NewsInOrder'
  <2>1. SaleJobs' = SaleJobs /\ \A j \in SaleJobs : jobs'[j].kind = jobs[j].kind
    BY <1>1 DEF SaleJobs
  <2>2. ASSUME NEW u \in Users PROVE NewsOf(u)'
    <3>1. NewsOf(u)
      BY DEF IInv, NewsInOrder
    <3> QED
      BY <2>1, <3>1 DEF NewsOf
  <2>3. \A j \in SaleJobs : (\A i \in SaleJobs : i <= j) => jobs'[j].kind = IF sale THEN "sale" ELSE "no sale"
    BY <2>1 DEF IInv, NewsInOrder
  <2> QED
    BY <2>1, <2>2, <2>3 DEF NewsInOrder
<1> QED
  BY <1>2, <1>4, <1>5, <1>6, <1>7, <1>8, <1>9 DEF IInv

LEMMA SameJobs ==
  ASSUME IInv
  PROVE  /\ jobs \in Seq(JobRows) /\ steady \in [Jobs -> SUBSET Users] /\ late \in [Users -> Nat]
         /\ \A j \in Jobs : steady[j] \subseteq jobs[j].audience \cap (subscribed \ blocked)
         /\ People
BY DEF IInv, TypeOK, Histories, SteadyReached, Wanting, People

LEMMA UsersKeep ==
  ASSUME IInv, NEW u \in Users,
         UserBlock(u) \/ UserDelete(u) \/ Bar(u) \/ Write(u) \/ Subscribe(u) \/ Leave(u)
  PROVE  IInv'
<1>1. CASE UserBlock(u)
  <2>1. People'
    BY <1>1, SameJobs DEF UserBlock, People
  <2>2. UNCHANGED <<member, subscribed, blocked, jobs, steady, late, sale, draft, worker, got, tried, news>>
    BY <1>1 DEF UserBlock, history
  <2> QED
    BY <2>1, <2>2, SameJobs, PeopleMove
<1>2. CASE UserDelete(u)
  <2>1. /\ jobs' = [j \in Jobs |-> [jobs[j] EXCEPT !.audience = @ \ {u}]]
        /\ steady' = [j \in Jobs |-> steady[j] \ {u}]
        /\ subscribed' = subscribed \ {u} /\ blocked' = blocked \ {u}
        /\ late' = [late EXCEPT ![u] = 0]
        /\ UNCHANGED <<sale, draft, worker, got, tried, news>>
    BY <1>2 DEF UserDelete
  <2>2. People'
    BY <1>2, SameJobs DEF UserDelete, People
  <2>3. \A j \in Jobs : /\ jobs'[j] \in JobRows
                        /\ jobs'[j].kind = jobs[j].kind /\ jobs'[j].open = jobs[j].open
                        /\ jobs'[j].cursor = jobs[j].cursor /\ jobs'[j].delivered = jobs[j].delivered
                        /\ jobs'[j].refused = jobs[j].refused /\ jobs'[j].errors = jobs[j].errors
                        /\ jobs'[j].audience = jobs[j].audience \ {u}
    BY <2>1, Places DEF JobRows
  <2>4. jobs' \in Seq(JobRows) /\ Len(jobs') = Len(jobs)
    <3>1. Len(jobs) \in Nat /\ jobs' \in [1..Len(jobs) -> JobRows]
      BY <2>1, <2>3, Places
    <3> QED
      BY <3>1, FunctionIsSeq
  <2>5. /\ steady' \in [Jobs -> SUBSET Users]
        /\ \A j \in Jobs : /\ steady'[j] \subseteq steady[j]
                            /\ steady'[j] \subseteq jobs'[j].audience \cap (subscribed' \ blocked')
    BY <2>1, <2>3, SameJobs
  <2>6. /\ late' \in [Users -> Nat]
        /\ \A v \in Users : late'[v] = 0 \/ (late'[v] = late[v] /\ (v \in subscribed' => v \in subscribed))
    BY <2>1, SameJobs
  <2> QED
    BY <2>1, <2>2, <2>3, <2>4, <2>5, <2>6, PeopleMove
<1>3. CASE Bar(u)
  <2>1. People'
    BY <1>3, SameJobs DEF Bar, People
  <2>2. UNCHANGED <<member, subscribed, blocked, jobs, steady, late, sale, draft, worker, got, tried, news>>
    BY <1>3 DEF Bar, history
  <2> QED
    BY <2>1, <2>2, SameJobs, PeopleMove
<1>4. CASE Write(u)
  <2>1. People'
    BY <1>4, SameJobs DEF Write, Seen, People
  <2>2. blocked' = blocked \ {u} /\ UNCHANGED <<subscribed, jobs, steady, late, sale, draft, worker, got, tried, news>>
    BY <1>4 DEF Write, Seen, history
  <2> QED
    BY <2>1, <2>2, SameJobs, PeopleMove
<1>5. CASE Subscribe(u)
  <2>1. People'
    BY <1>5, SameJobs DEF Subscribe, Seen, People
  <2>2. /\ blocked' = blocked \ {u} /\ subscribed' = subscribed \cup {u} /\ late' = [late EXCEPT ![u] = 0]
        /\ UNCHANGED <<jobs, steady, sale, draft, worker, got, tried, news>>
    BY <1>5 DEF Subscribe, Seen
  <2>3. /\ late' \in [Users -> Nat]
        /\ \A v \in Users : late'[v] = 0 \/ (late'[v] = late[v] /\ (v \in subscribed' => v \in subscribed))
    BY <2>2, SameJobs
  <2>4. \A j \in Jobs : steady'[j] \subseteq jobs'[j].audience \cap (subscribed' \ blocked')
    BY <2>2, SameJobs
  <2> QED
    BY <2>1, <2>2, <2>3, <2>4, SameJobs, PeopleMove
<1>6. CASE Leave(u)
  <2>1. People'
    BY <1>6, SameJobs DEF Leave, Seen, People
  <2>2. /\ blocked' = blocked \ {u} /\ subscribed' = subscribed \ {u}
        /\ steady' = [j \in Jobs |-> steady[j] \ {u}]
        /\ UNCHANGED <<jobs, late, sale, draft, worker, got, tried, news>>
    BY <1>6 DEF Leave, Seen
  <2>3. /\ steady' \in [Jobs -> SUBSET Users]
        /\ \A j \in Jobs : /\ steady'[j] \subseteq steady[j]
                            /\ steady'[j] \subseteq jobs'[j].audience \cap (subscribed' \ blocked')
    BY <2>2, SameJobs
  <2> QED
    BY <2>1, <2>2, <2>3, SameJobs, PeopleMove
<1> QED
  BY <1>1, <1>2, <1>3, <1>4, <1>5, <1>6

(***************************************************************************)
(* The administrator's broadcasts.                                         *)
(***************************************************************************)
LEMMA DraftKeeps ==
  ASSUME IInv, Compose \/ Confirm \/ ClearDraft
  PROVE  IInv'
<1>1. /\ draft' \in {"none", "written", "confirmed", "queued"}
      /\ UNCHANGED <<member, subscribed, blocked, denied, barred, sale, jobs, worker, got, steady, tried, late, news>>
  BY DEF Compose, Confirm, ClearDraft, people, history
<1>2. TypeOK'
  BY <1>1 DEF IInv, TypeOK, Jobs
<1>3. Histories' /\ LeftAlone' /\ InTurn'
  BY <1>1 DEF IInv, Histories, LeftAlone, Pending, Recipient, InTurn, Jobs
<1>4. SteadyReached' /\ BatchAhead'
  BY <1>1 DEF IInv, SteadyReached, BatchAhead, Wanting, Recipient, Jobs
<1>5. CountsTrue' /\ NewsInOrder'
  BY <1>1 DEF IInv, CountsTrue, Reached, Passed, NewsInOrder, NewsOf, SaleJobs, Jobs
<1> QED
  BY <1>2, <1>3, <1>4, <1>5 DEF IInv

Telling(kind) ==
  /\ sale' \in BOOLEAN
  /\ IF kind = "message" THEN sale' = sale ELSE kind = IF sale' THEN "sale" ELSE "no sale"

Broadcast(kind) ==
  /\ kind \in {"message", "sale", "no sale"}
  /\ Queue(kind) /\ Telling(kind)
  /\ draft' \in {"none", "written", "confirmed", "queued"}
  /\ UNCHANGED <<member, subscribed, blocked, denied, barred, worker, late, news>>

\* A new broadcast comes last, for whoever wants it now; one about the sale
\* tells what the sale is now.
LEMMA QueueKeeps ==
  ASSUME IInv, NEW kind, Broadcast(kind)
  PROVE  IInv'
<1> DEFINE n == Len(jobs) + 1
           job == [kind |-> kind, open |-> TRUE, audience |-> member, cursor |-> 0,
                   delivered |-> 0, refused |-> 0, errors |-> 0]
<1>1. /\ job \in JobRows
      /\ job.kind = kind /\ job.open = TRUE /\ job.audience = member /\ job.cursor = 0
      /\ job.delivered = 0 /\ job.refused = 0 /\ job.errors = 0
  BY SameJobs DEF JobRows, People, Broadcast
<1>2. /\ jobs' = Append(jobs, job)
      /\ got' = Append(got, [u \in Users |-> 0])
      /\ steady' = Append(steady, Wanting)
      /\ tried' = Append(tried, {})
  BY DEF Broadcast, Queue
<1> HIDE DEF job
<1>3. /\ Len(jobs) \in Nat /\ Jobs = 1..Len(jobs) /\ jobs \in [1..Len(jobs) -> JobRows]
      /\ got \in [1..Len(jobs) -> [Users -> Nat]]
      /\ steady \in [1..Len(jobs) -> SUBSET Users] /\ tried \in [1..Len(jobs) -> SUBSET Users]
  BY Places DEF IInv, Histories
<1>4. /\ n \in Nat /\ n \notin Jobs /\ 1..n = Jobs \cup {n}
      /\ \A j \in Jobs : j < n /\ ~(n < j) /\ ~(n <= j)
  BY <1>3, OneMore
<1>5. /\ jobs' \in Seq(JobRows) /\ Len(jobs') = n /\ jobs'[n] = job /\ \A j \in Jobs : jobs'[j] = jobs[j]
      /\ Jobs' = 1..n
  <2>1. /\ jobs' \in Seq(JobRows) /\ Len(jobs') = n /\ jobs'[n] = job /\ \A j \in Jobs : jobs'[j] = jobs[j]
    <3>0. jobs \in Seq(JobRows)
      BY <1>3, FunctionIsSeq
    <3>1. /\ jobs' \in Seq(JobRows) /\ Len(jobs') = Len(jobs) + 1 /\ jobs'[Len(jobs) + 1] = job
          /\ \A j \in 1..Len(jobs) : jobs'[j] = jobs[j]
      BY <1>1, <1>2, <3>0, Appended
    <3> QED
      BY <1>3, <3>1
  <2> QED
    BY <2>1 DEF Jobs
<1>6. /\ got' \in [Jobs' -> [Users -> Nat]] /\ \A j \in Jobs : got'[j] = got[j]
      /\ \A u \in Users : got'[n][u] = 0
  <2>1. [u \in Users |-> 0] \in [Users -> Nat]
    OBVIOUS
  <2>2. /\ got' \in [1..n -> [Users -> Nat]] /\ got'[n] = [u \in Users |-> 0]
        /\ \A j \in Jobs : got'[j] = got[j]
    <3> DEFINE T == [Users -> Nat]
    <3>0. got \in Seq(T) /\ Len(got) = Len(jobs) /\ [u \in Users |-> 0] \in T
      BY <1>3, <2>1, FunctionIsSeq
    <3>1. /\ got' \in Seq(T) /\ Len(got') = Len(got) + 1 /\ got'[Len(got) + 1] = [u \in Users |-> 0]
          /\ \A j \in 1..Len(got) : got'[j] = got[j]
      <4> HIDE DEF T
      <4> QED
        BY <1>2, <3>0, Appended
    <3>2. got' \in [1..Len(got') -> T]
      BY <3>1, LenProperties
    <3> QED
      BY <1>3, <3>0, <3>1, <3>2
  <2> QED
    BY <1>5, <2>2
<1>7. /\ steady' \in [Jobs' -> SUBSET Users] /\ steady'[n] = Wanting /\ \A j \in Jobs : steady'[j] = steady[j]
  <2>1. Wanting \in SUBSET Users
    BY SameJobs DEF People, Wanting
  <2>2. steady' \in [1..n -> SUBSET Users] /\ steady'[n] = Wanting /\ \A j \in Jobs : steady'[j] = steady[j]
    <3> DEFINE T == SUBSET Users
    <3>0. steady \in Seq(T) /\ Len(steady) = Len(jobs) /\ Wanting \in T
      BY <1>3, <2>1, FunctionIsSeq
    <3>1. /\ steady' \in Seq(T) /\ Len(steady') = Len(steady) + 1 /\ steady'[Len(steady) + 1] = Wanting
          /\ \A j \in 1..Len(steady) : steady'[j] = steady[j]
      <4> HIDE DEF T
      <4> QED
        BY <1>2, <3>0, Appended
    <3>2. steady' \in [1..Len(steady') -> T]
      BY <3>1, LenProperties
    <3> QED
      BY <1>3, <3>0, <3>1, <3>2
  <2> QED
    BY <1>5, <2>2
<1>8. /\ tried' \in [Jobs' -> SUBSET Users] /\ tried'[n] = {} /\ \A j \in Jobs : tried'[j] = tried[j]
  <2>1. {} \in SUBSET Users
    OBVIOUS
  <2>2. tried' \in [1..n -> SUBSET Users] /\ tried'[n] = {} /\ \A j \in Jobs : tried'[j] = tried[j]
    <3> DEFINE T == SUBSET Users
    <3>0. tried \in Seq(T) /\ Len(tried) = Len(jobs) /\ {} \in T
      BY <1>3, <2>1, FunctionIsSeq
    <3>1. /\ tried' \in Seq(T) /\ Len(tried') = Len(tried) + 1 /\ tried'[Len(tried) + 1] = {}
          /\ \A j \in 1..Len(tried) : tried'[j] = tried[j]
      <4> HIDE DEF T
      <4> QED
        BY <1>2, <3>0, Appended
    <3>2. tried' \in [1..Len(tried') -> T]
      BY <3>1, LenProperties
    <3> QED
      BY <1>3, <3>0, <3>1, <3>2
  <2> QED
    BY <1>5, <2>2
<1>a. Jobs' = Jobs \cup {n}
  BY <1>4, <1>5
<1> HIDE DEF n
<1>9. TypeOK' /\ Histories' /\ LeftAlone'
  <2>1. TypeOK'
    BY <1>5, <1>a DEF IInv, TypeOK, Telling, Broadcast
  <2>2. Histories'
    BY <1>6, <1>7, <1>8 DEF IInv, Histories, Broadcast
  <2>3. LeftAlone'
    BY DEF IInv, LeftAlone, Pending, Recipient, Broadcast
  <2> QED
    BY <2>1, <2>2, <2>3
<1>10. InTurn'
  <2>1. ASSUME NEW i \in Jobs', NEW j \in Jobs', i < j, jobs'[i].open PROVE jobs'[j].open /\ tried'[j] = {}
    <3>1. CASE j = n
      BY <1>1, <1>5, <1>8, <3>1
    <3>2. CASE j # n
      <4>1. j \in Jobs /\ i \in Jobs
        BY <1>4, <1>a, <2>1, <3>2
      <4> QED
        BY <1>5, <1>8, <2>1, <4>1 DEF IInv, InTurn
    <3> QED
      BY <3>1, <3>2
  <2>2. ASSUME worker.job # 0
        PROVE  jobs'[worker.job].open /\ \A i \in Jobs' : i < worker.job => ~jobs'[i].open
    <3>1. worker.job \in Jobs /\ ~(n < worker.job)
      BY <1>4, <2>2, Places
    <3> QED
      BY <1>5, <1>a, <2>2, <3>1 DEF IInv, InTurn
  <2> QED
    BY <2>1, <2>2 DEF InTurn, Broadcast
<1>11. SteadyReached'
  <2> SUFFICES ASSUME NEW j \in Jobs'
               PROVE  /\ steady'[j] \subseteq jobs'[j].audience \cap Wanting
                      /\ \A u \in steady'[j] : u <= jobs'[j].cursor \/ ~jobs'[j].open => u \in tried'[j]
    BY DEF SteadyReached, Wanting, Broadcast
  <2>1. CASE j = n
    <3>1. Wanting \subseteq member
      BY SameJobs DEF People, Wanting
    <3>2. \A u \in Users : ~(u <= 0)
      <4>1. \A u \in Users : u \in Nat /\ u # 0
        BY NoUser
      <4> QED
        BY <4>1
    <3>3. Wanting \subseteq Users
      BY <3>1, SameJobs DEF People
    <3> QED
      BY <1>1, <1>5, <1>7, <2>1, <3>1, <3>2, <3>3
  <2>2. CASE j # n
    BY <1>5, <1>7, <1>8, <1>a, <2>2 DEF IInv, SteadyReached
  <2> QED
    BY <2>1, <2>2
<1>12. BatchAhead'
  BY <1>5, <1>6, <1>7, <1>8, Places DEF IInv, BatchAhead, Recipient, Broadcast
<1>13. CountsTrue'
  <2> SUFFICES ASSUME NEW j \in Jobs'
               PROVE  /\ jobs'[j].delivered <= Cardinality(Reached(j)')
                      /\ jobs'[j].delivered + jobs'[j].refused + jobs'[j].errors <= Cardinality(Passed(j)')
    BY DEF CountsTrue
  <2>1. CASE j = n
    <3>1. Reached(j)' \in SUBSET Users /\ Passed(j)' \in SUBSET Users
      BY <1>8, <2>1 DEF Reached, Passed
    <3>2. Cardinality(Reached(j)') \in Nat /\ Cardinality(Passed(j)') \in Nat
      BY <3>1, Counting
    <3>3. jobs'[j].delivered = 0 /\ jobs'[j].refused = 0 /\ jobs'[j].errors = 0
      BY <1>1, <1>5, <2>1
    <3> DEFINE reached == Cardinality(Reached(j)')
               passed == Cardinality(Passed(j)')
    <3>4. reached \in Nat /\ passed \in Nat
      BY <3>2
    <3> HIDE DEF reached, passed
    <3>5. /\ jobs'[j].delivered <= reached
          /\ jobs'[j].delivered + jobs'[j].refused + jobs'[j].errors <= passed
      BY <3>3, <3>4
    <3> QED
      BY <3>5 DEF reached, passed
  <2>2. CASE j # n
    <3>1. j \in Jobs /\ Reached(j)' = Reached(j) /\ Passed(j)' = Passed(j)
      BY <1>5, <1>6, <1>8, <1>a, <2>2 DEF Reached, Passed
    <3> QED
      BY <1>5, <3>1 DEF IInv, CountsTrue
  <2> QED
    BY <2>1, <2>2
<1>14. NewsInOrder'
  <2>1. SaleJobs' = IF kind = "message" THEN SaleJobs ELSE SaleJobs \cup {n}
    BY <1>1, <1>5, <1>a DEF SaleJobs
  <2>2. SaleJobs \subseteq Jobs /\ \A j \in SaleJobs : jobs'[j].kind = jobs[j].kind
    BY <1>5 DEF SaleJobs
  <2>3. ASSUME NEW u \in Users PROVE NewsOf(u)'
    <3>1. NewsOf(u)
      BY DEF IInv, NewsInOrder
    <3> QED
      BY <1>8, <2>1, <2>2, <3>1 DEF NewsOf, Broadcast
  <2>4. ASSUME NEW j \in SaleJobs', \A i \in SaleJobs' : i <= j
        PROVE  jobs'[j].kind = IF sale' THEN "sale" ELSE "no sale"
    <3>1. CASE kind = "message"
      BY <2>1, <2>2, <2>4, <3>1 DEF IInv, NewsInOrder, Telling, Broadcast
    <3>2. CASE kind # "message"
      <4>1. n <= j
        BY <2>1, <2>4, <3>2
      <4>2. j = n
        BY <1>4, <2>1, <2>2, <2>4, <3>2, <4>1
      <4> QED
        BY <1>1, <1>5, <3>2, <4>2 DEF Telling, Broadcast
    <3> QED
      BY <3>1, <3>2
  <2> QED
    BY <2>3, <2>4 DEF NewsInOrder
<1> QED
  BY <1>9, <1>10, <1>11, <1>12, <1>13, <1>14 DEF IInv

LEMMA BroadcastKeeps ==
  ASSUME IInv, SendDraft \/ SaleToggle
  PROVE  IInv'
<1>1. CASE SendDraft
  <2>1. Broadcast("message")
    BY <1>1 DEF SendDraft, people, IInv, TypeOK, Telling, Broadcast
  <2> QED
    BY <2>1, QueueKeeps
<1>2. CASE SaleToggle
  <2>1. PICK kind \in {"message", "sale", "no sale"} : kind = IF sale' THEN "sale" ELSE "no sale"
    OBVIOUS
  <2>2. Broadcast(kind)
    BY <1>2, <2>1 DEF SaleToggle, people, IInv, TypeOK, Telling, Broadcast
  <2> QED
    BY <2>1, <2>2, QueueKeeps
<1> QED
  BY <1>1, <1>2

(***************************************************************************)
(* The worker.                                                             *)
(***************************************************************************)
LEMMA CurrentIs ==
  ASSUME IInv, Current # 0
  PROVE  Current \in Jobs /\ jobs[Current].open /\ \A i \in Jobs : i < Current => ~jobs[i].open
<1> DEFINE opened == {j \in Jobs : jobs[j].open}
<1>1. Current = Min(opened) /\ opened # {}
  BY DEF Current
<1>2. opened \in SUBSET Nat
  BY Places
<1> HIDE DEF opened
<1>3. Current \in opened /\ \A i \in opened : Current <= i
  BY <1>1, <1>2, MinOf
<1>4. \A i \in Jobs : i < Current => i \notin opened
  <2>1. Current \in Nat /\ \A i \in Jobs : i \in Nat
    BY <1>2, <1>3, Places
  <2> QED
    BY <1>3, <2>1
<1> QED
  BY <1>3, <1>4 DEF opened

\* The first of a set, which may not be empty, are its least elements.
LEMMA Firsts ==
  ASSUME NEW S \in SUBSET Users
  PROVE  /\ FirstOf(S) \subseteq S /\ (S # {} => FirstOf(S) # {})
         /\ \A u \in S : \A v \in FirstOf(S) : u < v => u \in FirstOf(S)
<1> DEFINE Below(u) == {v \in S : v < u}
<1>1. FirstOf(S) = {u \in S : Cardinality(Below(u)) < Batch}
  BY DEF FirstOf
<1>2. ASSUME S # {} PROVE FirstOf(S) # {}
  <2>1. Min(S) \in S /\ \A x \in S : Min(S) <= x
    BY <1>2, NoUser, MinOf
  <2>2. \A x \in S : x \in Nat
    BY NoUser
  <2>3. Below(Min(S)) = {}
    BY <2>1, <2>2
  <2>4. Cardinality(Below(Min(S))) = 0
    BY <2>3, FS_EmptySet
  <2> QED
    BY <1>1, <2>1, <2>4, BroadcastsAssumption
<1>3. ASSUME NEW u \in S, NEW v \in FirstOf(S), u < v PROVE u \in FirstOf(S)
  <2>1. v \in S /\ \A x \in S : x \in Nat
    BY <1>1, NoUser
  <2>2. Below(u) \subseteq Below(v) /\ Below(v) \in SUBSET Users
    BY <1>3, <2>1
  <2> DEFINE fewer == Cardinality(Below(u))
             more == Cardinality(Below(v))
  <2>3. fewer \in Nat /\ more \in Nat /\ fewer <= more
    <3> HIDE DEF Below
    <3> QED
      BY <2>2, Counting
  <2>4. more < Batch
    BY <1>1
  <2>5. fewer < Batch
    <3> HIDE DEF fewer, more
    <3> QED
      BY <2>3, <2>4, BroadcastsAssumption
  <2> QED
    BY <1>1, <2>5
<1> QED
  BY <1>1, <1>2, <1>3

LEMMA LoadKeeps ==
  ASSUME IInv, Load
  PROVE  IInv'
<1> DEFINE c == Current
           e == Eligible(c)
           b == FirstOf(e)
<1>1. /\ worker' = [job |-> c, rest |-> b, outcome |-> "none"] /\ c # 0 /\ e # {}
      /\ UNCHANGED <<member, subscribed, blocked, denied, barred, sale, draft, jobs, got, steady, tried, late, news>>
  BY DEF Load, people, history
<1>2. c \in Jobs /\ jobs[c].open /\ \A i \in Jobs : i < c => ~jobs[i].open
  BY <1>1, CurrentIs
<1>3. e = {u \in jobs[c].audience \cap Wanting : u > jobs[c].cursor}
  BY DEF Eligible
<1>4. e \in SUBSET Users /\ e \subseteq subscribed
  BY <1>3, SameJobs DEF Wanting, People
<1> HIDE DEF e
<1>5. /\ b \subseteq e /\ b # {} /\ \A u \in e : \A v \in b : u < v => u \in b
  BY <1>1, <1>4, Firsts
<1>w. worker'.job = c /\ worker'.rest = b /\ worker'.outcome = "none"
  BY <1>1
<1> HIDE DEF b, c
<1>6. TypeOK'
  <2>1. worker' \in [job : Nat, rest : SUBSET Users, outcome : {"none", "delivered", "refused", "error"}]
    BY <1>1, <1>2, <1>4, <1>5, Places
  <2> QED
    BY <1>1, <1>2, <1>5, <1>w, <2>1 DEF IInv, TypeOK, Jobs
<1>7. Histories'
  BY <1>1, <1>w DEF IInv, Histories, Jobs
<1>8. LeftAlone'
  <2>1. Pending' \subseteq subscribed
    BY <1>4, <1>5, <1>w DEF Pending
  <2> QED
    BY <1>1, <2>1 DEF IInv, LeftAlone
<1>9. InTurn'
  BY <1>1, <1>2, <1>w DEF IInv, InTurn, Jobs
<1>10. SteadyReached' /\ CountsTrue' /\ NewsInOrder'
  <2>1. SteadyReached'
    BY <1>1 DEF IInv, SteadyReached, Wanting, Jobs
  <2>2. CountsTrue'
    BY <1>1 DEF IInv, CountsTrue, Reached, Passed, Jobs
  <2>3. NewsInOrder'
    BY <1>1 DEF IInv, NewsInOrder, NewsOf, SaleJobs, Jobs
  <2> QED
    BY <2>1, <2>2, <2>3
<1>11. BatchAhead'
  <2>1. \A v \in b : jobs[c].cursor < v
    BY <1>3, <1>5
  <2>2. ASSUME NEW u \in steady[c], NEW v \in b, jobs[c].cursor < u, u < v PROVE u \in b
    <3>1. u \in e
      BY <1>2, <1>3, <2>2 DEF IInv, SteadyReached
    <3> QED
      BY <1>5, <2>2, <3>1
  <2> QED
    BY <1>1, <1>w, <2>1, <2>2 DEF BatchAhead
<1> QED
  BY <1>6, <1>7, <1>8, <1>9, <1>10, <1>11 DEF IInv

\* Everybody the broadcast was for has been tried when nobody is left.
LEMMA CompleteKeeps ==
  ASSUME IInv, Complete
  PROVE  IInv'
<1> DEFINE c == Current
<1>1. /\ jobs' = [jobs EXCEPT ![c].open = FALSE] /\ c # 0 /\ Eligible(c) = {} /\ worker.job = 0
      /\ UNCHANGED <<member, subscribed, blocked, denied, barred, sale, draft, worker, got, steady, tried, late, news>>
  BY DEF Complete, people, history
<1>2. c \in Jobs /\ jobs[c].open /\ \A i \in Jobs : i < c => ~jobs[i].open
  BY <1>1, CurrentIs
<1> HIDE DEF c
<1>3. /\ jobs' \in [Jobs -> JobRows] /\ ~jobs'[c].open
      /\ \A j \in Jobs : /\ jobs'[j].kind = jobs[j].kind /\ jobs'[j].audience = jobs[j].audience
                         /\ jobs'[j].cursor = jobs[j].cursor /\ jobs'[j].delivered = jobs[j].delivered
                         /\ jobs'[j].refused = jobs[j].refused /\ jobs'[j].errors = jobs[j].errors
                         /\ (j # c => jobs'[j].open = jobs[j].open)
  BY <1>1, <1>2, Places DEF JobRows
<1>4. jobs' \in Seq(JobRows) /\ Len(jobs') = Len(jobs) /\ Jobs' = Jobs
  <2>1. Len(jobs) \in Nat /\ jobs' \in [1..Len(jobs) -> JobRows]
    BY <1>3, Places
  <2>2. jobs' \in Seq(JobRows) /\ Len(jobs') = Len(jobs)
    BY <2>1, FunctionIsSeq
  <2> QED
    BY <2>2 DEF Jobs
<1>5. TypeOK' /\ Histories' /\ LeftAlone'
  <2>1. TypeOK'
    BY <1>1, <1>4 DEF IInv, TypeOK
  <2>2. Histories'
    BY <1>1, <1>4 DEF IInv, Histories
  <2>3. LeftAlone'
    BY <1>1 DEF IInv, LeftAlone, Pending, Recipient
  <2> QED
    BY <2>1, <2>2, <2>3
<1>6. InTurn'
  <2>1. ASSUME NEW i \in Jobs, NEW j \in Jobs, i < j, jobs'[i].open PROVE jobs'[j].open /\ tried[j] = {}
    <3>1. i # c /\ jobs[i].open
      BY <1>3, <2>1
    <3>2. j # c
      BY <1>2, <2>1, <3>1
    <3> QED
      BY <1>3, <2>1, <3>1, <3>2 DEF IInv, InTurn
  <2> QED
    BY <1>1, <1>4, <2>1 DEF InTurn
<1>7. SteadyReached'
  <2> SUFFICES ASSUME NEW j \in Jobs
               PROVE  /\ steady[j] \subseteq jobs'[j].audience \cap Wanting
                      /\ \A u \in steady[j] : u <= jobs'[j].cursor \/ ~jobs'[j].open => u \in tried[j]
    BY <1>1, <1>4 DEF SteadyReached, Wanting
  <2>1. CASE j = c
    <3>1. ASSUME NEW u \in steady[c] PROVE u <= jobs[c].cursor
      <4>1. ~(u > jobs[c].cursor)
        BY <1>1, <1>2, <3>1 DEF IInv, SteadyReached, Eligible
      <4>2. u \in Nat /\ jobs[c].cursor \in Nat
        <5>1. u \in Users
          BY <1>2, <3>1, SameJobs
        <5>2. jobs[c].cursor \in Users \cup {0}
          BY <1>2, Places DEF JobRows
        <5>3. Users \cup {0} \subseteq Nat
          BY NoUser
        <5> QED
          BY <5>1, <5>2, <5>3
      <4> QED
        BY <4>1, <4>2
    <3> QED
      BY <1>3, <2>1, <3>1 DEF IInv, SteadyReached
  <2>2. CASE j # c
    BY <1>3, <2>2 DEF IInv, SteadyReached
  <2> QED
    BY <2>1, <2>2
<1>8. BatchAhead'
  BY <1>1 DEF BatchAhead
<1>9. CountsTrue'
  <2>1. \A j \in Jobs : Reached(j)' = Reached(j) /\ Passed(j)' = Passed(j)
    BY <1>1, <1>3 DEF Reached, Passed
  <2> QED
    BY <1>3, <1>4, <2>1 DEF IInv, CountsTrue
<1>10. NewsInOrder'
  <2>1. SaleJobs' = SaleJobs /\ \A j \in SaleJobs : jobs'[j].kind = jobs[j].kind
    BY <1>3, <1>4 DEF SaleJobs
  <2>2. ASSUME NEW u \in Users PROVE NewsOf(u)'
    <3>1. NewsOf(u)
      BY DEF IInv, NewsInOrder
    <3> QED
      BY <1>1, <2>1, <3>1 DEF NewsOf
  <2>3. \A j \in SaleJobs : (\A i \in SaleJobs : i <= j) => jobs'[j].kind = IF sale THEN "sale" ELSE "no sale"
    BY <2>1 DEF IInv, NewsInOrder
  <2> QED
    BY <1>1, <2>1, <2>2, <2>3 DEF NewsInOrder
<1> QED
  BY <1>5, <1>6, <1>7, <1>8, <1>9, <1>10 DEF IInv

\* A message to the next of the batch, as the worker knows of it.
Sent(outcome) ==
  /\ Ready
  /\ outcome \in {"delivered", "refused", "error"}
  /\ worker' = [worker EXCEPT !.outcome = outcome]
  /\ tried' = [tried EXCEPT ![worker.job] = @ \cup {Recipient}]
  /\ \/ got' = got /\ outcome # "delivered"
     \/ got' = [got EXCEPT ![worker.job][Recipient] = @ + 1]
  /\ late' = late \/ (Recipient \notin subscribed /\ late' = [late EXCEPT ![Recipient] = @ + 1])
  /\ news' = IF jobs[worker.job].kind = "message" THEN news ELSE [news EXCEPT ![Recipient] = jobs[worker.job].kind]
  /\ UNCHANGED <<member, subscribed, blocked, denied, barred, sale, draft, jobs, steady>>

LEMMA SentKeeps ==
  ASSUME IInv, NEW outcome, Sent(outcome)
  PROVE  IInv'
<1> DEFINE j == worker.job
           r == Recipient
<1>1. /\ worker.rest # {} /\ worker.outcome = "none" /\ outcome \in {"delivered", "refused", "error"}
      /\ worker' = [worker EXCEPT !.outcome = outcome]
      /\ tried' = [tried EXCEPT ![j] = @ \cup {r}]
      /\ UNCHANGED <<member, subscribed, blocked, denied, barred, sale, draft, jobs, steady>>
  BY DEF Sent, Ready
<1>2. j # 0 /\ j \in Jobs /\ worker.rest \subseteq Users /\ r \in worker.rest /\ r \in Users
  BY <1>1, Places
<1>3. worker'.job = j /\ worker'.rest = worker.rest /\ worker'.outcome = outcome
  BY <1>1 DEF IInv, TypeOK
<1>4. Recipient' = r /\ Jobs' = Jobs /\ Pending = worker.rest /\ Pending' = worker.rest \ {r}
  BY <1>1, <1>3 DEF Recipient, Jobs, Pending
<1>5. /\ tried' \in [Jobs -> SUBSET Users] /\ tried'[j] = tried[j] \cup {r}
      /\ \A i \in Jobs : i # j => tried'[i] = tried[i]
  BY <1>1, <1>2 DEF IInv, Histories
<1>6. /\ got' \in [Jobs -> [Users -> Nat]]
      /\ \A i \in Jobs, u \in Users : got[i][u] > 0 => got'[i][u] > 0
      /\ outcome = "delivered" => got'[j][r] > 0
  <2>1. got \in [Jobs -> [Users -> Nat]]
    BY DEF IInv, Histories
  <2>2. CASE got' = got /\ outcome # "delivered"
    BY <2>1, <2>2
  <2>3. CASE got' = [got EXCEPT ![j][r] = @ + 1]
    <3>1. got' \in [Jobs -> [Users -> Nat]]
      BY <1>2, <2>1, <2>3
    <3>2. got'[j][r] = got[j][r] + 1 /\ got[j][r] \in Nat
      BY <1>2, <2>1, <2>3
    <3>3. \A i \in Jobs, u \in Users : (i = j /\ u = r) \/ got'[i][u] = got[i][u]
      BY <1>2, <2>1, <2>3
    <3> QED
      BY <3>1, <3>2, <3>3
  <2> QED
    BY <2>2, <2>3 DEF Sent
<1>7. /\ late' \in [Users -> Nat] /\ \A u \in Users : u # r => late'[u] = late[u]
      /\ late'[r] <= 1 /\ (r \in subscribed => late'[r] = 0)
  <2>1. late \in [Users -> Nat] /\ late[r] = 0
    BY <1>2, <1>4 DEF IInv, Histories, LeftAlone
  <2> QED
    BY <1>2, <2>1 DEF Sent
<1>8. /\ news' \in [Users -> {"none", "sale", "no sale"}]
      /\ jobs[j].kind = "message" => news' = news
      /\ jobs[j].kind # "message" => news'[r] = jobs[j].kind /\ \A u \in Users : u # r => news'[u] = news[u]
  <2>1. news \in [Users -> {"none", "sale", "no sale"}] /\ jobs[j].kind \in {"message", "sale", "no sale"}
    BY <1>2, Places DEF IInv, Histories, JobRows
  <2>2. news' = IF jobs[j].kind = "message" THEN news ELSE [news EXCEPT ![r] = jobs[j].kind]
    BY DEF Sent
  <2> QED
    BY <1>2, <2>1, <2>2
<1> HIDE DEF j, r
<1>9. TypeOK'
  BY <1>1, <1>2, <1>3, <1>4 DEF IInv, TypeOK, j
<1>10. Histories'
  BY <1>1, <1>2, <1>3, <1>4, <1>5, <1>6, <1>7, <1>8 DEF IInv, Histories
<1>11. LeftAlone'
  <2>1. \A u \in Users : u # r => late'[u] <= 1 /\ (u \in subscribed \cup Pending' => late'[u] = 0)
    BY <1>4, <1>7 DEF IInv, LeftAlone
  <2> QED
    BY <1>1, <1>4, <1>7, <2>1 DEF LeftAlone
<1>12. InTurn'
  <2>1. ASSUME NEW i \in Jobs, NEW k \in Jobs, i < k, jobs[i].open PROVE jobs[k].open /\ tried'[k] = {}
    <3>1. k # j
      BY <1>2, <2>1 DEF IInv, InTurn, j
    <3> QED
      BY <1>5, <2>1, <3>1 DEF IInv, InTurn
  <2>2. jobs[j].open /\ \A i \in Jobs : i < j => ~jobs[i].open
    BY <1>2 DEF IInv, InTurn, j
  <2> QED
    BY <1>1, <1>3, <1>4, <2>1, <2>2 DEF InTurn
<1>13. SteadyReached'
  <2>1. \A i \in Jobs : tried[i] \subseteq tried'[i]
    BY <1>5
  <2> QED
    BY <1>1, <1>4, <2>1 DEF IInv, SteadyReached, Wanting
<1>14. BatchAhead'
  BY <1>1, <1>2, <1>3, <1>4, <1>5, <1>6 DEF IInv, BatchAhead, j
<1>15. CountsTrue'
  <2> SUFFICES ASSUME NEW i \in Jobs
               PROVE  /\ jobs[i].delivered <= Cardinality(Reached(i)')
                      /\ jobs[i].delivered + jobs[i].refused + jobs[i].errors <= Cardinality(Passed(i)')
    BY <1>1, <1>4 DEF CountsTrue
  <2>1. Reached(i) \subseteq Reached(i)' /\ Reached(i)' \in SUBSET Users
    BY <1>1, <1>6 DEF Reached
  <2>2. Passed(i) \subseteq Passed(i)' /\ Passed(i)' \in SUBSET Users
    BY <1>1, <1>5 DEF Passed
  <2> DEFINE r1 == Cardinality(Reached(i))
             r2 == Cardinality(Reached(i)')
             p1 == Cardinality(Passed(i))
             p2 == Cardinality(Passed(i)')
  <2>3. r1 \in Nat /\ r2 \in Nat /\ r1 <= r2
    BY <2>1, Counting
  <2>4. p1 \in Nat /\ p2 \in Nat /\ p1 <= p2
    BY <2>2, Counting
  <2>5. jobs[i].delivered <= r1 /\ jobs[i].delivered + jobs[i].refused + jobs[i].errors <= p1
    BY DEF IInv, CountsTrue
  <2>6. jobs[i].delivered \in Nat /\ jobs[i].refused \in Nat /\ jobs[i].errors \in Nat
    BY Places DEF JobRows
  <2> HIDE DEF r1, r2, p1, p2
  <2>7. jobs[i].delivered <= r2 /\ jobs[i].delivered + jobs[i].refused + jobs[i].errors <= p2
    BY <2>3, <2>4, <2>5, <2>6
  <2> QED
    BY <2>7 DEF r2, p2
<1>16. NewsInOrder'
  <2>1. SaleJobs' = SaleJobs /\ SaleJobs \subseteq Jobs
    BY <1>1, <1>4 DEF SaleJobs
  <2>2. ASSUME NEW u \in Users PROVE NewsOf(u)'
    <3>1. NewsOf(u)
      BY DEF IInv, NewsInOrder
    <3>2. CASE j \in SaleJobs /\ u = r
      <4>1. u \in tried'[j] /\ news'[u] = jobs'[j].kind
        BY <1>1, <1>5, <1>8, <3>2 DEF SaleJobs
      <4>2. \A i \in SaleJobs : i > j => u \notin tried'[i]
        <5>1. jobs[j].open
          BY <1>2 DEF IInv, InTurn, j
        <5>2. ASSUME NEW i \in SaleJobs, i > j PROVE i # j /\ tried[i] = {}
          <6>1. i \in Nat /\ j \in Nat /\ i \in Jobs
            BY <1>2, <2>1, Places
          <6>2. j < i
            BY <5>2, <6>1
          <6> QED
            BY <1>2, <5>1, <6>1, <6>2 DEF IInv, InTurn
        <5> QED
          BY <1>5, <2>1, <5>2
      <4> QED
        BY <2>1, <3>2, <4>1, <4>2 DEF NewsOf
    <3>3. CASE ~(j \in SaleJobs /\ u = r)
      <4>1. news'[u] = news[u]
        BY <1>2, <1>8, <3>3 DEF SaleJobs
      <4>2. \A i \in SaleJobs : u \in tried'[i] <=> u \in tried[i]
        BY <1>5, <2>1, <3>3
      <4> QED
        BY <1>1, <2>1, <3>1, <4>1, <4>2 DEF NewsOf
    <3> QED
      BY <3>2, <3>3
  <2>3. \A i \in SaleJobs : (\A k \in SaleJobs : k <= i) => jobs[i].kind = IF sale THEN "sale" ELSE "no sale"
    BY DEF IInv, NewsInOrder
  <2> QED
    BY <1>1, <2>1, <2>2, <2>3 DEF NewsInOrder
<1> QED
  BY <1>9, <1>10, <1>11, <1>12, <1>13, <1>14, <1>15, <1>16 DEF IInv

LEMMA MessageKeeps ==
  ASSUME IInv, Deliver \/ LoseAnswer \/ LoseMessage \/ Refuse
  PROVE  IInv'
<1>1. CASE Deliver
  <2>1. Sent("delivered")
    BY <1>1 DEF Deliver, Message, Sent, people
  <2> QED
    BY <2>1, SentKeeps
<1>2. CASE LoseAnswer \/ LoseMessage
  <2>1. Sent("error")
    BY <1>2 DEF LoseAnswer, LoseMessage, Message, Sent, people
  <2> QED
    BY <2>1, SentKeeps
<1>3. CASE Refuse
  <2>1. Sent("refused")
    BY <1>3 DEF Refuse, Message, Sent, people
  <2> QED
    BY <2>1, SentKeeps
<1> QED
  BY <1>1, <1>2, <1>3

\* The rest of the batch is given up; what is stored stays.
LEMMA StopKeeps ==
  ASSUME IInv, Throttle \/ SaveBreaks \/ Fail
  PROVE  IInv'
<1>1. /\ worker' = Idle /\ draft' \in {"none", "written", "confirmed", "queued"}
      /\ UNCHANGED <<member, subscribed, blocked, denied, barred, sale, jobs, got, steady, tried, late, news>>
  BY DEF Throttle, SaveBreaks, Fail, people, history, IInv, TypeOK
<1>2. worker'.job = 0 /\ worker'.rest = {} /\ worker'.outcome = "none" /\ Pending' = {}
  BY <1>1 DEF Idle, Pending
<1>3. TypeOK'
  <2>1. worker' \in [job : Nat, rest : SUBSET Users, outcome : {"none", "delivered", "refused", "error"}]
    BY <1>1 DEF Idle
  <2> QED
    BY <1>1, <1>2, <2>1 DEF IInv, TypeOK, Jobs
<1>4. Histories' /\ LeftAlone' /\ InTurn'
  BY <1>1, <1>2 DEF IInv, Histories, LeftAlone, InTurn, Jobs
<1>5. SteadyReached' /\ BatchAhead'
  BY <1>1, <1>2 DEF IInv, SteadyReached, BatchAhead, Wanting, Jobs
<1>6. CountsTrue' /\ NewsInOrder'
  BY <1>1 DEF IInv, CountsTrue, Reached, Passed, NewsInOrder, NewsOf, SaleJobs, Jobs
<1> QED
  BY <1>3, <1>4, <1>5, <1>6 DEF IInv

\* What Save makes of the row of the broadcast.
Saved(job, outcome, r) == [Counted(job, outcome) EXCEPT !.cursor = r]

LEMMA SavedIs ==
  ASSUME NEW job \in JobRows, NEW outcome \in {"delivered", "refused", "error"}, NEW r \in Users
  PROVE  \A row : row = Saved(job, outcome, r) =>
         /\ row \in JobRows /\ row.kind = job.kind /\ row.open = job.open /\ row.audience = job.audience
         /\ row.cursor = r
         /\ row.delivered + row.refused + row.errors = job.delivered + job.refused + job.errors + 1
         /\ row.delivered = job.delivered \/ (outcome = "delivered" /\ row.delivered = job.delivered + 1)
<1> DEFINE row == Saved(job, outcome, r)
           mid == Counted(job, outcome)
<1>1. job.delivered \in Nat /\ job.refused \in Nat /\ job.errors \in Nat
  BY DEF JobRows
<1>2. mid = IF outcome = "delivered" THEN [job EXCEPT !.delivered = @ + 1]
            ELSE IF outcome = "refused" THEN [job EXCEPT !.refused = @ + 1] ELSE [job EXCEPT !.errors = @ + 1]
  BY DEF Counted
<1>3. /\ mid \in JobRows /\ mid.kind = job.kind /\ mid.open = job.open /\ mid.audience = job.audience
      /\ mid.delivered + mid.refused + mid.errors = job.delivered + job.refused + job.errors + 1
      /\ mid.delivered = job.delivered \/ (outcome = "delivered" /\ mid.delivered = job.delivered + 1)
  <2> HIDE DEF mid
  <2>1. CASE outcome = "delivered"
    <3> DEFINE c == job.delivered + 1
    <3>0. c \in Nat
      BY <1>1
    <3>1. mid = [job EXCEPT !.delivered = c]
      BY <1>2, <2>1
    <3>2. /\ mid \in JobRows /\ mid.kind = job.kind /\ mid.open = job.open /\ mid.audience = job.audience
          /\ mid.delivered = c /\ mid.refused = job.refused /\ mid.errors = job.errors
      <4> HIDE DEF c
      <4> QED
        BY <3>0, <3>1 DEF JobRows
    <3> QED
      BY <1>1, <2>1, <3>2
  <2>2. CASE outcome = "refused"
    <3> DEFINE c == job.refused + 1
    <3>0. c \in Nat
      BY <1>1
    <3>1. mid = [job EXCEPT !.refused = c]
      BY <1>2, <2>2
    <3>2. /\ mid \in JobRows /\ mid.kind = job.kind /\ mid.open = job.open /\ mid.audience = job.audience
          /\ mid.delivered = job.delivered /\ mid.refused = c /\ mid.errors = job.errors
      <4> HIDE DEF c
      <4> QED
        BY <3>0, <3>1 DEF JobRows
    <3> QED
      BY <1>1, <3>2
  <2>3. CASE outcome = "error"
    <3> DEFINE c == job.errors + 1
    <3>0. c \in Nat
      BY <1>1
    <3>1. mid = [job EXCEPT !.errors = c]
      BY <1>2, <2>3
    <3>2. /\ mid \in JobRows /\ mid.kind = job.kind /\ mid.open = job.open /\ mid.audience = job.audience
          /\ mid.delivered = job.delivered /\ mid.refused = job.refused /\ mid.errors = c
      <4> HIDE DEF c
      <4> QED
        BY <3>0, <3>1 DEF JobRows
    <3> QED
      BY <1>1, <3>2
  <2> QED
    BY <2>1, <2>2, <2>3
<1>4. row = [mid EXCEPT !.cursor = r]
  BY DEF Saved
<1> HIDE DEF row, mid
<1>5. /\ row \in JobRows /\ row.kind = mid.kind /\ row.open = mid.open /\ row.audience = mid.audience
      /\ row.cursor = r
      /\ row.delivered = mid.delivered /\ row.refused = mid.refused /\ row.errors = mid.errors
  BY <1>3, <1>4 DEF JobRows
<1>6. /\ row \in JobRows /\ row.kind = job.kind /\ row.open = job.open /\ row.audience = job.audience
      /\ row.cursor = r
      /\ row.delivered + row.refused + row.errors = job.delivered + job.refused + job.errors + 1
      /\ row.delivered = job.delivered \/ (outcome = "delivered" /\ row.delivered = job.delivered + 1)
  BY <1>3, <1>5
<1>7. row = Saved(job, outcome, r)
  BY DEF row
<1> QED
  BY <1>6, <1>7

\* The progress passes one user, who is counted once.
LEMMA SaveKeeps ==
  ASSUME IInv, Save
  PROVE  IInv'
<1> DEFINE j == worker.job
           r == Recipient
           o == worker.outcome
           row == Saved(jobs[j], o, r)
<1>1. /\ o # "none" /\ (o = "refused" => r \in member)
      /\ jobs' = [jobs EXCEPT ![j] = row]
      /\ blocked' = IF o = "refused" THEN blocked \cup {r} ELSE blocked
      /\ steady' = IF o = "refused" THEN [k \in Jobs |-> steady[k] \ {r}] ELSE steady
      /\ worker' = Rest
      /\ UNCHANGED <<member, subscribed, denied, barred, sale, draft, got, tried, late, news>>
  BY DEF Save, Saved
<1>2. /\ j # 0 /\ j \in Jobs /\ worker.rest \subseteq Users /\ r \in worker.rest /\ r \in Users
      /\ \A v \in worker.rest : r <= v
  BY <1>1, Places
<1>3. o \in {"delivered", "refused", "error"}
  BY <1>1 DEF IInv, TypeOK
<1>4. /\ row \in JobRows /\ row.kind = jobs[j].kind /\ row.open = jobs[j].open /\ row.audience = jobs[j].audience
      /\ row.cursor = r
      /\ row.delivered + row.refused + row.errors = jobs[j].delivered + jobs[j].refused + jobs[j].errors + 1
      /\ row.delivered = jobs[j].delivered \/ (o = "delivered" /\ row.delivered = jobs[j].delivered + 1)
  <2>1. jobs[j] \in JobRows
    BY <1>2, Places
  <2>2. row = Saved(jobs[j], o, r)
    OBVIOUS
  <2> HIDE DEF j, r, o, row
  <2> QED
    BY <1>2, <1>3, <2>1, <2>2, SavedIs
<1> HIDE DEF row
<1>5. /\ jobs' \in [Jobs -> JobRows] /\ jobs'[j] = row /\ \A i \in Jobs : i # j => jobs'[i] = jobs[i]
  BY <1>1, <1>2, <1>4, Places
<1>6. jobs' \in Seq(JobRows) /\ Len(jobs') = Len(jobs) /\ Jobs' = Jobs
  <2>1. Len(jobs) \in Nat /\ jobs' \in [1..Len(jobs) -> JobRows]
    BY <1>5, Places
  <2>2. jobs' \in Seq(JobRows) /\ Len(jobs') = Len(jobs)
    BY <2>1, FunctionIsSeq
  <2> QED
    BY <2>2 DEF Jobs
<1>7. \A i \in Jobs : /\ jobs'[i].kind = jobs[i].kind /\ jobs'[i].open = jobs[i].open
                      /\ jobs'[i].audience = jobs[i].audience
  BY <1>4, <1>5
<1>8. /\ worker' \in [job : Nat, rest : SUBSET Users, outcome : {"none", "delivered", "refused", "error"}]
      /\ worker'.rest = worker.rest \ {r} /\ worker'.outcome = "none"
      /\ worker'.job = IF worker.rest = {r} THEN 0 ELSE j
  <2>1. worker \in [job : Nat, rest : SUBSET Users, outcome : {"none", "delivered", "refused", "error"}]
    BY DEF IInv, TypeOK
  <2>2. CASE worker.rest = {r}
    BY <1>1, <2>1, <2>2 DEF Rest, Idle
  <2>3. CASE worker.rest # {r}
    <3>1. worker' = [worker EXCEPT !.rest = @ \ {r}, !.outcome = "none"]
      BY <1>1, <2>3 DEF Rest
    <3> QED
      BY <2>1, <2>3, <3>1
  <2> QED
    BY <2>2, <2>3
<1>9. Pending' = worker.rest \ {r} /\ Pending = worker.rest \ {r}
  BY <1>1, <1>8 DEF Pending
<1>10. /\ steady' \in [Jobs -> SUBSET Users]
       /\ \A i \in Jobs : steady'[i] \subseteq steady[i]
       /\ \A i \in Jobs : steady'[i] \subseteq jobs[i].audience \cap (subscribed \ blocked')
  BY <1>1, SameJobs
<1>t. r \in tried[j] /\ (o = "delivered" => got[j][r] > 0) /\ jobs[j].cursor < r
  BY <1>1, <1>2 DEF IInv, BatchAhead
<1>c. \A i \in Jobs : jobs[i].cursor \in Nat
  <2>1. \A i \in Jobs : jobs[i].cursor \in Users \cup {0}
    BY Places DEF JobRows
  <2>2. Users \cup {0} \subseteq Nat
    BY NoUser
  <2> QED
    BY <2>1, <2>2
<1> HIDE DEF j, r, o
<1>11. TypeOK'
  <2>1. worker'.job = 0 <=> worker'.rest = {}
    BY <1>2, <1>8
  <2>2. worker'.job \in Jobs' \cup {0}
    BY <1>2, <1>6, <1>8
  <2>3. blocked' \subseteq member
    BY <1>1 DEF IInv, TypeOK
  <2> QED
    BY <1>1, <1>6, <1>8, <2>1, <2>2, <2>3 DEF IInv, TypeOK
<1>12. Histories'
  BY <1>1, <1>6, <1>8, <1>10 DEF IInv, Histories
<1>13. LeftAlone'
  BY <1>1, <1>9 DEF IInv, LeftAlone
<1>14. InTurn'
  <2>1. \A i, k \in Jobs : i < k /\ jobs'[i].open => jobs'[k].open /\ tried[k] = {}
    BY <1>7 DEF IInv, InTurn
  <2>2. jobs'[j].open /\ \A i \in Jobs : i < j => ~jobs'[i].open
    BY <1>2, <1>7 DEF IInv, InTurn, j
  <2> QED
    BY <1>1, <1>6, <1>8, <2>1, <2>2 DEF InTurn
<1>15. SteadyReached'
  <2>1. ASSUME NEW i \in Jobs, NEW u \in steady'[i], u <= jobs'[i].cursor \/ ~jobs'[i].open PROVE u \in tried[i]
    <3>1. u \in steady[i] /\ u \in Users /\ u \in Nat /\ r \in Nat
      <4>1. u \in steady[i] /\ steady[i] \subseteq Users
        BY <1>10, <2>1, SameJobs
      <4> QED
        BY <1>2, <4>1, NoUser
    <3>2. CASE i = j /\ jobs[i].open
      <4>1. u <= r
        BY <1>4, <1>5, <1>7, <2>1, <3>2
      <4>2. CASE u <= jobs[j].cursor
        BY <1>2, <3>1, <3>2, <4>2 DEF IInv, SteadyReached
      <4>3. CASE ~(u <= jobs[j].cursor)
        <5>1. jobs[j].cursor < u
          BY <1>2, <1>c, <3>1, <4>3
        <5>2. u < r => u \in worker.rest
          BY <1>2, <3>1, <3>2, <5>1 DEF IInv, BatchAhead, j
        <5>3. u = r
          BY <1>2, <3>1, <4>1, <5>2
        <5> QED
          BY <1>t, <3>2, <5>3
      <4> QED
        BY <4>2, <4>3
    <3>3. CASE i # j \/ ~jobs[i].open
      BY <1>5, <1>7, <2>1, <3>1, <3>3 DEF IInv, SteadyReached
    <3> QED
      BY <3>2, <3>3
  <2>2. \A i \in Jobs : steady'[i] \subseteq jobs'[i].audience \cap Wanting'
    BY <1>1, <1>7, <1>10 DEF Wanting
  <2> QED
    BY <1>1, <1>6, <2>1, <2>2 DEF SteadyReached
<1>16. BatchAhead'
  <2> SUFFICES ASSUME worker'.job # 0
               PROVE  /\ \A v \in worker'.rest : jobs'[j].cursor < v
                      /\ \A u \in steady'[j], v \in worker'.rest : jobs'[j].cursor < u /\ u < v => u \in worker'.rest
    BY <1>8 DEF BatchAhead
  <2>1. jobs'[j].cursor = r /\ r \in Nat /\ jobs[j].cursor \in Nat
    BY <1>2, <1>4, <1>5, <1>c, NoUser
  <2>2. ASSUME NEW v \in worker'.rest PROVE r < v /\ v \in worker.rest /\ v \in Nat
    <3>1. v \in worker.rest /\ v # r /\ v \in Users
      BY <1>2, <1>8
    <3>2. v \in Nat /\ r <= v
      BY <1>2, <3>1, NoUser
    <3> QED
      BY <2>1, <3>1, <3>2
  <2>3. ASSUME NEW u \in steady'[j], NEW v \in worker'.rest, r < u, u < v PROVE u \in worker'.rest
    <3>1. u \in steady[j] /\ u \in Nat
      <4>1. u \in steady[j] /\ steady[j] \subseteq Users
        BY <1>2, <1>10, <2>3, SameJobs
      <4> QED
        BY <4>1, NoUser
    <3>2. jobs[j].cursor < u /\ u # r
      BY <1>t, <2>1, <2>3, <3>1
    <3>3. u \in worker.rest
      BY <1>2, <2>2, <2>3, <3>1, <3>2 DEF IInv, BatchAhead, j
    <3> QED
      BY <1>8, <3>2, <3>3
  <2> QED
    BY <2>1, <2>2, <2>3
<1>17. CountsTrue'
  <2> SUFFICES ASSUME NEW i \in Jobs
               PROVE  /\ jobs'[i].delivered <= Cardinality(Reached(i)')
                      /\ jobs'[i].delivered + jobs'[i].refused + jobs'[i].errors <= Cardinality(Passed(i)')
    BY <1>6 DEF CountsTrue
  <2>1. /\ jobs[i].delivered <= Cardinality(Reached(i))
        /\ jobs[i].delivered + jobs[i].refused + jobs[i].errors <= Cardinality(Passed(i))
    BY DEF IInv, CountsTrue
  <2>2. CASE i # j
    <3>1. Reached(i)' = Reached(i) /\ Passed(i)' = Passed(i)
      BY <1>1, <1>5, <2>2 DEF Reached, Passed
    <3> QED
      BY <1>5, <2>1, <2>2, <3>1
  <2>3. CASE i = j
    <3>1. jobs'[i].cursor = r /\ r \in Nat /\ jobs[i].cursor \in Nat /\ jobs[i].cursor < r
      BY <1>2, <1>4, <1>5, <1>c, <1>t, <2>3, NoUser
    <3>2. \A u \in Users : u <= jobs[i].cursor => u <= r /\ u # r
      <4>1. \A u \in Users : u \in Nat
        BY NoUser
      <4> QED
        BY <3>1, <4>1
    <3>3. r <= r
      BY <3>1
    <3>4. tried[i] \subseteq Users
      BY DEF IInv, Histories
    <3>5. Passed(i)' \in SUBSET Users /\ r \in Passed(i)' /\ Passed(i) \in SUBSET (Passed(i)' \ {r})
      BY <1>1, <1>t, <2>3, <3>1, <3>2, <3>3, <3>4 DEF Passed
    <3>6. Reached(i)' \in SUBSET Users /\ Reached(i) \in SUBSET Reached(i)'
      BY <1>1, <3>1, <3>2 DEF Reached
    <3>7. o = "delivered" => r \in Reached(i)' /\ Reached(i) \in SUBSET (Reached(i)' \ {r})
      BY <1>1, <1>2, <1>t, <2>3, <3>1, <3>2, <3>3 DEF Reached
    <3> DEFINE r1 == Cardinality(Reached(i))
               r2 == Cardinality(Reached(i)')
               p1 == Cardinality(Passed(i))
               p2 == Cardinality(Passed(i)')
    <3>8. p1 \in Nat /\ p2 \in Nat /\ p1 + 1 <= p2
      BY <3>5, Counting
    <3>9. r1 \in Nat /\ r2 \in Nat /\ r1 <= r2 /\ (o = "delivered" => r1 + 1 <= r2)
      BY <3>6, <3>7, Counting
    <3>10. jobs[i].delivered \in Nat /\ jobs[i].refused \in Nat /\ jobs[i].errors \in Nat
      BY Places DEF JobRows
    <3>11. jobs[i].delivered <= r1 /\ jobs[i].delivered + jobs[i].refused + jobs[i].errors <= p1
      BY <2>1
    <3> HIDE DEF r1, r2, p1, p2
    <3>12. row.delivered <= r2
      BY <1>4, <2>3, <3>9, <3>10, <3>11
    <3>13. row.delivered + row.refused + row.errors <= p2
      BY <1>4, <2>3, <3>8, <3>10, <3>11
    <3> QED
      BY <1>5, <2>3, <3>12, <3>13 DEF r2, p2
  <2> QED
    BY <2>2, <2>3
<1>18. NewsInOrder'
  <2>1. SaleJobs' = SaleJobs /\ \A i \in SaleJobs : jobs'[i].kind = jobs[i].kind
    BY <1>6, <1>7 DEF SaleJobs
  <2>2. ASSUME NEW u \in Users PROVE NewsOf(u)'
    <3>1. NewsOf(u)
      BY DEF IInv, NewsInOrder
    <3> QED
      BY <1>1, <2>1, <3>1 DEF NewsOf
  <2>3. \A i \in SaleJobs : (\A k \in SaleJobs : k <= i) => jobs'[i].kind = IF sale THEN "sale" ELSE "no sale"
    BY <2>1 DEF IInv, NewsInOrder
  <2> QED
    BY <1>1, <2>1, <2>2, <2>3 DEF NewsInOrder
<1> QED
  BY <1>11, <1>12, <1>13, <1>14, <1>15, <1>16, <1>17, <1>18 DEF IInv

(***************************************************************************)
(* The invariant, and what follows from it.                                *)
(***************************************************************************)
LEMMA InitHolds == Init => IInv
<1> SUFFICES ASSUME Init PROVE IInv
  OBVIOUS
<1>1. /\ jobs = <<>> /\ got = <<>> /\ steady = <<>> /\ tried = <<>> /\ worker = Idle
      /\ late = [u \in Users |-> 0] /\ news = [u \in Users |-> "none"]
  BY DEF Init
<1>2. Len(jobs) = 0 /\ Jobs = {} /\ SaleJobs = {}
  BY <1>1 DEF Jobs, SaleJobs
<1>3. TypeOK
  <2>1. /\ member \subseteq Users /\ subscribed \subseteq member
        /\ blocked = {} /\ denied = {} /\ barred = {} /\ draft = "none"
    BY DEF Init
  <2>2. sale \in BOOLEAN
    BY DEF Init
  <2>3. jobs \in Seq(JobRows)
    BY <1>1
  <2>4. worker \in [job : Nat, rest : SUBSET Users, outcome : {"none", "delivered", "refused", "error"}]
    BY <1>1 DEF Idle
  <2>5. worker.job = 0 /\ worker.rest = {}
    BY <1>1 DEF Idle
  <2> QED
    BY <2>1, <2>2, <2>3, <2>4, <2>5 DEF TypeOK
<1>4. Histories
  BY <1>1, <1>2 DEF Histories, Idle
<1>5. LeftAlone /\ InTurn /\ SteadyReached /\ BatchAhead /\ CountsTrue
  BY <1>1, <1>2 DEF LeftAlone, InTurn, SteadyReached, BatchAhead, CountsTrue, Idle
<1>6. NewsInOrder
  BY <1>1, <1>2 DEF NewsInOrder, NewsOf
<1> QED
  BY <1>3, <1>4, <1>5, <1>6 DEF IInv

LEMMA NextKeeps == IInv /\ [Next]_vars => IInv'
<1> SUFFICES ASSUME IInv, [Next]_vars PROVE IInv'
  OBVIOUS
<1>1. CASE UNCHANGED vars
  <2>1. UNCHANGED <<member, subscribed, blocked, denied, barred, sale, draft, jobs, worker, got, steady, tried, late, news>>
    BY <1>1 DEF vars, people, history
  <2>2. TypeOK' /\ Histories' /\ LeftAlone' /\ InTurn'
    BY <2>1 DEF IInv, TypeOK, Histories, LeftAlone, Pending, Recipient, InTurn, Jobs
  <2>3. SteadyReached' /\ BatchAhead'
    BY <2>1 DEF IInv, SteadyReached, BatchAhead, Wanting, Recipient, Jobs
  <2>4. CountsTrue' /\ NewsInOrder'
    BY <2>1 DEF IInv, CountsTrue, Reached, Passed, NewsInOrder, NewsOf, SaleJobs, Jobs
  <2> QED
    BY <2>2, <2>3, <2>4 DEF IInv
<1>2. CASE Compose \/ Confirm \/ ClearDraft
  BY <1>2, DraftKeeps
<1>3. CASE SendDraft \/ SaleToggle
  BY <1>3, BroadcastKeeps
<1>4. CASE \E u \in Users : UserBlock(u) \/ UserDelete(u) \/ Bar(u) \/ Write(u) \/ Subscribe(u) \/ Leave(u)
  BY <1>4, UsersKeep
<1>5. CASE Load
  BY <1>5, LoadKeeps
<1>6. CASE Complete
  BY <1>6, CompleteKeeps
<1>7. CASE Deliver \/ LoseAnswer \/ LoseMessage \/ Refuse
  BY <1>7, MessageKeeps
<1>8. CASE Throttle \/ SaveBreaks \/ Fail
  BY <1>8, StopKeeps
<1>9. CASE Save
  BY <1>9, SaveKeeps
<1> QED
  BY <1>1, <1>2, <1>3, <1>4, <1>5, <1>6, <1>7, <1>8, <1>9 DEF Next

LEMMA Invariance == Spec => []IInv
BY InitHolds, NextKeeps, PTL DEF Spec

\* Every state has the types of the model: users with a flag have a row, and the
\* batch is of one broadcast (app/worker.py:181).
THEOREM TypeCorrect == Spec => []TypeOK
<1>1. IInv => TypeOK
  BY DEF IInv
<1> QED
  BY <1>1, Invariance, PTL

\* Who has left the newsletter gets one message more at the most, for any users
\* and any batch: the one of the batch that was read before (app/worker.py:197).
THEOREM AfterLeaving == Spec => []OneAfterLeaving
<1>1. IInv => OneAfterLeaving
  BY DEF IInv, LeftAlone, OneAfterLeaving
<1> QED
  BY <1>1, Invariance, PTL

\* A completed broadcast has tried everybody who wanted it all the time, and its
\* summary counts nobody twice (app/worker.py:190, 239).
THEOREM CompletedTrue == Spec => []CompletedIsTrue
BY CompletedFollows, Invariance, PTL

\* The last news of the sale that reach a user who wanted all of it are true,
\* however often the switch was pressed (app/admin.py:937).
THEOREM NewsTrue == Spec => []LastNewsTrue
BY NewsFollow, Invariance, PTL

(***************************************************************************)
(* Repeats.                                                                *)
(***************************************************************************)
\* A message of the batch that may have arrived and is not stored yet.
Sending(j, u) == j = worker.job /\ u = Recipient /\ worker.outcome \in {"delivered", "error"}

\* A user who has got a message the progress knows nothing of will get another.
Owed(j, u) == got[j][u] > 0 /\ jobs[j].cursor < u /\ ~Sending(j, u)

\* The repeats there have been and the ones to come: message t[3] of broadcast
\* t[1] to user t[2].
AtRisk == {t \in Jobs \X Users \X Nat :
             1 < t[3] /\ t[3] <= got[t[1]][t[2]] + (IF Owed(t[1], t[2]) THEN 1 ELSE 0)}

RepeatInv == failures \in Nat /\ IsFiniteSet(AtRisk) /\ Cardinality(AtRisk) <= failures

LEMMA RepeatsFollow == IInv /\ RepeatInv => RepeatsNeedFailure
<1> SUFFICES ASSUME IInv, RepeatInv PROVE RepeatsNeedFailure
  OBVIOUS
<1>1. Repeats \subseteq AtRisk
  <2> SUFFICES ASSUME NEW j \in Jobs, NEW u \in Users, NEW k \in 2..got[j][u]
               PROVE  <<j, u, k>> \in AtRisk
    BY DEF Repeats
  <2>1. got[j][u] \in Nat
    BY DEF IInv, Histories
  <2>2. k \in Nat /\ 1 < k /\ k <= got[j][u]
    BY <2>1
  <2> QED
    BY <2>1, <2>2 DEF AtRisk
<1>2. Cardinality(Repeats) <= Cardinality(AtRisk) /\ Cardinality(Repeats) \in Nat /\ Cardinality(AtRisk) \in Nat
  BY <1>1, FS_Subset, FS_CardinalityType DEF RepeatInv
<1> DEFINE few == Cardinality(Repeats)
           many == Cardinality(AtRisk)
<1>3. few \in Nat /\ many \in Nat /\ few <= many /\ failures \in Nat /\ many <= failures
  BY <1>2 DEF RepeatInv
<1> HIDE DEF many
<1>4. few <= failures
  <2> HIDE DEF few
  <2> QED
    BY <1>3
<1> QED
  BY <1>4 DEF RepeatsNeedFailure

\* Nothing new is at risk, or one message more, with a failure more.
LEMMA RiskKept ==
  ASSUME RepeatInv, AtRisk' \subseteq AtRisk, failures' = failures
  PROVE  RepeatInv'
<1>1. IsFiniteSet(AtRisk') /\ Cardinality(AtRisk') <= Cardinality(AtRisk)
      /\ Cardinality(AtRisk') \in Nat /\ Cardinality(AtRisk) \in Nat
  BY FS_Subset, FS_CardinalityType DEF RepeatInv
<1> DEFINE few == Cardinality(AtRisk')
           many == Cardinality(AtRisk)
<1>2. few \in Nat /\ many \in Nat /\ few <= many /\ failures \in Nat /\ many <= failures
  BY <1>1 DEF RepeatInv
<1>3. few <= failures
  <2> HIDE DEF few, many
  <2> QED
    BY <1>2
<1> QED
  BY <1>1, <1>2, <1>3 DEF RepeatInv

LEMMA RiskTaken ==
  ASSUME RepeatInv, NEW x, AtRisk' \subseteq AtRisk \cup {x}, failures' = failures + 1
  PROVE  RepeatInv'
<1> DEFINE more == AtRisk \cup {x}
           few == Cardinality(AtRisk')
           many == Cardinality(more)
           before == Cardinality(AtRisk)
<1>1. IsFiniteSet(more) /\ before \in Nat /\ (many = before \/ many = before + 1)
  BY FS_AddElement, FS_CardinalityType DEF RepeatInv
<1>2. IsFiniteSet(AtRisk') /\ few <= many /\ few \in Nat
  <2> HIDE DEF more
  <2> QED
    BY <1>1, FS_Subset, FS_CardinalityType DEF more
<1>3. failures \in Nat /\ before <= failures
  BY DEF RepeatInv
<1>4. failures' \in Nat /\ few <= failures'
  <2> HIDE DEF few, many, before
  <2> QED
    BY <1>1, <1>2, <1>3
<1> QED
  BY <1>2, <1>4 DEF RepeatInv

\* What is at risk, broadcast by broadcast and user by user.
LEMMA RiskOf ==
  ASSUME NEW t
  PROVE  t \in AtRisk' <=>
           /\ t \in Jobs' \X Users \X Nat /\ 1 < t[3]
           /\ t[3] <= got'[t[1]][t[2]] + (IF Owed(t[1], t[2])' THEN 1 ELSE 0)
BY DEF AtRisk

\* What sends nothing and stores no progress, and leaves no message behind.
LEMMA QuietRisk ==
  ASSUME IInv, RepeatInv, Jobs' = Jobs, got' = got, failures' = failures,
         \A j \in Jobs : jobs'[j].cursor = jobs[j].cursor,
         \A j \in Jobs, u \in Users : Sending(j, u) => Sending(j, u)'
  PROVE  RepeatInv'
<1>1. \A j \in Jobs, u \in Users : Owed(j, u)' => Owed(j, u)
  BY DEF Owed
<1>2. \A j \in Jobs, u \in Users : got[j][u] \in Nat
  BY DEF IInv, Histories
<1>3. AtRisk' \subseteq AtRisk
  <2> SUFFICES ASSUME NEW t \in AtRisk' PROVE t \in AtRisk
    OBVIOUS
  <2>1. t \in Jobs \X Users \X Nat /\ 1 < t[3] /\ t[1] \in Jobs /\ t[2] \in Users /\ t[3] \in Nat
    BY RiskOf
  <2>2. t[3] <= got[t[1]][t[2]] + (IF Owed(t[1], t[2])' THEN 1 ELSE 0)
    BY RiskOf
  <2>3. t[3] <= got[t[1]][t[2]] + (IF Owed(t[1], t[2]) THEN 1 ELSE 0)
    BY <1>1, <1>2, <2>1, <2>2
  <2> QED
    BY <2>1, <2>3 DEF AtRisk
<1> QED
  BY <1>3, RiskKept

LEMMA PeopleRisk ==
  ASSUME IInv, RepeatInv, NEW u \in Users,
         UserBlock(u) \/ UserDelete(u) \/ Bar(u) \/ Write(u) \/ Subscribe(u) \/ Leave(u)
  PROVE  RepeatInv'
<1>1. worker' = worker /\ got' = got /\ failures' = failures
  BY DEF UserBlock, UserDelete, Bar, Write, Subscribe, Leave, history
<1>2. Jobs' = Jobs /\ \A j \in Jobs : jobs'[j].cursor = jobs[j].cursor
  <2>1. CASE UserDelete(u)
    <3>1. jobs' = [j \in Jobs |-> [jobs[j] EXCEPT !.audience = @ \ {u}]]
      BY <2>1 DEF UserDelete
    <3>2. \A j \in Jobs : jobs'[j].cursor = jobs[j].cursor /\ jobs'[j] \in JobRows
      BY <3>1, Places DEF JobRows
    <3>3. jobs' \in [1..Len(jobs) -> JobRows] /\ Len(jobs) \in Nat
      BY <3>1, <3>2, Places
    <3>4. Len(jobs') = Len(jobs)
      BY <3>3, FunctionIsSeq
    <3> QED
      BY <3>2, <3>4 DEF Jobs
  <2>2. CASE UNCHANGED jobs
    BY <2>2 DEF Jobs
  <2> QED
    BY <2>1, <2>2 DEF UserBlock, Bar, Write, Subscribe, Leave
<1>3. \A j \in Jobs, v \in Users : Sending(j, v) => Sending(j, v)'
  BY <1>1 DEF Sending, Recipient
<1> QED
  BY <1>1, <1>2, <1>3, QuietRisk

\* A new broadcast has reached nobody.
NewBroadcast(kind) ==
  Queue(kind) /\ kind \in {"message", "sale", "no sale"} /\ UNCHANGED <<worker, failures>>

LEMMA QueueRisk ==
  ASSUME IInv, RepeatInv, NEW kind, NewBroadcast(kind)
  PROVE  RepeatInv'
<1> DEFINE job == [kind |-> kind, open |-> TRUE, audience |-> member, cursor |-> 0,
                   delivered |-> 0, refused |-> 0, errors |-> 0]
           none == [u \in Users |-> 0]
<1>0. PICK n : n = Len(jobs) + 1
  OBVIOUS
<1>1. job \in JobRows
  BY SameJobs DEF JobRows, People, NewBroadcast
<1>2. jobs' = Append(jobs, job) /\ got' = Append(got, none)
  BY DEF Queue, NewBroadcast
<1>3. none \in [Users -> Nat] /\ \A u \in Users : none[u] = 0
  OBVIOUS
<1>4. got \in [1..Len(jobs) -> [Users -> Nat]]
  BY Places DEF IInv, Histories
<1> HIDE DEF job, none
<1>5. Len(jobs) \in Nat /\ Jobs = 1..Len(jobs) /\ jobs \in Seq(JobRows)
  BY Places, SameJobs
<1>6. Len(jobs') = n /\ \A j \in Jobs : jobs'[j] = jobs[j]
  <2>1. /\ jobs' \in Seq(JobRows) /\ Len(jobs') = Len(jobs) + 1 /\ jobs'[Len(jobs) + 1] = job
        /\ \A j \in 1..Len(jobs) : jobs'[j] = jobs[j]
    BY <1>1, <1>2, <1>5, Appended
  <2> QED
    BY <1>0, <1>5, <2>1
<1>7. got'[n] = none /\ \A j \in Jobs : got'[j] = got[j]
  <2> DEFINE T == [Users -> Nat]
  <2>1. got \in Seq(T) /\ Len(got) = Len(jobs) /\ none \in T
    BY <1>3, <1>4, <1>5, FunctionIsSeq
  <2>2. /\ got' \in Seq(T) /\ Len(got') = Len(got) + 1 /\ got'[Len(got) + 1] = none
        /\ \A j \in 1..Len(got) : got'[j] = got[j]
    <3> HIDE DEF T
    <3> QED
      BY <1>2, <2>1, Appended
  <2> QED
    BY <1>0, <1>5, <2>1, <2>2
<1>8. Jobs' = Jobs \cup {n}
  BY <1>0, <1>5, <1>6, OneMore DEF Jobs
<1>9. \A j \in Jobs, u \in Users : Owed(j, u)' <=> Owed(j, u)
  BY <1>6, <1>7 DEF Owed, Sending, Recipient, NewBroadcast
<1>10. \A u \in Users : got'[n][u] = 0
  BY <1>3, <1>7
<1>11. \A u \in Users : ~Owed(n, u)'
  <2> SUFFICES ASSUME NEW u \in Users PROVE ~(got'[n][u] > 0)
    BY DEF Owed
  <2> QED
    BY <1>10
<1>12. AtRisk' \subseteq AtRisk
  <2> SUFFICES ASSUME NEW t \in AtRisk' PROVE t \in AtRisk
    OBVIOUS
  <2>1. /\ t \in Jobs' \X Users \X Nat /\ 1 < t[3] /\ t[1] \in Jobs' /\ t[2] \in Users /\ t[3] \in Nat
        /\ t[3] <= got'[t[1]][t[2]] + (IF Owed(t[1], t[2])' THEN 1 ELSE 0)
    BY RiskOf
  <2>2. t[1] # n
    <3>1. t[1] = n => t[3] <= 0
      <4> SUFFICES ASSUME t[1] = n PROVE t[3] <= 0
        OBVIOUS
      <4>1. got'[t[1]][t[2]] = 0 /\ ~Owed(t[1], t[2])'
        BY <1>10, <1>11, <2>1
      <4> QED
        BY <2>1, <4>1
    <3> QED
      BY <2>1, <3>1
  <2>3. t[1] \in Jobs /\ t \in Jobs \X Users \X Nat
    BY <1>8, <2>1, <2>2
  <2>4. t[3] <= got[t[1]][t[2]] + (IF Owed(t[1], t[2]) THEN 1 ELSE 0)
    <3>1. got'[t[1]] = got[t[1]] /\ (Owed(t[1], t[2])' <=> Owed(t[1], t[2]))
      BY <1>7, <1>9, <2>1, <2>3
    <3> QED
      BY <2>1, <3>1
  <2> QED
    BY <2>1, <2>3, <2>4 DEF AtRisk
<1> QED
  BY <1>12, RiskKept DEF NewBroadcast

\* A message that arrives once more was owed already.
LEMMA MessageRisk ==
  ASSUME IInv, RepeatInv, Deliver \/ LoseAnswer \/ LoseMessage \/ Refuse
  PROVE  RepeatInv'
<1>0. PICK j, r : j = worker.job /\ r = Recipient
  OBVIOUS
<1>1. PICK outcome \in {"delivered", "refused", "error"} :
        /\ Ready /\ worker' = [worker EXCEPT !.outcome = outcome]
        /\ jobs' = jobs /\ failures' = failures
        /\ \/ got' = got /\ outcome # "delivered"
           \/ got' = [got EXCEPT ![j][r] = @ + 1] /\ outcome # "refused"
  BY <1>0 DEF Deliver, LoseAnswer, LoseMessage, Refuse, Message
<1>2. /\ worker.rest # {} /\ worker.outcome = "none"
      /\ j \in Jobs /\ r \in worker.rest /\ r \in Users /\ j # 0
  BY <1>0, <1>1, Places DEF Ready
<1>3. worker'.job = j /\ worker'.rest = worker.rest /\ worker'.outcome = outcome
  BY <1>0, <1>1 DEF IInv, TypeOK
<1>4. Recipient' = r /\ Jobs' = Jobs
  BY <1>0, <1>1, <1>3 DEF Recipient, Jobs
<1>5. jobs[j].cursor < r
  BY <1>0, <1>2 DEF IInv, BatchAhead
<1>6. \A i \in Jobs, u \in Users : ~Sending(i, u)
  BY <1>2 DEF Sending
<1>7. Sending(j, r)' <=> outcome # "refused"
  BY <1>3, <1>4 DEF Sending
<1>8. got \in [Jobs -> [Users -> Nat]]
  BY DEF IInv, Histories
<1>9. ASSUME NEW i \in Jobs, NEW u \in Users, ~(i = j /\ u = r)
      PROVE  got'[i][u] = got[i][u] /\ (Owed(i, u)' => Owed(i, u))
  <2>1. got'[i][u] = got[i][u]
    BY <1>1, <1>2, <1>8, <1>9
  <2> QED
    BY <1>1, <1>6, <2>1 DEF Owed
<1>10. \/ got'[j][r] = got[j][r] /\ (Owed(j, r)' => Owed(j, r))
       \/ got'[j][r] = got[j][r] + 1 /\ ~Owed(j, r)'
  <2>1. CASE got' = got
    <3>1. got'[j][r] = got[j][r] /\ jobs'[j].cursor = jobs[j].cursor /\ ~Sending(j, r)
      BY <1>1, <1>2, <1>6, <2>1
    <3> QED
      BY <3>1 DEF Owed
  <2>2. CASE got' = [got EXCEPT ![j][r] = @ + 1] /\ outcome # "refused"
    <3>1. got'[j][r] = got[j][r] + 1
      BY <1>2, <1>8, <2>2
    <3> QED
      BY <1>7, <2>2, <3>1 DEF Owed
  <2> QED
    BY <1>1, <2>1, <2>2
<1>11. got[j][r] > 0 => Owed(j, r)
  BY <1>2, <1>5, <1>6 DEF Owed
<1>12. AtRisk' \subseteq AtRisk
  <2> SUFFICES ASSUME NEW t \in AtRisk' PROVE t \in AtRisk
    OBVIOUS
  <2>1. /\ t \in Jobs \X Users \X Nat /\ 1 < t[3] /\ t[1] \in Jobs /\ t[2] \in Users /\ t[3] \in Nat
        /\ t[3] <= got'[t[1]][t[2]] + (IF Owed(t[1], t[2])' THEN 1 ELSE 0)
    BY <1>4, RiskOf
  <2>2. got[t[1]][t[2]] \in Nat
    BY <1>8, <2>1
  <2>3. t[3] <= got[t[1]][t[2]] + (IF Owed(t[1], t[2]) THEN 1 ELSE 0)
    <3>1. CASE ~(t[1] = j /\ t[2] = r)
      BY <1>9, <2>1, <2>2, <3>1
    <3>2. CASE t[1] = j /\ t[2] = r
      <4>1. /\ got[j][r] \in Nat /\ t[3] \in Nat /\ 1 < t[3]
            /\ t[3] <= got'[j][r] + (IF Owed(j, r)' THEN 1 ELSE 0)
        BY <2>1, <2>2, <3>2
      <4>2. t[3] <= got[j][r] + (IF Owed(j, r) THEN 1 ELSE 0)
        <5>1. CASE got'[j][r] = got[j][r] /\ (Owed(j, r)' => Owed(j, r))
          BY <4>1, <5>1
        <5>2. CASE got'[j][r] = got[j][r] + 1 /\ ~Owed(j, r)'
          <6>1. got[j][r] > 0
            BY <4>1, <5>2
          <6> QED
            BY <1>11, <4>1, <5>2, <6>1
        <5> QED
          BY <1>10, <5>1, <5>2
      <4> QED
        BY <3>2, <4>2
    <3> QED
      BY <3>1, <3>2
  <2> QED
    BY <2>1, <2>3 DEF AtRisk
<1> QED
  BY <1>1, <1>12, RiskKept

\* The progress passes the user it is stored for, and nobody else.
LEMMA SaveRisk ==
  ASSUME IInv, RepeatInv, Save
  PROVE  RepeatInv'
<1> DEFINE j == worker.job
           r == Recipient
           row == Saved(jobs[j], worker.outcome, r)
<1>1. /\ worker.outcome # "none" /\ worker' = Rest /\ got' = got /\ failures' = failures
      /\ jobs' = [jobs EXCEPT ![j] = row]
  BY DEF Save, Saved
<1>2. j \in Jobs /\ r \in worker.rest /\ r \in Users /\ j # 0
  BY <1>1, Places
<1>3. jobs[j] \in JobRows /\ worker.outcome \in {"delivered", "refused", "error"}
  BY <1>1, <1>2, Places DEF IInv, TypeOK
<1>4. row \in JobRows /\ row.cursor = r
  <2> DEFINE job == jobs[j]
             o == worker.outcome
  <2>1. job \in JobRows /\ o \in {"delivered", "refused", "error"} /\ r \in Users /\ row = Saved(job, o, r)
    BY <1>2, <1>3
  <2> HIDE DEF job, o, r, row
  <2> QED
    BY <2>1, SavedIs
<1> HIDE DEF row
<1>5. /\ jobs' \in [1..Len(jobs) -> JobRows] /\ Len(jobs) \in Nat
      /\ jobs'[j].cursor = r /\ \A i \in Jobs : i # j => jobs'[i] = jobs[i]
  BY <1>1, <1>2, <1>4, Places
<1>6. Jobs' = Jobs
  BY <1>5, FunctionIsSeq DEF Jobs
<1>7. worker'.outcome = "none"
  BY <1>1 DEF Rest, Idle, IInv, TypeOK
<1>8. jobs[j].cursor < r
  BY <1>2 DEF IInv, BatchAhead
<1>9. jobs[j].cursor \in Nat /\ r \in Nat /\ \A u \in Users : u \in Nat
  <2>1. Users \cup {0} \subseteq Nat
    BY NoUser
  <2> QED
    BY <1>2, <1>3, <2>1 DEF JobRows
<1>10. ASSUME NEW i \in Jobs, NEW u \in Users, Owed(i, u)' PROVE Owed(i, u)
  <2>1. got[i][u] > 0 /\ jobs'[i].cursor < u
    BY <1>1, <1>10 DEF Owed
  <2>2. CASE i # j
    BY <1>5, <2>1, <2>2 DEF Owed, Sending
  <2>3. CASE i = j
    <3>1. r < u
      BY <1>5, <2>1, <2>3
    <3>2. jobs[j].cursor < u /\ u # r
      BY <1>8, <1>9, <3>1
    <3> QED
      BY <2>1, <2>3, <3>2 DEF Owed, Sending
  <2> QED
    BY <2>2, <2>3
<1>11. \A i \in Jobs, u \in Users : got[i][u] \in Nat
  BY DEF IInv, Histories
<1>12. AtRisk' \subseteq AtRisk
  <2> SUFFICES ASSUME NEW t \in AtRisk' PROVE t \in AtRisk
    OBVIOUS
  <2>1. /\ t \in Jobs \X Users \X Nat /\ 1 < t[3] /\ t[1] \in Jobs /\ t[2] \in Users /\ t[3] \in Nat
        /\ t[3] <= got[t[1]][t[2]] + (IF Owed(t[1], t[2])' THEN 1 ELSE 0)
    BY <1>1, <1>6, RiskOf
  <2>2. t[3] <= got[t[1]][t[2]] + (IF Owed(t[1], t[2]) THEN 1 ELSE 0)
    BY <1>10, <1>11, <2>1
  <2> QED
    BY <2>1, <2>2 DEF AtRisk
<1> QED
  BY <1>1, <1>12, RiskKept

\* A failure leaves behind one message at the most: the one being sent.
LEMMA FailRisk ==
  ASSUME IInv, RepeatInv, Fail
  PROVE  RepeatInv'
<1> DEFINE j == worker.job
           r == Recipient
           x == <<j, r, got[j][r] + 1>>
<1>1. worker' = Idle /\ got' = got /\ jobs' = jobs /\ failures' = failures + 1 /\ Jobs' = Jobs
  BY DEF Fail, history, Jobs
<1>2. \A i \in Jobs, u \in Users : got[i][u] \in Nat
  BY DEF IInv, Histories
<1>3. ASSUME NEW i \in Jobs, NEW u \in Users, Owed(i, u)', ~(i = j /\ u = r) PROVE Owed(i, u)
  BY <1>1, <1>3 DEF Owed, Sending
<1> HIDE DEF j, r
<1>4. AtRisk' \subseteq AtRisk \cup {x}
  <2> SUFFICES ASSUME NEW t \in AtRisk', t # x PROVE t \in AtRisk
    OBVIOUS
  <2>1. /\ t \in Jobs \X Users \X Nat /\ 1 < t[3] /\ t[1] \in Jobs /\ t[2] \in Users /\ t[3] \in Nat
        /\ t[3] <= got[t[1]][t[2]] + (IF Owed(t[1], t[2])' THEN 1 ELSE 0)
    BY <1>1, RiskOf
  <2>2. got[t[1]][t[2]] \in Nat
    BY <1>2, <2>1
  <2>3. t[3] <= got[t[1]][t[2]] + (IF Owed(t[1], t[2]) THEN 1 ELSE 0)
    <3>1. CASE ~(t[1] = j /\ t[2] = r)
      BY <1>3, <2>1, <2>2, <3>1
    <3>2. CASE t[1] = j /\ t[2] = r
      <4>1. t[3] # got[t[1]][t[2]] + 1
        BY <2>1, <3>2
      <4> QED
        BY <2>1, <2>2, <4>1
    <3> QED
      BY <3>1, <3>2
  <2> QED
    BY <2>1, <2>3 DEF AtRisk
<1> QED
  BY <1>1, <1>4, RiskTaken

LEMMA RepeatStep == IInv /\ RepeatInv /\ [Next]_vars => RepeatInv'
<1> SUFFICES ASSUME IInv, RepeatInv, [Next]_vars PROVE RepeatInv'
  OBVIOUS
<1>1. CASE Compose \/ Confirm \/ ClearDraft \/ UNCHANGED vars
  <2>1. UNCHANGED <<jobs, worker, got, failures>>
    BY <1>1 DEF Compose, Confirm, ClearDraft, vars, history
  <2>2. /\ Jobs' = Jobs /\ \A i \in Jobs : jobs'[i].cursor = jobs[i].cursor
        /\ \A i \in Jobs, u \in Users : Sending(i, u) => Sending(i, u)'
    BY <2>1 DEF Jobs, Sending, Recipient
  <2> QED
    BY <2>1, <2>2, QuietRisk
<1>2. CASE SendDraft
  BY <1>2, QueueRisk DEF SendDraft, NewBroadcast
<1>3. CASE SaleToggle
  <2>1. PICK kind \in {"message", "sale", "no sale"} : kind = IF sale' THEN "sale" ELSE "no sale"
    OBVIOUS
  <2> QED
    BY <1>3, <2>1, QueueRisk DEF SaleToggle, NewBroadcast
<1>4. CASE \E u \in Users : UserBlock(u) \/ UserDelete(u) \/ Bar(u) \/ Write(u) \/ Subscribe(u) \/ Leave(u)
  BY <1>4, PeopleRisk
<1>5. CASE Load \/ Throttle \/ SaveBreaks
  <2>1. UNCHANGED <<jobs, got, failures>> /\ worker.outcome \notin {"delivered", "error"}
    BY <1>5, Places DEF Load, Throttle, SaveBreaks, Ready, history
  <2>2. /\ Jobs' = Jobs /\ \A i \in Jobs : jobs'[i].cursor = jobs[i].cursor
        /\ \A i \in Jobs, u \in Users : ~Sending(i, u)
    BY <2>1 DEF Jobs, Sending
  <2> QED
    BY <2>1, <2>2, QuietRisk
<1>6. CASE Complete
  <2>1. UNCHANGED <<worker, got, failures>> /\ jobs' = [jobs EXCEPT ![Current].open = FALSE]
    BY <1>6 DEF Complete, history
  <2>2. jobs' \in [1..Len(jobs) -> JobRows] /\ Len(jobs) \in Nat
        /\ \A i \in Jobs : jobs'[i].cursor = jobs[i].cursor
    <3> DEFINE c == Current
    <3>1. c \in Jobs
      BY <1>6, CurrentIs DEF Complete
    <3>2. jobs' = [jobs EXCEPT ![c].open = FALSE]
      BY <2>1
    <3> HIDE DEF c
    <3> QED
      BY <3>1, <3>2, Places DEF JobRows
  <2>3. Jobs' = Jobs
    BY <2>2, FunctionIsSeq DEF Jobs
  <2>4. \A i \in Jobs, u \in Users : Sending(i, u) => Sending(i, u)'
    BY <2>1 DEF Sending, Recipient
  <2> QED
    BY <2>1, <2>2, <2>3, <2>4, QuietRisk
<1>7. CASE Deliver \/ LoseAnswer \/ LoseMessage \/ Refuse
  BY <1>7, MessageRisk
<1>8. CASE Save
  BY <1>8, SaveRisk
<1>9. CASE Fail
  BY <1>9, FailRisk
<1> QED
  BY <1>1, <1>2, <1>3, <1>4, <1>5, <1>6, <1>7, <1>8, <1>9 DEF Next

\* A user gets a broadcast twice only after a failure between a message and the
\* commit of its progress, once for each (README.md:163): nothing else repeats.
THEOREM RepeatsAreFailures == Spec => []RepeatsNeedFailure
<1>1. Init => RepeatInv
  <2> SUFFICES ASSUME Init PROVE RepeatInv
    OBVIOUS
  <2>1. jobs = <<>> /\ failures = 0
    BY DEF Init
  <2>2. Jobs = {}
    BY <2>1 DEF Jobs
  <2>3. AtRisk = {}
    BY <2>2 DEF AtRisk
  <2> QED
    BY <2>1, <2>3, FS_EmptySet DEF RepeatInv
<1>2. IInv /\ RepeatInv /\ [Next]_vars => RepeatInv'
  BY RepeatStep
<1> QED
  BY <1>1, <1>2, Invariance, RepeatsFollow, PTL DEF Spec
=============================================================================
