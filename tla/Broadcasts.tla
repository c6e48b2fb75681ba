----------------------------- MODULE Broadcasts -----------------------------
(***************************************************************************)
(* Broadcasts: the administrator's dialogue and the sale switch that queue *)
(* one (app/admin.py), broadcast_batch (app/worker.py:181) that sends it,  *)
(* and what the users do meanwhile: subscribe, leave, bar the bot, write   *)
(* to it (app/bot.py), are shut out or deleted by an administrator.        *)
(*                                                                         *)
(* The worker reads a batch of users once and then waits for Telegram and  *)
(* for the database once per user, so that what it holds grows old.        *)
(***************************************************************************)
EXTENDS Integers, FiniteSets, FiniteSetsExt, Sequences

CONSTANTS
  Users,       \* Telegram ids: the batch goes through them in their order
  Outsider,    \* one who has not subscribed at first
  Batch,       \* 20 in worker.py:197
  MaxJobs, MaxActs, MaxFailures \* bounds of the model

ASSUME BroadcastsAssumption ==
  /\ Users \subseteq Nat \ {0} /\ IsFiniteSet(Users) /\ Outsider \in Users
  /\ Batch \in Nat \ {0}
  /\ MaxJobs \in Nat /\ MaxActs \in Nat /\ MaxFailures \in Nat

VARIABLES
  member,     \* users who have a row
  subscribed, \* users.broadcast_subscribed
  blocked,    \* users.blocked: Telegram has refused a message to the user
  denied,     \* users.access_blocked
  barred,     \* users who have barred the bot in Telegram
  sale,       \* settings.sale_enabled
  draft,      \* the administrator's dialogue
  jobs,       \* the rows of broadcasts, in the order of their ids
  worker,     \* [job, rest (of the batch), outcome (of the message just sent)]
  acts, failures, \* how many there have been
  got,        \* history: messages of each job that reached each user
  steady,     \* history: who has wanted each job without interruption
  tried,      \* history: whom each job has tried
  late,       \* history: messages that reached a user after leaving
  news        \* history: the last news of the sale each user was sent

people == <<member, subscribed, blocked, denied, barred>>
history == <<got, steady, tried, late, news>>
vars == <<people, sale, draft, jobs, worker, acts, failures, history>>

Idle == [job |-> 0, rest |-> {}, outcome |-> "none"]
Jobs == 1..Len(jobs)
Wanting == subscribed \ blocked

\* All but one have subscribed; that one may have no row yet.
Init ==
  /\ subscribed = Users \ {Outsider}
  /\ member \in {Users, subscribed}
  /\ blocked = {} /\ denied = {} /\ barred = {}
  /\ sale = FALSE /\ draft = "none"
  /\ jobs = <<>> /\ worker = Idle
  /\ acts = 0 /\ failures = 0
  /\ got = <<>> /\ steady = <<>> /\ tried = <<>>
  /\ late = [u \in Users |-> 0]
  /\ news = [u \in Users |-> "none"]

(***************************************************************************)
(* The administrator.                                                      *)
(***************************************************************************)
\* A row of broadcasts; its audience is the users created before it.
Queue(kind) ==
  /\ Len(jobs) < MaxJobs
  /\ jobs' = Append(jobs, [kind |-> kind, open |-> TRUE, audience |-> member, cursor |-> 0,
                           delivered |-> 0, refused |-> 0, errors |-> 0])
  /\ got' = Append(got, [u \in Users |-> 0])
  /\ steady' = Append(steady, Wanting)
  /\ tried' = Append(tried, {})

\* A message, or another one instead, awaits two confirmations.
Compose ==
  /\ draft \in {"none", "confirmed"} /\ Len(jobs) < MaxJobs
  /\ draft' = "written"
  /\ UNCHANGED <<people, sale, jobs, worker, acts, failures, history>>

Confirm ==
  /\ draft = "written"
  /\ draft' = "confirmed"
  /\ UNCHANGED <<people, sale, jobs, worker, acts, failures, history>>

\* The row is committed; the dialogue, in Redis, is cleared afterwards.
SendDraft ==
  /\ draft = "confirmed"
  /\ Queue("message")
  /\ draft' = "queued"
  /\ UNCHANGED <<people, sale, worker, acts, failures, late, news>>

ClearDraft ==
  /\ draft = "queued"
  /\ draft' = "none"
  /\ UNCHANGED <<people, sale, jobs, worker, acts, failures, history>>

\* The setting is read without a lock: it may have been switched since, by
\* another administrator.  Bound: it is written and the news queued at once.
SaleToggle ==
  /\ \E read \in BOOLEAN :
       /\ read = sale \/ \E j \in Jobs : jobs[j].kind # "message"
       /\ sale' = ~read
  /\ Queue(IF sale' THEN "sale" ELSE "no sale")
  /\ UNCHANGED <<people, draft, worker, acts, failures, late, news>>

Act == acts < MaxActs /\ acts' = acts + 1

\* Shut out, or let in again.
UserBlock(u) ==
  /\ Act
  /\ u \in member
  /\ denied' = IF u \in denied THEN denied \ {u} ELSE denied \cup {u}
  /\ UNCHANGED <<member, subscribed, blocked, barred, sale, draft, jobs, worker, failures, history>>

\* The row is deleted; the next one would be younger than every broadcast.
UserDelete(u) ==
  /\ Act
  /\ u \in member
  /\ member' = member \ {u}
  /\ jobs' = [j \in Jobs |-> [jobs[j] EXCEPT !.audience = @ \ {u}]]
  /\ steady' = [j \in Jobs |-> steady[j] \ {u}]
  /\ subscribed' = subscribed \ {u}
  /\ blocked' = blocked \ {u}
  /\ denied' = denied \ {u}
  /\ late' = [late EXCEPT ![u] = 0]
  /\ UNCHANGED <<barred, sale, draft, worker, failures, got, tried, news>>

(***************************************************************************)
(* The users.                                                              *)
(***************************************************************************)
Bar(u) ==
  /\ Act
  /\ u \notin barred
  /\ barred' = barred \cup {u}
  /\ UNCHANGED <<member, subscribed, blocked, denied, sale, draft, jobs, worker, failures, history>>

\* Mutation: the row of a new user is not committed with the event.
Seen_NoRow(u) ==
  /\ blocked' = blocked \ {u}
  /\ barred' = barred \ {u}
  /\ UNCHANGED member

\* Any event of a user, who cannot have barred the bot any more: there is a
\* row, and it is not marked blocked.
Seen(u) ==
  /\ member' = member \cup {u}
  /\ blocked' = blocked \ {u}
  /\ barred' = barred \ {u}

Write(u) ==
  /\ Act
  /\ u \in barred \cup blocked \/ u \notin member
  /\ Seen(u)
  /\ UNCHANGED <<subscribed, denied, sale, draft, jobs, worker, failures, history>>

\* The newsletter switch of the account, for users who are not shut out.
Subscribe(u) ==
  /\ Act
  /\ u \notin subscribed \cup denied
  /\ Seen(u)
  /\ subscribed' = subscribed \cup {u}
  /\ late' = [late EXCEPT ![u] = 0]
  /\ UNCHANGED <<denied, sale, draft, jobs, worker, failures, got, steady, tried, news>>

Leave(u) ==
  /\ Act
  /\ u \in subscribed \ denied
  /\ Seen(u)
  /\ subscribed' = subscribed \ {u}
  /\ steady' = [j \in Jobs |-> steady[j] \ {u}]
  /\ UNCHANGED <<denied, sale, draft, jobs, worker, failures, got, tried, late, news>>

(***************************************************************************)
(* The worker.                                                             *)
(***************************************************************************)
\* Mutation: the youngest broadcast first.
Current_Youngest == IF \E j \in Jobs : jobs[j].open THEN Max({j \in Jobs : jobs[j].open}) ELSE 0

\* The oldest broadcast that is still queued.
Current == IF \E j \in Jobs : jobs[j].open THEN Min({j \in Jobs : jobs[j].open}) ELSE 0

\* Mutation: the newsletter switch is overlooked.
Eligible_Everybody(j) ==
  {u \in jobs[j].audience \ blocked : u > jobs[j].cursor}

\* Whom it has not come to yet.
Eligible(j) ==
  {u \in jobs[j].audience \cap Wanting : u > jobs[j].cursor}

FirstOf(S) == {u \in S : Cardinality({v \in S : v < u}) < Batch}

Load ==
  /\ worker.job = 0 /\ Current # 0
  /\ Eligible(Current) # {}
  /\ worker' = [job |-> Current, rest |-> FirstOf(Eligible(Current)), outcome |-> "none"]
  /\ UNCHANGED <<people, sale, draft, jobs, acts, failures, history>>

\* Mutation: a broadcast with an error is kept open, to be tried again.
Complete_IfNoError ==
  /\ worker.job = 0 /\ Current # 0
  /\ Eligible(Current) = {} /\ jobs[Current].errors = 0
  /\ jobs' = [jobs EXCEPT ![Current].open = FALSE]
  /\ UNCHANGED <<people, sale, draft, worker, acts, failures, history>>

\* Nobody is left.  The summary goes out once, after the commit.
Complete ==
  /\ worker.job = 0 /\ Current # 0
  /\ Eligible(Current) = {}
  /\ jobs' = [jobs EXCEPT ![Current].open = FALSE]
  /\ UNCHANGED <<people, sale, draft, worker, acts, failures, history>>

\* The next user of the batch.
Recipient == Min(worker.rest)
Ready == worker.rest # {} /\ worker.outcome = "none"

\* The message of the batch's job to its next user: does it arrive, and what
\* does the worker think has become of it?
Message(arrives, outcome) ==
  /\ Ready
  /\ LET u == Recipient
         j == worker.job
     IN /\ worker' = [worker EXCEPT !.outcome = outcome]
        /\ tried' = [tried EXCEPT ![j] = @ \cup {u}]
        /\ IF arrives
           THEN /\ got' = [got EXCEPT ![j][u] = @ + 1]
                /\ late' = IF u \in subscribed \/ u \notin member THEN late ELSE [late EXCEPT ![u] = @ + 1]
           ELSE UNCHANGED <<got, late>>
        /\ news' = IF jobs[j].kind = "message" THEN news ELSE [news EXCEPT ![u] = jobs[j].kind]
  /\ UNCHANGED <<people, sale, draft, jobs, failures, steady>>

Deliver == Ready /\ Recipient \notin barred /\ Message(TRUE, "delivered") /\ UNCHANGED acts

\* The answer is lost, or the message is.
LoseAnswer == Ready /\ Recipient \notin barred /\ Message(TRUE, "error") /\ Act
LoseMessage == Message(FALSE, "error") /\ Act

\* TelegramForbiddenError.
Refuse == Ready /\ Recipient \in barred /\ Message(FALSE, "refused") /\ UNCHANGED acts

\* Mutation: the user whose message Telegram has not taken is passed over.
Throttle_Skip ==
  /\ Ready
  /\ jobs' = [jobs EXCEPT ![worker.job].cursor = Recipient]
  /\ worker' = Idle
  /\ UNCHANGED <<people, sale, draft, acts, failures, history>>

\* TelegramRetryAfter: the rest of the batch is given up.
Throttle ==
  /\ Ready
  /\ worker' = Idle
  /\ UNCHANGED <<people, sale, draft, jobs, acts, failures, history>>

Counted(job, outcome) ==
  CASE outcome = "delivered" -> [job EXCEPT !.delivered = @ + 1]
    [] outcome = "refused" -> [job EXCEPT !.refused = @ + 1]
    [] outcome = "error" -> [job EXCEPT !.errors = @ + 1]

Rest == IF worker.rest = {Recipient} THEN Idle
        ELSE [worker EXCEPT !.rest = @ \ {Recipient}, !.outcome = "none"]

\* Mutation: the progress is stored once for the whole batch.
Save_Once ==
  /\ worker.outcome # "none"
  /\ ~(worker.outcome = "refused" /\ Recipient \notin member)
  /\ LET j == worker.job IN
     /\ jobs' = [jobs EXCEPT ![j] =
          [Counted(@, worker.outcome) EXCEPT !.cursor = IF worker.rest = {Recipient} THEN Recipient ELSE @]]
     /\ blocked' = IF worker.outcome = "refused" THEN blocked \cup {Recipient} ELSE blocked
     /\ steady' = IF worker.outcome = "refused" THEN [k \in Jobs |-> steady[k] \ {Recipient}] ELSE steady
  /\ worker' = Rest
  /\ UNCHANGED <<member, subscribed, denied, barred, sale, draft, acts, failures, got, tried, late, news>>

\* The progress, the count and the mark of a user who has barred the bot are
\* committed together.
Save ==
  /\ worker.outcome # "none"
  /\ ~(worker.outcome = "refused" /\ Recipient \notin member)
  /\ LET j == worker.job IN
     /\ jobs' = [jobs EXCEPT ![j] = [Counted(@, worker.outcome) EXCEPT !.cursor = Recipient]]
     /\ blocked' = IF worker.outcome = "refused" THEN blocked \cup {Recipient} ELSE blocked
     /\ steady' = IF worker.outcome = "refused" THEN [k \in Jobs |-> steady[k] \ {Recipient}] ELSE steady
  /\ worker' = Rest
  /\ UNCHANGED <<member, subscribed, denied, barred, sale, draft, acts, failures, got, tried, late, news>>

\* There is no row to mark any more: the commit raises, the round is over.
SaveBreaks ==
  /\ worker.outcome = "refused" /\ Recipient \notin member
  /\ worker' = Idle
  /\ UNCHANGED <<people, sale, draft, jobs, acts, failures, history>>

\* The database fails, or the process is restarted: what is not committed is
\* lost.  The dialogue keeps what Redis has.
Fail ==
  /\ failures < MaxFailures
  /\ worker.job # 0 \/ draft = "queued"
  /\ failures' = failures + 1
  /\ worker' = Idle
  /\ draft' = IF draft = "queued" THEN "confirmed" ELSE draft
  /\ UNCHANGED <<people, sale, jobs, acts, history>>


Next ==
  \/ Compose \/ Confirm \/ SendDraft \/ ClearDraft \/ SaleToggle
  \/ \E u \in Users : UserBlock(u) \/ UserDelete(u) \/ Bar(u) \/ Write(u) \/ Subscribe(u) \/ Leave(u)
  \/ Load \/ Complete \/ Deliver \/ LoseAnswer \/ LoseMessage \/ Refuse \/ Throttle \/ Save \/ SaveBreaks \/ Fail

\* The worker's loop goes on for ever (worker.py:248), and Telegram does not
\* throttle every attempt.
Spec ==
  /\ Init /\ [][Next]_vars
  /\ WF_vars(Load) /\ WF_vars(Complete) /\ WF_vars(Save) /\ WF_vars(SaveBreaks)
  /\ SF_vars(Deliver \/ Refuse)

(***************************************************************************)
(* Properties.                                                             *)
(***************************************************************************)
JobRows == [kind : {"message", "sale", "no sale"}, open : BOOLEAN, audience : SUBSET Users,
            cursor : Users \cup {0}, delivered : Nat, refused : Nat, errors : Nat]

TypeOK ==
  /\ member \subseteq Users /\ barred \subseteq Users
  /\ subscribed \subseteq member /\ blocked \subseteq member /\ denied \subseteq member
  /\ sale \in BOOLEAN
  /\ draft \in {"none", "written", "confirmed", "queued"}
  /\ jobs \in Seq(JobRows)
  /\ worker \in [job : Nat, rest : SUBSET Users, outcome : {"none", "delivered", "refused", "error"}]
  /\ worker.job = 0 <=> worker.rest = {}
  /\ worker.job \in Jobs \cup {0}

\* One message more per failure and one recipient at a time: "Після аварії між
\* відправленням повідомлення і записом прогресу окремий адресат може отримати
\* повтор розсилки" (README.md:163).  Throttling, errors, users who come, go
\* and are deleted repeat nothing.
Repeats == UNION {{<<j, u, k>> : k \in 2..got[j][u]} : j \in Jobs, u \in Users}
RepeatsNeedFailure == Cardinality(Repeats) <= failures

\* A broadcast that is completed has tried everybody who wanted it from its
\* start to its end, although batches are cut short by throttling, failures and
\* other users' comings and goings (worker.py:190-197); its summary counts
\* nobody twice, and nobody as reached who got nothing (worker.py:239).
CompletedIsTrue ==
  \A j \in Jobs : ~jobs[j].open =>
    /\ steady[j] \subseteq tried[j]
    /\ jobs[j].delivered <= Cardinality({u \in Users : got[j][u] > 0})
    /\ jobs[j].delivered + jobs[j].refused + jobs[j].errors <= Cardinality(tried[j])

\* Who leaves the newsletter gets one message more at the most: the one of the
\* batch that was read before (worker.py:197).
OneAfterLeaving == \A u \in Users : late[u] <= 1

\* When the queue is empty, the last news of the sale is true for everybody who
\* has wanted all of it, however quickly the switch was pressed (admin.py:937).
LastNewsTrue ==
  (\A j \in Jobs : ~jobs[j].open) =>
    \A u \in Users :
      (/\ \A j \in Jobs : jobs[j].kind # "message" => u \in steady[j]
       /\ \E j \in Jobs : jobs[j].kind # "message") =>
         news[u] = IF sale THEN "sale" ELSE "no sale"

\* Every broadcast comes to its end, the queue empties: one user whom Telegram
\* refuses, loses or throttles holds up neither the others nor the next
\* broadcast.
QueueEmpties == (\E j \in Jobs : jobs[j].open) ~> (\A j \in Jobs : ~jobs[j].open)
=============================================================================
