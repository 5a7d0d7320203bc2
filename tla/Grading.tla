------------------------------ MODULE Grading ------------------------------
(***************************************************************************)
(* The life of a task attempt, from the HTTP request that submits it to    *)
(* the transaction that persists its verdict and pays its reward           *)
(* (src/app/modules/grading/service.py, router.py and worker.py).          *)
(*                                                                         *)
(* Worker processes and API request handlers share nothing but the         *)
(* database.  A worker leases the oldest claimable attempt, grades it      *)
(* outside any transaction and persists the result only while its lease    *)
(* is still current; a handler does the same for a LEARNING option, inside *)
(* the request that submitted it.  A lease that runs out is taken over by  *)
(* whoever claims next, while the first grader may still be running.       *)
(*                                                                         *)
(* Each action is one transaction, or one step between two transactions.   *)
(* _persist_result also writes proficiency, tier, presentation, battle and *)
(* state_version rows, none of which this module's state reads back.       *)
(*                                                                         *)
(* The operators named Faulty... and Un... are plausible bugs, each        *)
(* standing before the definition it imitates; no specification uses them. *)
(* PROJECT.json names the property that rejects each one.                  *)
(***************************************************************************)
EXTENDS Integers, FiniteSets, FiniteSetsExt

CONSTANTS
  Requests,      \* idempotency keys (request_id) clients may send
  Users,         \* authenticated users
  Tasks,         \* active tasks
  Payloads,      \* what a submission can carry, see PayloadType
  Workers,       \* grading worker processes (worker.py)
  Handlers,      \* API request slots (router.py, submit)
  Reward,        \* task.reward_coins
  Lease,         \* settings.grading_lease_seconds, in ticks
  DayLength,     \* ticks in a day of the game calendar
  MaxTime,       \* bound: the clock stops here
  CrashHorizon,  \* bound: no grader dies from this time on
  None           \* no request, no payload

Contexts == {"LEARNING", "DAILY", "BATTLE"}
Options == {"none", "right", "wrong"}
Verdicts == {"ACCEPTED", "WRONG_ANSWER", "SYSTEM_ERROR"}
Decided == {"COMPLETED", "FAILED"}
Graders == Workers \cup Handlers

\* A submission by user for task; option "none" is code, graded by a runner.
PayloadType == [user : Users, task : Tasks, context : Contexts, option : Options]

NoTime == -1
Time == 0 .. MaxTime
NoToken == 0

ASSUME ConstantsAssumption ==
  /\ Payloads \subseteq PayloadType
  /\ Workers \cap Handlers = {}
  /\ Reward \in [Tasks -> Nat]
  /\ Lease \in Nat
  /\ DayLength \in Nat \ {0}
  /\ MaxTime \in Nat
  /\ CrashHorizon \in Nat
  /\ None \notin Requests
  /\ None \notin Payloads
  /\ IsFiniteSet(Requests)

VARIABLES
  now,          \* the clock
  attempt,      \* task_attempts, by request_id (unique)
  nextToken,    \* the next lease token; uuid4 never repeats one
  completions,  \* task_completions
  balance,      \* users.balance
  resetAt,      \* users.learning_reset_at
  dailyDone,    \* attendance_tasks with is_completed: <<user, task, day>>
  form,         \* what each handler is doing with its submission
  job           \* what each grader is doing with its lease

vars == <<now, attempt, nextToken, completions, balance, resetAt, dailyDone, form, job>>

Day(t) == t \div DayLength

NoAttempt == [status |-> "ABSENT", payload |-> None, attemptedAt |-> NoTime,
              isCorrect |-> "null", coins |-> 0, startedAt |-> NoTime, token |-> NoToken]
NoJob == [pc |-> "idle", req |-> None, token |-> NoToken, verdict |-> "none"]
NoForm == [pc |-> "idle", req |-> None, payload |-> None, beganAt |-> NoTime]

\* router.py submit: the attempts the request handler grades itself.
GradedInline(p) == p.context = "LEARNING" /\ p.option # "none"

\* The row of task_completions a correct attempt stands for.
Key(r) == <<attempt[r].payload.user, attempt[r].payload.task, Day(attempt[r].attemptedAt)>>

\* A completion dated by the moment of grading.
FaultyCompletion(r) ==
  [key |-> <<attempt[r].payload.user, attempt[r].payload.task, Day(now)>>, first |-> r]

Completion(r) == [key |-> Key(r), first |-> r]
Completed == {c.key : c \in completions}

-----------------------------------------------------------------------------
Init ==
  /\ now = 0
  /\ attempt = [r \in Requests |-> NoAttempt]
  /\ nextToken = 1
  /\ completions = {}
  /\ balance = [u \in Users |-> 0]
  /\ resetAt = [u \in Users |-> NoTime]
  /\ dailyDone = {}
  /\ form = [h \in Handlers |-> NoForm]
  /\ job = [g \in Graders |-> NoJob]

Tick ==
  /\ now < MaxTime
  /\ now' = now + 1
  /\ UNCHANGED <<attempt, nextToken, completions, balance, resetAt, dailyDone, form, job>>

-----------------------------------------------------------------------------
(* Submission: create_attempt                                              *)

\* A replayed request is answered with the attempt it made, and graded inline
\* like a new one; a request_id bound to another payload is a conflict.
Replay(h, r, p) ==
  form' = [form EXCEPT ![h] =
             [pc |-> IF attempt[r].payload = p /\ GradedInline(p) THEN "created" ELSE "answered",
              req |-> r, payload |-> p, beganAt |-> NoTime]]

\* Up to the user lock: the transaction starts (the attempt's attempted_at),
\* a known request_id is replayed, and the submission is validated.
BeginSubmit(h, r, p) ==
  /\ form[h].pc \in {"idle", "answered"}
  /\ job[h].pc = "idle"
  /\ \/ /\ attempt[r].status # "ABSENT"
        /\ Replay(h, r, p)
     \/ /\ attempt[r].status = "ABSENT"
        /\ p.context = "DAILY" => <<p.user, p.task, Day(now)>> \notin dailyDone
        /\ form' = [form EXCEPT ![h] =
                      [pc |-> "checked", req |-> r, payload |-> p, beganAt |-> now]]
  /\ UNCHANGED <<now, attempt, nextToken, completions, balance, resetAt, dailyDone, job>>

\* From the user lock to the commit: the request_id is read again, then
\* inserted; another user's insert of the same request_id is waited for.
CommitSubmit(h) ==
  LET r == form[h].req
      p == form[h].payload
  IN  /\ form[h].pc = "checked"
      /\ \/ /\ attempt[r].status # "ABSENT"
            /\ Replay(h, r, p)
            /\ UNCHANGED attempt
         \/ /\ attempt[r].status = "ABSENT"
            /\ attempt' = [attempt EXCEPT ![r] =
                             [NoAttempt EXCEPT !.status = "PENDING", !.payload = p,
                                               !.attemptedAt = form[h].beganAt]]
            /\ form' = [form EXCEPT ![h] =
                          [pc |-> IF GradedInline(p) THEN "created" ELSE "answered",
                           req |-> r, payload |-> p, beganAt |-> NoTime]]
      /\ UNCHANGED <<now, nextToken, completions, balance, resetAt, dailyDone, job>>

-----------------------------------------------------------------------------
(* Leases: _claimable_at, _lease, claim_next_attempt, claim_attempt        *)

\* A lease that ends only when its grader gives it back.
FaultyLeaseExpired(r) == attempt[r].startedAt = NoTime

LeaseExpired(r) == attempt[r].startedAt = NoTime \/ attempt[r].startedAt < now - Lease

Claimable(r) ==
  \/ attempt[r].status = "PENDING"
  \/ attempt[r].status = "RUNNING" /\ LeaseExpired(r)

LeaseTo(g, r) ==
  /\ attempt' = [attempt EXCEPT ![r] =
                    [@ EXCEPT !.status = "RUNNING", !.startedAt = now, !.token = nextToken]]
  /\ job' = [job EXCEPT ![g] = [pc |-> "leased", req |-> r, token |-> nextToken,
                                verdict |-> "none"]]
  /\ nextToken' = nextToken + 1

\* A worker takes the oldest claimable attempt that no other transaction holds
\* (SKIP LOCKED); every other grader holds at most one row.
ClaimNext(w) ==
  /\ job[w].pc = "idle"
  /\ \E r \in Requests :
       /\ Claimable(r)
       /\ Cardinality({o \in Requests : /\ Claimable(o)
                                        /\ attempt[o].attemptedAt < attempt[r].attemptedAt})
            < Cardinality(Graders)
       /\ LeaseTo(w, r)
  /\ UNCHANGED <<now, completions, balance, resetAt, dailyDone, form>>

\* The request handler claims the attempt it answers for, if it still can.
ClaimAttempt(h) ==
  /\ form[h].pc = "created"
  /\ job[h].pc = "idle"
  /\ \/ /\ Claimable(form[h].req)
        /\ LeaseTo(h, form[h].req)
        /\ form' = form
     \/ /\ ~Claimable(form[h].req)
        /\ form' = [form EXCEPT ![h].pc = "answered"]
        /\ UNCHANGED <<attempt, job, nextToken>>
  /\ UNCHANGED <<now, completions, balance, resetAt, dailyDone>>

-----------------------------------------------------------------------------
(* Grading: grade_claimed_attempt, _run_safely, _persist_result            *)

\* The status is checked, but not whose lease it is.
FaultyHoldsLease(g) == attempt[job[g].req].status = "RUNNING"

HoldsLease(g) ==
  LET a == attempt[job[g].req] IN a.status = "RUNNING" /\ a.token = job[g].token

\* The request is answered while its grader runs on.
FaultyDrop(g) ==
  /\ job' = [job EXCEPT ![g] = [@ EXCEPT !.verdict = "none"]]
  /\ form' = IF g \in Handlers THEN [form EXCEPT ![g].pc = "answered"] ELSE form

\* The grader gives the attempt up; a handler then answers its request.
Drop(g) ==
  /\ job' = [job EXCEPT ![g] = NoJob]
  /\ form' = IF g \in Handlers THEN [form EXCEPT ![g].pc = "answered"] ELSE form

\* What _run_safely can return: an option is compared, code may do anything.
PossibleVerdicts(p) ==
  CASE p.option = "right" -> {"ACCEPTED"}
    [] p.option = "wrong" -> {"WRONG_ANSWER"}
    [] OTHER -> Verdicts

\* The attempt is loaded if the lease is current, and the runner judges it.
Grade(g) ==
  /\ job[g].pc = "leased"
  /\ \/ /\ HoldsLease(g)
        /\ \E v \in PossibleVerdicts(attempt[job[g].req].payload) :
             job' = [job EXCEPT ![g].pc = "graded", ![g].verdict = v]
        /\ form' = form
     \/ ~HoldsLease(g) /\ Drop(g)
  /\ UNCHANGED <<now, attempt, nextToken, completions, balance, resetAt, dailyDone>>

Correctness(v) ==
  CASE v = "SYSTEM_ERROR" -> "null" [] v = "ACCEPTED" -> "true" [] OTHER -> "false"

\* learning_reset_at is read under the user lock.
IsAfterReset(r) == attempt[r].attemptedAt >= resetAt[attempt[r].payload.user]

\* Every correct answer pays.
FaultyPays(r, v) == v = "ACCEPTED" /\ IsAfterReset(r)

\* The reset boundary is not looked at.
UnboundedPays(r, v) == v = "ACCEPTED" /\ Key(r) \notin Completed

\* The first correct answer of the game day, given after the last reset.
Pays(r, v) == v = "ACCEPTED" /\ IsAfterReset(r) /\ Key(r) \notin Completed

PersistResult(g) ==
  LET r == job[g].req
      p == attempt[r].payload
      v == job[g].verdict
  IN  /\ job[g].pc = "graded"
      /\ Drop(g)
      /\ \/ /\ HoldsLease(g)
            /\ attempt' = [attempt EXCEPT ![r] =
                 [@ EXCEPT !.status = IF v = "SYSTEM_ERROR" THEN "FAILED" ELSE "COMPLETED",
                           !.isCorrect = Correctness(v),
                           !.startedAt = NoTime,
                           !.token = NoToken,
                           !.coins = IF Pays(r, v) THEN Reward[p.task] ELSE 0]]
            /\ completions' = IF Pays(r, v) THEN completions \cup {Completion(r)} ELSE completions
            /\ balance' = IF Pays(r, v) THEN [balance EXCEPT ![p.user] = @ + Reward[p.task]]
                                        ELSE balance
            /\ dailyDone' = IF v = "ACCEPTED" /\ p.context = "DAILY"
                            THEN dailyDone \cup {Key(r)} ELSE dailyDone
         \/ /\ ~HoldsLease(g)
            /\ UNCHANGED <<attempt, completions, balance, dailyDone>>
      /\ UNCHANGED <<now, nextToken, resetAt>>

\* The coins are paid in a transaction of their own, before the verdict's.
FaultyCrash(g) ==
  LET r == job[g].req IN
  /\ now < CrashHorizon
  /\ job[g].pc = "graded"
  /\ balance' = IF HoldsLease(g) /\ Pays(r, job[g].verdict)
                THEN [balance EXCEPT ![attempt[r].payload.user] = @ + Reward[Key(r)[2]]]
                ELSE balance
  /\ Drop(g)
  /\ UNCHANGED <<now, attempt, nextToken, completions, resetAt, dailyDone>>

\* The grader dies, or its transaction fails and rolls back; the attempt stays
\* RUNNING until its lease expires.
Crash(g) ==
  /\ now < CrashHorizon
  /\ job[g].pc # "idle"
  /\ Drop(g)
  /\ UNCHANGED <<now, attempt, nextToken, completions, balance, resetAt, dailyDone>>

-----------------------------------------------------------------------------
\* reset_learning_progress (game/commands.py): rewards stay, progress goes.
Reset(u) ==
  /\ resetAt' = [resetAt EXCEPT ![u] = now]
  /\ dailyDone' = {d \in dailyDone : d[1] # u}
  /\ UNCHANGED <<now, attempt, nextToken, completions, balance, form, job>>

-----------------------------------------------------------------------------
Next ==
  \/ Tick
  \/ \E h \in Handlers, r \in Requests, p \in Payloads : BeginSubmit(h, r, p)
  \/ \E h \in Handlers : CommitSubmit(h)
  \/ \E w \in Workers : ClaimNext(w)
  \/ \E h \in Handlers : ClaimAttempt(h)
  \/ \E g \in Graders : Grade(g)
  \/ \E g \in Graders : PersistResult(g)
  \/ \E g \in Graders : Crash(g)
  \/ \E u \in Users : Reset(u)

Spec == Init /\ [][Next]_vars

\* Workers poll for ever (worker.py run); a request in flight and a grader that
\* did not die take their next step; time passes.  Clients owe nothing.
Fairness ==
  /\ WF_vars(Tick)
  /\ \A w \in Workers : WF_vars(ClaimNext(w))
  /\ \A h \in Handlers : WF_vars(CommitSubmit(h)) /\ WF_vars(ClaimAttempt(h))
  /\ \A g \in Graders : WF_vars(Grade(g)) /\ WF_vars(PersistResult(g))

FairSpec == Spec /\ Fairness

-----------------------------------------------------------------------------
(* Type invariant                                                          *)

AttemptType ==
  [status : {"ABSENT", "PENDING", "RUNNING"} \cup Decided,
   payload : Payloads \cup {None},
   attemptedAt : Time \cup {NoTime},
   isCorrect : {"null", "true", "false"},
   coins : Nat,
   startedAt : Time \cup {NoTime},
   token : Nat]
JobType ==
  [pc : {"idle", "leased", "graded"}, req : Requests \cup {None}, token : Nat,
   verdict : Verdicts \cup {"none"}]
FormType ==
  [pc : {"idle", "checked", "created", "answered"}, req : Requests \cup {None},
   payload : Payloads \cup {None}, beganAt : Time \cup {NoTime}]

\* Every variable has its type; the references a row or a process holds are
\* there exactly when its status says so.
TypeOK ==
  /\ now \in Time
  /\ attempt \in [Requests -> AttemptType]
  /\ nextToken \in Nat \ {0}
  /\ completions \subseteq [key : Users \X Tasks \X Int, first : Requests]
  /\ balance \in [Users -> Nat]
  /\ resetAt \in [Users -> Time \cup {NoTime}]
  /\ dailyDone \subseteq Users \X Tasks \X Int
  /\ form \in [Handlers -> FormType]
  /\ job \in [Graders -> JobType]
  /\ \A r \in Requests : attempt[r].status # "ABSENT" =>
       attempt[r].payload # None /\ attempt[r].attemptedAt # NoTime
  /\ \A h \in Handlers : form[h].pc # "idle" => form[h].req # None /\ form[h].payload # None
  /\ \A h \in Handlers : form[h].pc = "checked" => form[h].beganAt # NoTime
  /\ \A h \in Handlers : job[h].pc # "idle" => form[h].pc = "created"
  /\ \A g \in Graders : job[g].pc # "idle" => job[g].req # None
  /\ \A g \in Graders : job[g].pc = "graded" => job[g].verdict # "none"

-----------------------------------------------------------------------------
(* Safety                                                                  *)

\* A lease is exclusive: of all graders still running on an attempt, however
\* many leases have expired under them, at most one could persist its result.
LeaseExclusive ==
  \A g1, g2 \in Graders :
    /\ job[g1].pc # "idle" /\ HoldsLease(g1)
    /\ job[g2].pc # "idle" /\ HoldsLease(g2)
    /\ job[g1].req = job[g2].req
    => g1 = g2

\* However often an attempt is re-leased and a task solved again, two paid
\* attempts of one user at one task lie on different game days.
OneRewardPerDay ==
  \A r1, r2 \in Requests :
    attempt[r1].coins > 0 /\ attempt[r2].coins > 0 /\ Key(r1) = Key(r2) => r1 = r2

Coins == [r \in Requests |-> attempt[r].coins]
AttemptsOf(u) == {r \in Requests : attempt[r].status # "ABSENT" /\ attempt[r].payload.user = u}

\* What a user owns is what the attempts say they were paid: no grading is
\* paid twice, and none is recorded as paid without the coins arriving.
BalanceIsLedger == \A u \in Users : balance[u] = SumFunctionOnSet(Coins, AttemptsOf(u))

\* A correct answer given after the last reset is never lost: its game day has
\* a completion, the one that was paid.
NoCorrectAnswerLost ==
  \A r \in Requests :
    attempt[r].isCorrect = "true" /\ IsAfterReset(r) =>
      \E c \in completions : c.key = Key(r) /\ attempt[c.first].coins = Reward[Key(r)[2]]

\* Once decided, an attempt never changes: late graders, re-leases, replays and
\* resets leave it alone.
VerdictIsFinal ==
  [][\A r \in Requests : attempt[r].status \in Decided => attempt'[r] = attempt[r]]_vars

\* A request_id is bound for good to the first payload and submission time
\* accepted under it, whoever sends it again.
RequestBindsOnce ==
  [][\A r \in Requests : attempt[r].status # "ABSENT" =>
       /\ attempt'[r].payload = attempt[r].payload
       /\ attempt'[r].attemptedAt = attempt[r].attemptedAt]_vars

-----------------------------------------------------------------------------
(* Liveness                                                                *)

\* Every accepted attempt is decided in the end, although graders die and
\* leases expire under slow ones.
EveryAttemptDecided ==
  \A r \in Requests : attempt[r].status # "ABSENT" ~> attempt[r].status \in Decided

-----------------------------------------------------------------------------
(* Refinement                                                              *)

Phase(a) ==
  CASE a.status = "ABSENT" -> "absent"
    [] a.status \in {"PENDING", "RUNNING"} -> "open"
    [] a.status = "FAILED" -> "void"
    [] a.status = "COMPLETED" /\ a.isCorrect = "true" -> "right"
    [] OTHER -> "wrong"
Entry(a) == [phase |-> Phase(a), payload |-> a.payload, at |-> a.attemptedAt]

Ledger == INSTANCE AttemptLedger WITH
  entry <- [r \in Requests |-> Entry(attempt[r])],
  paid <- Completed,
  boundary <- resetAt,
  Times <- Time

\* Leases, retries and crashes are invisible from outside: the component only
\* accepts an attempt once, decides it once and pays with the decision.
ImplementsLedger == Ledger!Spec

-----------------------------------------------------------------------------
(* What the documents say and the code does not do                         *)

\* An answer submitted before a reset and graded after it is no new progress
\* (docs/features/authoritative-learning-rewards.md:34).
DailyProgressIsAfterReset ==
  \A d \in dailyDone : \E r \in Requests :
    attempt[r].isCorrect = "true" /\ Key(r) = d /\ IsAfterReset(r)
=============================================================================
