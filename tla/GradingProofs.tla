--------------------------- MODULE GradingProofs ---------------------------
(***************************************************************************)
(* Proofs about Grading, for any number of requests, users, tasks, workers *)
(* and handlers, any lease, any day length and any horizon.                *)
(***************************************************************************)
EXTENDS Grading, SetSums, TLAPS

USE DEF Time, NoTime, NoToken, Decided, Verdicts, Graders

-----------------------------------------------------------------------------
(* Type correctness                                                        *)

\* The conjuncts of TypeOK about the processes.
ProcessType ==
  /\ form \in [Handlers -> FormType]
  /\ job \in [Graders -> JobType]
  /\ \A h \in Handlers : form[h].pc # "idle" => form[h].req # None /\ form[h].payload # None
  /\ \A h \in Handlers : form[h].pc = "checked" => form[h].beganAt # NoTime
  /\ \A h \in Handlers : job[h].pc # "idle" => form[h].pc = "created"
  /\ \A g \in Graders : job[g].pc # "idle" => job[g].req # None
  /\ \A g \in Graders : job[g].pc = "graded" => job[g].verdict # "none"

\* The conjuncts of TypeOK about the database and the clock.
DatabaseType ==
  /\ now \in Time
  /\ attempt \in [Requests -> AttemptType]
  /\ nextToken \in Nat \ {0}
  /\ completions \subseteq [key : Users \X Tasks \X Int, first : Requests]
  /\ balance \in [Users -> Nat]
  /\ resetAt \in [Users -> Time \cup {NoTime}]
  /\ dailyDone \subseteq Users \X Tasks \X Int
  /\ \A r \in Requests : attempt[r].status # "ABSENT" =>
       attempt[r].payload # None /\ attempt[r].attemptedAt # NoTime

LEMMA TypeParts == TypeOK <=> ProcessType /\ DatabaseType
  BY DEF TypeOK, ProcessType, DatabaseType

\* Giving a job up leaves the processes well typed.
LEMMA DropType ==
  ASSUME ProcessType, NEW g \in Graders, job[g].pc # "idle", Drop(g)
  PROVE  ProcessType'
  BY DEF ProcessType, Drop, NoJob, FormType, JobType

\* The key of an accepted attempt is a user, a task and a day.
LEMMA KeyType ==
  ASSUME ConstantsAssumption, DatabaseType, NEW r \in Requests, attempt[r].status # "ABSENT"
  PROVE  /\ attempt[r].payload \in Payloads
         /\ attempt[r].payload.user \in Users
         /\ attempt[r].payload.task \in Tasks
         /\ Key(r) \in Users \X Tasks \X Int
<1>1. attempt[r].payload \in Payloads /\ attempt[r].attemptedAt \in Int
  BY DEF DatabaseType, AttemptType, ConstantsAssumption
<1>2. attempt[r].payload.user \in Users /\ attempt[r].payload.task \in Tasks
  BY <1>1 DEF ConstantsAssumption, PayloadType
<1>3. Day(attempt[r].attemptedAt) \in Int
  BY <1>1 DEF Day, ConstantsAssumption
<1> QED
  BY <1>1, <1>2, <1>3 DEF Key

LEMMA TypeInit == ConstantsAssumption /\ Init => TypeOK
  BY DEF ConstantsAssumption, Init, TypeOK, NoAttempt, NoForm, NoJob,
         AttemptType, FormType, JobType

\* A step that leases an attempt to a grader keeps the types.
LEMMA LeaseType ==
  ASSUME ConstantsAssumption, TypeOK, NEW g \in Graders, NEW r \in Requests, LeaseTo(g, r),
         job[g].pc = "idle", g \in Handlers => form[g].pc = "created",
         attempt[r].status # "ABSENT", form' = form,
         UNCHANGED <<now, completions, balance, resetAt, dailyDone>>
  PROVE  TypeOK'
<1> DEFINE a == [attempt[r] EXCEPT !.status = "RUNNING", !.startedAt = now, !.token = nextToken]
           j == [pc |-> "leased", req |-> r, token |-> nextToken, verdict |-> "none"]
<1>0. attempt[r] \in AttemptType /\ now \in Time /\ nextToken \in Nat
  BY DEF TypeOK
<1>1. a \in AttemptType
  BY <1>0 DEF AttemptType
<1>2. attempt' = [attempt EXCEPT ![r] = a] /\ job' = [job EXCEPT ![g] = j]
  BY DEF LeaseTo
<1>3. DatabaseType'
  <2>1. attempt' \in [Requests -> AttemptType]
    BY <1>1, <1>2 DEF TypeOK
  <2>2. \A q \in Requests : attempt'[q].status # "ABSENT" =>
          attempt'[q].payload # None /\ attempt'[q].attemptedAt # NoTime
    BY DEF TypeOK, LeaseTo, AttemptType
  <2> QED
    BY <2>1, <2>2 DEF TypeOK, DatabaseType, LeaseTo
<1>4. ProcessType'
  <2>1. j \in JobType
    BY <1>0 DEF JobType
  <2>2. job' \in [Graders -> JobType]
    BY <1>2, <2>1 DEF TypeOK
  <2> QED
    BY <1>2, <2>2 DEF TypeOK, ProcessType, ConstantsAssumption
<1> QED
  BY <1>3, <1>4, TypeParts DEF TypeOK, ProcessType, DatabaseType

\* What a result persisted under a current lease does to the attempt.
LEMMA PersistedRow ==
  ASSUME ConstantsAssumption, TypeOK, NEW g \in Graders, PersistResult(g), HoldsLease(g)
  PROVE  LET r == job[g].req
             v == job[g].verdict
         IN  /\ r \in Requests
             /\ v \in Verdicts
             /\ attempt[r].payload.user \in Users
             /\ attempt[r].payload.task \in Tasks
             /\ Reward[attempt[r].payload.task] \in Nat
             /\ Key(r) \in Users \X Tasks \X Int
             /\ attempt[r].status = "RUNNING"
             /\ attempt'[r].status = IF v = "SYSTEM_ERROR" THEN "FAILED" ELSE "COMPLETED"
             /\ attempt'[r].isCorrect = Correctness(v)
             /\ attempt'[r].coins = IF Pays(r, v) THEN Reward[attempt[r].payload.task] ELSE 0
             /\ attempt'[r].payload = attempt[r].payload
             /\ attempt'[r].attemptedAt = attempt[r].attemptedAt
             /\ attempt'[r] \in AttemptType
             /\ attempt' = [attempt EXCEPT ![r] = attempt'[r]]
<1> DEFINE r == job[g].req
           v == job[g].verdict
           n == IF Pays(r, v) THEN Reward[attempt[r].payload.task] ELSE 0
           s == IF v = "SYSTEM_ERROR" THEN "FAILED" ELSE "COMPLETED"
           a == [attempt[r] EXCEPT !.status = s, !.isCorrect = Correctness(v),
                                   !.startedAt = NoTime, !.token = NoToken, !.coins = n]
<1>1. r \in Requests /\ v \in Verdicts /\ attempt[r].status = "RUNNING"
  BY DEF PersistResult, TypeOK, JobType, HoldsLease
<1>2. /\ attempt[r].payload.user \in Users /\ attempt[r].payload.task \in Tasks
      /\ Key(r) \in Users \X Tasks \X Int
      /\ Reward[attempt[r].payload.task] \in Nat
  BY <1>1, KeyType, TypeParts DEF ConstantsAssumption
<1>3. attempt' = [attempt EXCEPT ![r] = a]
  BY DEF PersistResult
<1>4. n \in Nat /\ s \in Decided /\ Correctness(v) \in {"null", "true", "false"}
  BY <1>2 DEF Correctness
<1>5. attempt \in [Requests -> AttemptType] /\ attempt[r] \in AttemptType
  BY <1>1 DEF TypeOK
<1> HIDE DEF n, s
<1>6. /\ a \in AttemptType
      /\ a.status = s /\ a.isCorrect = Correctness(v) /\ a.coins = n
      /\ a.payload = attempt[r].payload /\ a.attemptedAt = attempt[r].attemptedAt
  BY <1>4, <1>5 DEF AttemptType
<1> HIDE DEF a
<1>7. attempt'[r] = a
  BY <1>1, <1>3, <1>5
<1> QED
  BY <1>1, <1>2, <1>3, <1>6, <1>7 DEF n, s

\* Every step keeps the types.
LEMMA TypeNext == ConstantsAssumption /\ TypeOK /\ [Next]_vars => TypeOK'
<1> SUFFICES ASSUME ConstantsAssumption, TypeOK, [Next]_vars PROVE TypeOK'
  OBVIOUS
<1>0. ProcessType /\ DatabaseType
  BY TypeParts
<1>1. CASE Tick
  BY <1>1 DEF Tick, TypeOK, ConstantsAssumption
<1>2. ASSUME NEW h \in Handlers, NEW r \in Requests, NEW p \in Payloads, BeginSubmit(h, r, p)
      PROVE TypeOK'
  <2>1. PICK f \in FormType : /\ form' = [form EXCEPT ![h] = f]
                              /\ f.req # None /\ f.payload # None
                              /\ f.pc = "checked" => f.beganAt # NoTime
    BY <1>2 DEF BeginSubmit, Replay, FormType, TypeOK, ConstantsAssumption
  <2>2. ProcessType'
    BY <1>2, <2>1 DEF BeginSubmit, TypeOK, ProcessType
  <2> QED
    BY <1>2, <2>2, TypeParts DEF BeginSubmit, TypeOK, ProcessType
<1>3. ASSUME NEW h \in Handlers, CommitSubmit(h)
      PROVE TypeOK'
  <2> DEFINE r == form[h].req
             p == form[h].payload
  <2>1. r \in Requests /\ p \in Payloads /\ job[h].pc = "idle"
    BY <1>3 DEF CommitSubmit, TypeOK, FormType
  <2>2. PICK f \in FormType : /\ form' = [form EXCEPT ![h] = f]
                              /\ f.req # None /\ f.payload # None
                              /\ f.pc # "checked"
    BY <1>3, <2>1 DEF CommitSubmit, Replay, FormType, TypeOK, ConstantsAssumption
  <2>3. ProcessType'
    BY <1>3, <2>1, <2>2 DEF CommitSubmit, TypeOK, ProcessType
  <2>4. DatabaseType'
    <3>1. CASE UNCHANGED attempt
      BY <1>3, <3>1 DEF CommitSubmit, TypeOK, DatabaseType
    <3>2. CASE attempt' = [attempt EXCEPT ![r] =
                             [NoAttempt EXCEPT !.status = "PENDING", !.payload = p,
                                               !.attemptedAt = form[h].beganAt]]
      <4> DEFINE a == [NoAttempt EXCEPT !.status = "PENDING", !.payload = p,
                                        !.attemptedAt = form[h].beganAt]
      <4>1. a \in AttemptType /\ a.payload # None /\ a.attemptedAt # NoTime
        BY <1>3, <2>1 DEF CommitSubmit, TypeOK, FormType, AttemptType, NoAttempt,
                          ConstantsAssumption
      <4> HIDE DEF a
      <4>2. attempt' = [attempt EXCEPT ![r] = a]
        BY <3>2 DEF a
      <4> QED
        BY <1>3, <4>1, <4>2 DEF CommitSubmit, TypeOK, DatabaseType
    <3> QED
      BY <1>3, <3>1, <3>2 DEF CommitSubmit
  <2> QED
    BY <2>3, <2>4 DEF TypeOK, ProcessType, DatabaseType
<1>4. ASSUME NEW w \in Workers, ClaimNext(w)
      PROVE TypeOK'
  <2>1. PICK r \in Requests : Claimable(r) /\ LeaseTo(w, r)
    BY <1>4 DEF ClaimNext
  <2> QED
    BY <1>4, <2>1, LeaseType DEF ClaimNext, Claimable, ConstantsAssumption
<1>5. ASSUME NEW h \in Handlers, ClaimAttempt(h)
      PROVE TypeOK'
  <2>1. form[h].req \in Requests
    BY <1>5 DEF ClaimAttempt, TypeOK, FormType
  <2>2. CASE Claimable(form[h].req) /\ LeaseTo(h, form[h].req) /\ form' = form
    BY <1>5, <2>1, <2>2, LeaseType DEF ClaimAttempt, Claimable
  <2>3. CASE /\ form' = [form EXCEPT ![h].pc = "answered"]
             /\ UNCHANGED <<attempt, job, nextToken>>
    BY <1>5, <2>3 DEF ClaimAttempt, TypeOK, FormType
  <2> QED
    BY <1>5, <2>2, <2>3 DEF ClaimAttempt
<1>6. ASSUME NEW g \in Graders, Grade(g)
      PROVE TypeOK'
  <2>1. CASE Drop(g)
    <3>1. ProcessType'
      BY <1>0, <1>6, <2>1, DropType DEF Grade
    <3> QED
      BY <1>6, <3>1 DEF Grade, TypeOK, ProcessType
  <2>2. CASE \E v \in PossibleVerdicts(attempt[job[g].req].payload) :
               /\ job' = [job EXCEPT ![g].pc = "graded", ![g].verdict = v]
               /\ form' = form
    <3>1. PICK v \in Verdicts : job' = [job EXCEPT ![g].pc = "graded", ![g].verdict = v]
      BY <2>2 DEF PossibleVerdicts
    <3> DEFINE j == [job[g] EXCEPT !.pc = "graded", !.verdict = v]
    <3>2. j \in JobType /\ j.req = job[g].req /\ j.verdict # "none"
      <4>1. job[g] \in JobType
        BY DEF TypeOK
      <4> QED
        BY <4>1 DEF JobType
    <3>3. job' = [job EXCEPT ![g] = j]
      BY <3>1
    <3> HIDE DEF j
    <3>4. ProcessType'
      BY <1>6, <2>2, <3>2, <3>3 DEF Grade, TypeOK, ProcessType
    <3> QED
      BY <1>6, <3>4 DEF Grade, TypeOK, ProcessType
  <2> QED
    BY <1>6, <2>1, <2>2 DEF Grade
<1>7. ASSUME NEW g \in Graders, PersistResult(g)
      PROVE TypeOK'
  <2> DEFINE r == job[g].req
             v == job[g].verdict
  <2>1. ProcessType'
    BY <1>0, <1>7, DropType DEF PersistResult
  <2>2. DatabaseType'
    <3>1. CASE UNCHANGED <<attempt, completions, balance, dailyDone>>
      BY <1>7, <3>1 DEF PersistResult, TypeOK, DatabaseType
    <3>2. CASE ~UNCHANGED <<attempt, completions, balance, dailyDone>>
      <4>1. HoldsLease(g)
        BY <1>7, <3>2 DEF PersistResult
      <4>2. /\ r \in Requests
            /\ attempt[r].payload.user \in Users /\ attempt[r].payload.task \in Tasks
            /\ Key(r) \in Users \X Tasks \X Int
            /\ Reward[attempt[r].payload.task] \in Nat
        BY <1>7, <4>1, PersistedRow
      <4>6. /\ attempt' \in [Requests -> AttemptType]
            /\ \A q \in Requests : attempt'[q].status # "ABSENT" =>
                 attempt'[q].payload # None /\ attempt'[q].attemptedAt # NoTime
        BY <1>7, <4>1, PersistedRow DEF TypeOK
      <4>3. completions' \in {completions, completions \cup {Completion(r)}}
        BY <1>7, <4>1 DEF PersistResult
      <4>4. \/ balance' = balance
            \/ balance' = [balance EXCEPT ![attempt[r].payload.user] = @ + Reward[attempt[r].payload.task]]
        BY <1>7, <4>1 DEF PersistResult
      <4>5. dailyDone' \in {dailyDone, dailyDone \cup {Key(r)}}
        BY <1>7, <4>1 DEF PersistResult
      <4>7. completions' \subseteq [key : Users \X Tasks \X Int, first : Requests]
        BY <4>2, <4>3 DEF Completion, TypeOK
      <4>8. balance' \in [Users -> Nat]
        BY <4>2, <4>4 DEF TypeOK
      <4>9. dailyDone' \subseteq Users \X Tasks \X Int
        BY <4>2, <4>5 DEF TypeOK
      <4>10. UNCHANGED <<now, nextToken, resetAt>>
        BY <1>7 DEF PersistResult
      <4> QED
        BY <4>6, <4>7, <4>8, <4>9, <4>10 DEF TypeOK, DatabaseType
    <3> QED
      BY <3>1, <3>2
  <2> QED
    BY <2>1, <2>2 DEF TypeOK, ProcessType, DatabaseType
<1>8. ASSUME NEW g \in Graders, Crash(g)
      PROVE TypeOK'
  <2>1. ProcessType'
    BY <1>0, <1>8, DropType DEF Crash
  <2> QED
    BY <1>8, <2>1 DEF Crash, TypeOK, ProcessType
<1>9. ASSUME NEW u \in Users, Reset(u)
      PROVE TypeOK'
  BY <1>9 DEF Reset, TypeOK
<1>10. CASE UNCHANGED vars
  BY <1>10 DEF vars, TypeOK
<1> QED
  BY <1>1, <1>2, <1>3, <1>4, <1>5, <1>6, <1>7, <1>8, <1>9, <1>10 DEF Next

\* The tables, the leases and the processes keep their types, and every row
\* and process that refers to another has its reference.
THEOREM TypeCorrect == Spec => []TypeOK
<1>1. Init => TypeOK
  BY TypeInit, ConstantsAssumption
<1>2. TypeOK /\ [Next]_vars => TypeOK'
  BY TypeNext, ConstantsAssumption
<1> QED
  BY <1>1, <1>2, PTL DEF Spec

-----------------------------------------------------------------------------
(* Attempts only move forward                                              *)

\* What a step may do to one row of task_attempts.
RowStep(r) ==
  \/ attempt'[r] = attempt[r]
  \/ attempt[r].status = "ABSENT"
  \/ /\ attempt[r].status \in {"PENDING", "RUNNING"}
     /\ attempt'[r].payload = attempt[r].payload
     /\ attempt'[r].attemptedAt = attempt[r].attemptedAt

LEMMA RowNext ==
  ASSUME ConstantsAssumption, TypeOK, [Next]_vars, NEW r \in Requests
  PROVE  RowStep(r)
<1>1. CASE UNCHANGED attempt
  BY <1>1 DEF RowStep
<1>2. ASSUME NEW h \in Handlers, CommitSubmit(h)
      PROVE RowStep(r)
  BY <1>2 DEF CommitSubmit, RowStep, TypeOK
<1>3. ASSUME NEW g \in Graders, NEW q \in Requests, Claimable(q), LeaseTo(g, q)
      PROVE RowStep(r)
  <2>1. attempt[q] \in AttemptType /\ attempt \in [Requests -> AttemptType]
    BY DEF TypeOK
  <2> QED
    BY <1>3, <2>1 DEF Claimable, LeaseTo, RowStep, AttemptType
<1>4. ASSUME NEW g \in Graders, PersistResult(g)
      PROVE RowStep(r)
  <2>1. attempt \in [Requests -> AttemptType] /\ attempt[r] \in AttemptType
    BY DEF TypeOK
  <2>2. CASE UNCHANGED attempt
    BY <2>2 DEF RowStep
  <2>3. CASE HoldsLease(g)
    BY <1>4, <2>1, <2>3, PersistedRow DEF RowStep
  <2> QED
    BY <1>4, <2>2, <2>3 DEF PersistResult
<1> QED
  <2>1. ASSUME NEW w \in Workers, ClaimNext(w) PROVE RowStep(r)
    BY <1>3, <2>1 DEF ClaimNext
  <2>2. ASSUME NEW h \in Handlers, ClaimAttempt(h) PROVE RowStep(r)
    <3>1. form[h].req \in Requests
      BY <2>2 DEF ClaimAttempt, TypeOK, FormType
    <3> QED
      BY <1>1, <1>3, <2>2, <3>1 DEF ClaimAttempt
  <2> QED
    BY <1>1, <1>2, <1>4, <2>1, <2>2
    DEF Next, Tick, BeginSubmit, Grade, Crash, Reset, vars

\* A decided attempt is never decided again, re-leased or overwritten.
THEOREM VerdictsAreFinal == Spec => VerdictIsFinal
<1>1. ConstantsAssumption /\ TypeOK /\ [Next]_vars =>
        [\A r \in Requests : attempt[r].status \in Decided => attempt'[r] = attempt[r]]_vars
  BY RowNext DEF RowStep
<1> QED
  BY <1>1, TypeCorrect, ConstantsAssumption, PTL DEF Spec, VerdictIsFinal

\* A request_id keeps the payload and the time it was first accepted with.
THEOREM RequestsBindOnce == Spec => RequestBindsOnce
<1>1. ConstantsAssumption /\ TypeOK /\ [Next]_vars =>
        [\A r \in Requests : attempt[r].status # "ABSENT" =>
           /\ attempt'[r].payload = attempt[r].payload
           /\ attempt'[r].attemptedAt = attempt[r].attemptedAt]_vars
  BY RowNext DEF RowStep
<1> QED
  BY <1>1, TypeCorrect, ConstantsAssumption, PTL DEF Spec, RequestBindsOnce

-----------------------------------------------------------------------------
(* Leases                                                                  *)

\* Why LeaseExclusive holds: every lease token ever issued is below nextToken,
\* so a new one differs from all those graders still carry.
LeaseInv ==
  /\ \A g \in Graders : job[g].token < nextToken
  /\ \A g1, g2 \in Graders :
       job[g1].pc # "idle" /\ job[g2].pc # "idle" /\ job[g1].token = job[g2].token => g1 = g2

LEMMA LeaseNext == ConstantsAssumption /\ TypeOK /\ LeaseInv /\ [Next]_vars => LeaseInv'
<1> SUFFICES ASSUME ConstantsAssumption, TypeOK, LeaseInv, [Next]_vars PROVE LeaseInv'
  OBVIOUS
<1>0. /\ job \in [Graders -> JobType] /\ nextToken \in Nat \ {0}
      /\ \A g \in Graders : job[g].token \in Nat
  BY DEF TypeOK, JobType
<1>1. CASE UNCHANGED <<job, nextToken>>
  BY <1>1 DEF LeaseInv
<1>2. ASSUME NEW g \in Graders, NEW r \in Requests, LeaseTo(g, r)
      PROVE LeaseInv'
  BY <1>0, <1>2 DEF LeaseTo, LeaseInv
<1>3. ASSUME NEW g \in Graders, Drop(g), UNCHANGED nextToken
      PROVE LeaseInv'
  BY <1>0, <1>3 DEF Drop, NoJob, LeaseInv
<1>4. ASSUME NEW g \in Graders, Grade(g)
      PROVE LeaseInv'
  <2>1. CASE \E v \in Verdicts : job' = [job EXCEPT ![g].pc = "graded", ![g].verdict = v]
    <3>1. \A k \in Graders : /\ job'[k].token = job[k].token
                             /\ job'[k].pc # "idle" => job[k].pc # "idle"
      BY <1>0, <1>4, <2>1 DEF Grade, JobType
    <3> QED
      BY <1>0, <1>4, <3>1 DEF Grade, LeaseInv
  <2> QED
    BY <1>3, <1>4, <2>1 DEF Grade, PossibleVerdicts
<1>5. ASSUME NEW h \in Handlers, ClaimAttempt(h)
      PROVE LeaseInv'
  <2>1. form[h].req \in Requests
    BY <1>5 DEF ClaimAttempt, TypeOK, FormType
  <2> QED
    BY <1>1, <1>2, <1>5, <2>1 DEF ClaimAttempt
<1> QED
  BY <1>1, <1>2, <1>3, <1>4, <1>5
  DEF Next, Tick, BeginSubmit, CommitSubmit, ClaimNext, PersistResult, Crash, Reset, vars

\* At most one grader can still persist a result for an attempt.
THEOREM LeasesAreExclusive == Spec => []LeaseExclusive
<1>1. Init => LeaseInv
  BY DEF Init, NoJob, LeaseInv
<1>2. TypeOK /\ LeaseInv => LeaseExclusive
  BY DEF LeaseInv, LeaseExclusive, HoldsLease
<1> QED
  BY <1>1, <1>2, LeaseNext, TypeCorrect, ConstantsAssumption, PTL DEF Spec

-----------------------------------------------------------------------------
(* The ledger                                                              *)

\* A row of task_completions and the attempt it was paid for.
Backed(c) ==
  /\ attempt[c.first].status = "COMPLETED"
  /\ c.key = Key(c.first)
  /\ attempt[c.first].coins = Reward[Key(c.first)[2]]

\* Why the reward properties hold: resets lie in the past, only a judged
\* attempt has an answer, a paid attempt has its own completion, no two
\* completions share a key, and each is backed by the attempt it was paid for.
LedgerInv ==
  /\ \A u \in Users : resetAt[u] <= now
  /\ \A r \in Requests : attempt[r].isCorrect # "null" => attempt[r].status = "COMPLETED"
  /\ \A r \in Requests : attempt[r].coins > 0 =>
       attempt[r].status = "COMPLETED" /\ Completion(r) \in completions
  /\ \A c, d \in completions : c.key = d.key => c = d
  /\ \A c \in completions : Backed(c)

\* NoCorrectAnswerLost, with the key spelled out.
NothingLost ==
  \A r \in Requests :
    attempt[r].isCorrect = "true" /\ IsAfterReset(r) => Key(r) \in Completed

\* A step that neither decides an attempt, nor resets, nor moves the clock
\* back keeps the ledger: decided rows and completions stay as they are.
LEMMA LedgerFrame ==
  ASSUME ConstantsAssumption, TypeOK, TypeOK', LedgerInv, NothingLost,
         UNCHANGED <<completions, resetAt>>, now <= now',
         NEW q, \A r \in Requests : r # q => attempt'[r] = attempt[r],
         q \in Requests => /\ attempt[q].status # "COMPLETED"
                           /\ attempt'[q].isCorrect = "null"
                           /\ attempt'[q].coins = 0
  PROVE  LedgerInv' /\ NothingLost'
<1>1. \A u \in Users : resetAt'[u] <= now'
  BY DEF LedgerInv, TypeOK, ConstantsAssumption
<1>2. \A c \in completions : c.first \in Requests /\ c.first # q /\ Backed(c)'
  BY DEF LedgerInv, Backed, Key, TypeOK
<1>3. \A r \in Requests : attempt'[r].coins > 0 =>
        attempt'[r].status = "COMPLETED" /\ Completion(r)' \in completions
  BY DEF LedgerInv, Completion, Key
<1>4. NothingLost'
  BY DEF NothingLost, IsAfterReset, Key, Completed
<1> QED
  BY <1>1, <1>2, <1>3, <1>4 DEF LedgerInv

LEMMA LedgerPersist ==
  ASSUME ConstantsAssumption, TypeOK, TypeOK', LedgerInv, NothingLost,
         NEW g \in Graders, PersistResult(g)
  PROVE  LedgerInv' /\ NothingLost'
<1> DEFINE r == job[g].req
           v == job[g].verdict
<1>0. UNCHANGED <<now, resetAt>>
  BY DEF PersistResult
<1>1. CASE UNCHANGED <<attempt, completions>>
  <2>1. \A q \in Requests : attempt'[q] = attempt[q]
    BY <1>1
  <2>2. now <= now'
    BY <1>0 DEF TypeOK, ConstantsAssumption
  <2>3. PICK q : q \notin Requests
    OBVIOUS
  <2> QED
    BY <1>0, <1>1, <2>1, <2>2, <2>3, LedgerFrame
<1>2. CASE HoldsLease(g)
  <2>1. /\ r \in Requests /\ v \in Verdicts
        /\ attempt[r].status = "RUNNING"
        /\ attempt'[r].status = IF v = "SYSTEM_ERROR" THEN "FAILED" ELSE "COMPLETED"
        /\ attempt'[r].isCorrect = Correctness(v)
        /\ attempt'[r].coins = IF Pays(r, v) THEN Reward[attempt[r].payload.task] ELSE 0
        /\ attempt'[r].payload = attempt[r].payload
        /\ attempt'[r].attemptedAt = attempt[r].attemptedAt
        /\ attempt' = [attempt EXCEPT ![r] = attempt'[r]]
    BY <1>2, PersistedRow
  <2>2. \A q \in Requests : q # r => attempt'[q] = attempt[q]
    BY <2>1 DEF TypeOK
  <2>3. \A q \in Requests : Key(q)' = Key(q) /\ Completion(q)' = Completion(q)
                            /\ (IsAfterReset(q)' <=> IsAfterReset(q))
    BY <1>0, <2>1, <2>2 DEF Key, Completion, IsAfterReset
  <2>4. \A c \in completions : c.first \in Requests /\ c.first # r /\ Backed(c)'
    BY <2>1, <2>2, <2>3 DEF LedgerInv, Backed, TypeOK
  <2>5. /\ \A u \in Users : resetAt'[u] <= now'
        /\ \A q \in Requests : attempt'[q].isCorrect # "null" => attempt'[q].status = "COMPLETED"
    BY <1>0, <2>1, <2>2 DEF LedgerInv, Correctness
  <2>6. CASE Pays(r, v)
    <3>1. completions' = completions \cup {Completion(r)} /\ Key(r) \notin Completed
      BY <1>2, <2>6 DEF PersistResult, Pays
    <3>2. Completion(r).first = r /\ Completion(r).key = Key(r)
      BY DEF Completion
    <3>3. /\ attempt'[r].status = "COMPLETED"
          /\ attempt'[r].coins = Reward[Key(r)[2]]
      BY <2>1, <2>6 DEF Key, Pays
    <3>4. \A c, d \in completions' : c.key = d.key => c = d
      BY <3>1, <3>2 DEF LedgerInv, Completed
    <3>5. \A q \in Requests : attempt'[q].coins > 0 =>
            attempt'[q].status = "COMPLETED" /\ Completion(q)' \in completions'
      BY <2>1, <2>2, <2>3, <2>6, <3>1 DEF LedgerInv, Pays
    <3>6. NothingLost'
      BY <2>2, <2>3, <3>1, <3>2 DEF NothingLost, Completed
    <3>7. \A c \in completions' : Backed(c)'
      <4> SUFFICES ASSUME NEW c \in completions' PROVE Backed(c)'
        OBVIOUS
      <4>1. CASE c \in completions
        BY <2>4, <4>1
      <4>2. CASE c = Completion(r)
        BY <2>1, <2>3, <3>2, <3>3, <4>2 DEF Backed
      <4> QED
        BY <3>1, <4>1, <4>2
    <3> QED
      BY <2>5, <3>4, <3>5, <3>6, <3>7 DEF LedgerInv
  <2>7. CASE ~Pays(r, v)
    <3>1. completions' = completions
      BY <1>2, <2>7 DEF PersistResult
    <3>2. \A q \in Requests : attempt'[q].coins > 0 =>
            attempt'[q].status = "COMPLETED" /\ Completion(q)' \in completions'
      BY <2>1, <2>2, <2>3, <2>7, <3>1 DEF LedgerInv
    <3>3. NothingLost'
      <4>1. attempt'[r].isCorrect = "true" /\ IsAfterReset(r) => Key(r) \in Completed
        BY <2>1, <2>7 DEF Pays, Correctness
      <4> QED
        BY <2>2, <2>3, <3>1, <4>1 DEF NothingLost, Completed
    <3> QED
      BY <2>4, <2>5, <3>1, <3>2, <3>3 DEF LedgerInv
  <2> QED
    BY <2>6, <2>7
<1> QED
  BY <1>1, <1>2 DEF PersistResult

LEMMA LedgerReset ==
  ASSUME ConstantsAssumption, TypeOK, LedgerInv, NothingLost, NEW u \in Users, Reset(u)
  PROVE  LedgerInv' /\ NothingLost'
<1>1. /\ \A w \in Users : resetAt[w] <= resetAt'[w] /\ resetAt'[w] <= now'
      /\ \A w \in Users : resetAt[w] \in Int /\ resetAt'[w] \in Int
  BY DEF Reset, LedgerInv, TypeOK, ConstantsAssumption
<1>2. \A r \in Requests : attempt[r].status # "ABSENT" /\ IsAfterReset(r)' => IsAfterReset(r)
  <2> TAKE r \in Requests
  <2> HAVE attempt[r].status # "ABSENT" /\ IsAfterReset(r)'
  <2>1. attempt[r].payload.user \in Users
    BY KeyType, TypeParts
  <2>2. attempt[r].attemptedAt \in Int
    BY DEF TypeOK, AttemptType, ConstantsAssumption
  <2>3. attempt' = attempt
    BY DEF Reset
  <2> QED
    BY <1>1, <2>1, <2>2, <2>3 DEF IsAfterReset
<1>3. NothingLost'
  BY <1>2 DEF NothingLost, LedgerInv, Reset, Key, Completed
<1>4. \A c \in completions : Backed(c) => Backed(c)'
  BY DEF Backed, Key, Reset
<1> QED
  BY <1>1, <1>3, <1>4 DEF LedgerInv, Reset, Completion, Key

LEMMA LedgerNext ==
  ConstantsAssumption /\ TypeOK /\ LedgerInv /\ NothingLost /\ [Next]_vars
    => LedgerInv' /\ NothingLost'
<1> SUFFICES ASSUME ConstantsAssumption, TypeOK, LedgerInv, NothingLost, [Next]_vars
             PROVE  LedgerInv' /\ NothingLost'
  OBVIOUS
<1>0. TypeOK'
  BY TypeNext
<1>1. CASE UNCHANGED <<attempt, completions, resetAt>> /\ now <= now'
  <2>1. PICK q : q \notin Requests
    OBVIOUS
  <2> QED
    BY <1>0, <1>1, <2>1, LedgerFrame
<1>2. ASSUME NEW h \in Handlers, CommitSubmit(h)
      PROVE LedgerInv' /\ NothingLost'
  <2>1. now <= now'
    BY <1>2 DEF CommitSubmit, TypeOK, ConstantsAssumption
  <2>2. CASE UNCHANGED attempt
    BY <1>1, <1>2, <2>1, <2>2 DEF CommitSubmit
  <2>3. CASE attempt[form[h].req].status = "ABSENT"
    <3>1. form[h].req \in Requests
      BY <1>2 DEF CommitSubmit, TypeOK, FormType
    <3>2. attempt' = [attempt EXCEPT ![form[h].req] =
                        [NoAttempt EXCEPT !.status = "PENDING", !.payload = form[h].payload,
                                          !.attemptedAt = form[h].beganAt]]
      BY <1>2, <2>3 DEF CommitSubmit
    <3>3. /\ attempt'[form[h].req].isCorrect = "null" /\ attempt'[form[h].req].coins = 0
          /\ \A r \in Requests : r # form[h].req => attempt'[r] = attempt[r]
      BY <3>1, <3>2 DEF TypeOK, NoAttempt
    <3> QED
      BY <1>0, <1>2, <2>1, <2>3, <3>3, LedgerFrame DEF CommitSubmit
  <2> QED
    BY <1>2, <2>2, <2>3 DEF CommitSubmit
<1>3. ASSUME NEW g \in Graders, NEW q \in Requests, Claimable(q), LeaseTo(g, q),
             UNCHANGED <<now, completions, resetAt>>
      PROVE LedgerInv' /\ NothingLost'
  <2>1. now <= now'
    BY <1>3 DEF TypeOK, ConstantsAssumption
  <2>2. attempt \in [Requests -> AttemptType] /\ attempt[q] \in AttemptType
    BY DEF TypeOK
  <2>3. \A r \in Requests : r # q => attempt'[r] = attempt[r]
    BY <1>3, <2>2 DEF LeaseTo
  <2>4. attempt[q].isCorrect = "null" /\ attempt[q].coins = 0
    BY <1>3, <2>2 DEF Claimable, LedgerInv, AttemptType
  <2>5. attempt'[q].isCorrect = "null" /\ attempt'[q].coins = 0
    BY <1>3, <2>2, <2>4 DEF LeaseTo, AttemptType
  <2> QED
    BY <1>0, <1>3, <2>1, <2>3, <2>5, LedgerFrame DEF Claimable
<1>4. ASSUME NEW h \in Handlers, ClaimAttempt(h)
      PROVE LedgerInv' /\ NothingLost'
  <2>1. form[h].req \in Requests /\ now <= now'
    BY <1>4 DEF ClaimAttempt, TypeOK, FormType, ConstantsAssumption
  <2>2. CASE Claimable(form[h].req) /\ LeaseTo(h, form[h].req)
    BY <1>3, <1>4, <2>1, <2>2 DEF ClaimAttempt
  <2>3. CASE UNCHANGED <<attempt, job, nextToken>>
    BY <1>1, <1>4, <2>1, <2>3 DEF ClaimAttempt
  <2> QED
    BY <1>4, <2>2, <2>3 DEF ClaimAttempt
<1>5. ASSUME NEW w \in Workers, ClaimNext(w)
      PROVE LedgerInv' /\ NothingLost'
  BY <1>3, <1>5 DEF ClaimNext
<1>6. now \in Int
  BY DEF TypeOK, ConstantsAssumption
<1>7. CASE Tick
  BY <1>1, <1>6, <1>7 DEF Tick
<1>8. ASSUME NEW h \in Handlers, NEW r \in Requests, NEW p \in Payloads, BeginSubmit(h, r, p)
      PROVE LedgerInv' /\ NothingLost'
  BY <1>1, <1>6, <1>8 DEF BeginSubmit
<1>9. ASSUME NEW g \in Graders, Grade(g) \/ Crash(g)
      PROVE LedgerInv' /\ NothingLost'
  BY <1>1, <1>6, <1>9 DEF Grade, Crash
<1>10. CASE UNCHANGED vars
  BY <1>1, <1>6, <1>10 DEF vars
<1>11. ASSUME NEW g \in Graders, PersistResult(g)
       PROVE LedgerInv' /\ NothingLost'
  BY <1>0, <1>11, LedgerPersist
<1>12. ASSUME NEW u \in Users, Reset(u)
       PROVE LedgerInv' /\ NothingLost'
  BY <1>12, LedgerReset
<1> QED
  BY <1>2, <1>4, <1>5, <1>7, <1>8, <1>9, <1>10, <1>11, <1>12 DEF Next

\* Everything the ledger rests on, in every reachable state.
THEOREM LedgerCorrect == Spec => [](TypeOK /\ LedgerInv /\ NothingLost)
<1>1. Init => LedgerInv /\ NothingLost
  BY ConstantsAssumption DEF Init, NoAttempt, LedgerInv, NothingLost, ConstantsAssumption
<1> QED
  BY <1>1, LedgerNext, TypeCorrect, ConstantsAssumption, PTL DEF Spec

\* A user is paid at most once per task and game day.
THEOREM RewardsAreUnique == Spec => []OneRewardPerDay
<1>1. TypeOK /\ LedgerInv => OneRewardPerDay
  <2> SUFFICES ASSUME TypeOK, LedgerInv, NEW r1 \in Requests, NEW r2 \in Requests,
                      attempt[r1].coins > 0, attempt[r2].coins > 0, Key(r1) = Key(r2)
               PROVE  r1 = r2
    BY DEF OneRewardPerDay
  <2>1. Completion(r1) \in completions /\ Completion(r2) \in completions
    BY DEF LedgerInv
  <2>2. Completion(r1).key = Completion(r2).key
    BY DEF Completion
  <2>3. Completion(r1) = Completion(r2)
    BY <2>1, <2>2 DEF LedgerInv
  <2> QED
    BY <2>3 DEF Completion
<1> QED
  BY <1>1, LedgerCorrect, PTL

\* A correct answer given after the last reset has its rewarded completion.
THEOREM CorrectAnswersAreKept == Spec => []NoCorrectAnswerLost
<1>1. TypeOK /\ LedgerInv /\ NothingLost => NoCorrectAnswerLost
  <2> SUFFICES ASSUME TypeOK, LedgerInv, NothingLost, NEW r \in Requests,
                      attempt[r].isCorrect = "true", IsAfterReset(r)
               PROVE  \E c \in completions :
                        c.key = Key(r) /\ attempt[c.first].coins = Reward[Key(r)[2]]
    BY DEF NoCorrectAnswerLost
  <2>1. PICK c \in completions : c.key = Key(r)
    BY DEF NothingLost, Completed
  <2> QED
    BY <2>1 DEF LedgerInv, Backed
<1> QED
  BY <1>1, LedgerCorrect, PTL

-----------------------------------------------------------------------------
(* Balances                                                                *)

\* One attempt that was not paid yet is accepted, leased or decided, and its
\* user's balance grows by what the row says.
LEMMA LedgerPays ==
  ASSUME ConstantsAssumption, TypeOK, TypeOK', BalanceIsLedger, NEW r \in Requests,
         \A q \in Requests \ {r} : attempt'[q] = attempt[q],
         attempt[r].coins = 0,
         attempt'[r].status # "ABSENT",
         attempt[r].status # "ABSENT" => attempt'[r].payload = attempt[r].payload,
         \A u \in Users : balance'[u] =
           balance[u] + (IF u = attempt'[r].payload.user THEN attempt'[r].coins ELSE 0)
  PROVE  BalanceIsLedger'
<1> SUFFICES ASSUME NEW u \in Users
             PROVE  balance'[u] = SumFunctionOnSet(Coins', AttemptsOf(u)')
  BY DEF BalanceIsLedger
<1>1. PICK f, g, A, B : f = Coins /\ g = Coins' /\ A = AttemptsOf(u) /\ B = AttemptsOf(u)'
  OBVIOUS
<1>2. /\ \A q \in Requests : f[q] \in Int /\ g[q] \in Int
      /\ \A q \in Requests \ {r} : f[q] = g[q]
      /\ f[r] = 0 /\ g[r] = attempt'[r].coins
  BY <1>1 DEF Coins, TypeOK, AttemptType
<1>3. A \subseteq Requests /\ IsFiniteSet(A) /\ B \subseteq Requests
  BY <1>1, FS_Subset DEF AttemptsOf, ConstantsAssumption
<1>4. balance[u] = SumFunctionOnSet(f, A) /\ balance[u] \in Int
  BY <1>1 DEF BalanceIsLedger, TypeOK
<1>5. CASE u = attempt'[r].payload.user
  <2>1. B = A \cup {r} /\ balance'[u] = balance[u] + g[r]
    BY <1>1, <1>2, <1>5 DEF AttemptsOf
  <2>2. CASE r \in A
    <3>1. SumFunctionOnSet(g, A) = SumFunctionOnSet(f, A) - f[r] + g[r]
      BY <1>2, <1>3, <2>2, SumChangesByOne
    <3>2. B = A
      BY <2>1, <2>2
    <3>3. f[r] = 0 /\ g[r] \in Int
      BY <1>2
    <3>4. balance'[u] = SumFunctionOnSet(g, A)
      BY <1>4, <2>1, <3>1, <3>3
    <3> QED BY <1>1, <3>2, <3>4
  <2>3. CASE r \notin A
    <3>1. SumFunctionOnSet(g, A \cup {r}) = g[r] + SumFunctionOnSet(g, A)
      BY <1>2, <1>3, <2>3, SumTakesOneIn
    <3>2. SumFunctionOnSet(f, A) = SumFunctionOnSet(g, A)
      BY <1>2, <1>3, <2>3, SumDependsOnValues
    <3> QED BY <1>1, <1>2, <1>4, <2>1, <3>1, <3>2
  <2> QED BY <2>2, <2>3
<1>6. CASE u # attempt'[r].payload.user
  <2>1. B = A /\ r \notin A /\ balance'[u] = balance[u]
    BY <1>1, <1>4, <1>6 DEF AttemptsOf
  <2>2. SumFunctionOnSet(f, A) = SumFunctionOnSet(g, A)
    BY <1>2, <1>3, <2>1, SumDependsOnValues
  <2> QED BY <1>1, <1>4, <2>1, <2>2
<1> QED BY <1>5, <1>6

LEMMA BalanceNext ==
  ASSUME ConstantsAssumption, TypeOK, LedgerInv, BalanceIsLedger, [Next]_vars
  PROVE  BalanceIsLedger'
<1>0. TypeOK' /\ balance \in [Users -> Nat] /\ attempt \in [Requests -> AttemptType]
  BY TypeNext DEF TypeOK
<1>1. CASE UNCHANGED <<attempt, balance>>
  BY <1>1 DEF BalanceIsLedger, Coins, AttemptsOf
<1>2. ASSUME NEW h \in Handlers, CommitSubmit(h)
      PROVE  BalanceIsLedger'
  <2> DEFINE r == form[h].req
             a == [NoAttempt EXCEPT !.status = "PENDING", !.payload = form[h].payload,
                                    !.attemptedAt = form[h].beganAt]
  <2>1. r \in Requests
    BY <1>2 DEF CommitSubmit, TypeOK, FormType
  <2>2. CASE UNCHANGED attempt
    BY <1>1, <1>2, <2>2 DEF CommitSubmit
  <2>3. CASE attempt[r].status = "ABSENT" /\ attempt' = [attempt EXCEPT ![r] = a]
    <3>1. a.status # "ABSENT" /\ a.coins = 0
      BY DEF NoAttempt
    <3>2. attempt'[r] = a /\ \A q \in Requests \ {r} : attempt'[q] = attempt[q]
      BY <1>0, <2>1, <2>3
    <3>3. attempt[r].coins = 0
      BY <1>0, <2>1, <2>3 DEF LedgerInv, AttemptType
    <3>4. balance' = balance
      BY <1>2 DEF CommitSubmit
    <3> HIDE DEF r, a
    <3> QED BY <1>0, <2>1, <2>3, <3>1, <3>2, <3>3, <3>4, LedgerPays
  <2> QED BY <1>2, <2>2, <2>3 DEF CommitSubmit
<1>3. ASSUME NEW g \in Graders, NEW r \in Requests, Claimable(r), LeaseTo(g, r),
             UNCHANGED balance
      PROVE  BalanceIsLedger'
  <2>1. /\ attempt'[r].status # "ABSENT" /\ attempt'[r].payload = attempt[r].payload
        /\ attempt'[r].coins = attempt[r].coins
        /\ \A q \in Requests \ {r} : attempt'[q] = attempt[q]
    BY <1>0, <1>3 DEF LeaseTo, AttemptType
  <2>2. attempt[r].coins = 0
    BY <1>0, <1>3 DEF LedgerInv, AttemptType, Claimable
  <2> QED BY <1>0, <1>3, <2>1, <2>2, LedgerPays
<1>4. ASSUME NEW w \in Workers, ClaimNext(w)
      PROVE  BalanceIsLedger'
  BY <1>3, <1>4 DEF ClaimNext
<1>5. ASSUME NEW h \in Handlers, ClaimAttempt(h)
      PROVE  BalanceIsLedger'
  <2>1. form[h].req \in Requests
    BY <1>5 DEF ClaimAttempt, TypeOK, FormType
  <2> QED BY <1>1, <1>3, <1>5, <2>1 DEF ClaimAttempt
<1>6. ASSUME NEW g \in Graders, PersistResult(g)
      PROVE  BalanceIsLedger'
  <2>1. CASE UNCHANGED <<attempt, balance>>
    BY <1>1, <2>1
  <2>2. CASE HoldsLease(g)
    <3>1. PICK r, v, n : /\ r = job[g].req /\ v = job[g].verdict
                         /\ n = Reward[attempt[r].payload.task]
      OBVIOUS
    <3>2. /\ r \in Requests /\ attempt[r].payload.user \in Users /\ n \in Nat
          /\ attempt[r].status = "RUNNING"
          /\ attempt'[r].status # "ABSENT"
          /\ attempt'[r].coins = IF Pays(r, v) THEN n ELSE 0
          /\ attempt'[r].payload = attempt[r].payload
          /\ attempt' = [attempt EXCEPT ![r] = attempt'[r]]
      BY <1>6, <2>2, <3>1, PersistedRow
    <3>3. /\ attempt[r].coins = 0
          /\ \A q \in Requests \ {r} : attempt'[q] = attempt[q]
      BY <1>0, <3>2 DEF LedgerInv, AttemptType
    <3>4. balance' = IF Pays(r, v) THEN [balance EXCEPT ![attempt[r].payload.user] = @ + n]
                                   ELSE balance
      BY <1>6, <2>2, <3>1 DEF PersistResult
    <3>5. \A u \in Users : balance'[u] =
            balance[u] + (IF u = attempt'[r].payload.user THEN attempt'[r].coins ELSE 0)
      BY <1>0, <3>2, <3>4
    <3> QED BY <1>0, <3>2, <3>3, <3>5, LedgerPays
  <2> QED BY <1>6, <2>1, <2>2 DEF PersistResult
<1> QED BY <1>1, <1>2, <1>4, <1>5, <1>6
        DEF Next, Tick, BeginSubmit, Grade, Crash, Reset, vars

\* What a user owns is the sum of what their attempts were paid: however often
\* an attempt is graded, the coins and the row that records them go together.
THEOREM BalancesAreLedgers == Spec => []BalanceIsLedger
<1>1. ConstantsAssumption /\ Init => BalanceIsLedger
  <2> SUFFICES ASSUME Init, NEW u \in Users
               PROVE  balance[u] = SumFunctionOnSet(Coins, AttemptsOf(u))
    BY DEF BalanceIsLedger
  <2>1. AttemptsOf(u) = {} /\ balance[u] = 0
    BY DEF Init, NoAttempt, AttemptsOf
  <2> QED BY <2>1, SumOfNothing
<1>2. ConstantsAssumption /\ TypeOK /\ LedgerInv /\ BalanceIsLedger /\ [Next]_vars
        => BalanceIsLedger'
  BY BalanceNext
<1> QED BY <1>1, <1>2, LedgerCorrect, ConstantsAssumption, PTL DEF Spec

-----------------------------------------------------------------------------
(* Grading implements AttemptLedger                                        *)

Entries == [r \in Requests |-> Entry(attempt[r])]

\* One row that keeps its phase is invisible to the ledger.
LEMMA LedgerStutter ==
  ASSUME \A r \in Requests : Entry(attempt'[r]) = Entry(attempt[r]),
         UNCHANGED <<completions, balance, resetAt>>
  PROVE  UNCHANGED Ledger!vars
<1>1. Entries' = Entries
  BY DEF Entries
<1>2. Completed' = Completed
  BY DEF Completed
<1> QED
  BY <1>1, <1>2 DEF Ledger!vars, Entries

LEMMA LedgerInit == ConstantsAssumption /\ Init => Ledger!Init
<1> SUFFICES ASSUME Init PROVE Ledger!Init
  OBVIOUS
<1>1. Entries = [r \in Requests |-> Ledger!NoEntry]
  BY DEF Init, Entries, Entry, Phase, NoAttempt, Ledger!NoEntry
<1>2. Completed = {}
  BY DEF Init, Completed
<1> QED
  BY <1>1, <1>2 DEF Init, Entries, Ledger!Init

LEMMA LedgerAccept ==
  ASSUME ConstantsAssumption, TypeOK, NEW h \in Handlers, CommitSubmit(h),
         attempt[form[h].req].status = "ABSENT"
  PROVE  Ledger!Accept(form[h].req)
<1> DEFINE r == form[h].req
           p == form[h].payload
           t == form[h].beganAt
           e == [phase |-> "open", payload |-> p, at |-> t]
<1>1. r \in Requests /\ p \in Payloads /\ t \in Time
  BY DEF CommitSubmit, TypeOK, FormType
<1>2. attempt' = [attempt EXCEPT ![r] =
                    [NoAttempt EXCEPT !.status = "PENDING", !.payload = p, !.attemptedAt = t]]
  BY DEF CommitSubmit
<1>3. Entry(attempt'[r]) = e /\ \A q \in Requests : q # r => attempt'[q] = attempt[q]
  BY <1>1, <1>2 DEF TypeOK, NoAttempt, Entry, Phase
<1>4. Entries' = [Entries EXCEPT ![r] = e]
  BY <1>1, <1>3 DEF Entries
<1>5. Entries[r].phase = "absent"
  <2>1. Phase(attempt[r]) = "absent"
    BY DEF Phase
  <2>2. Entries[r] = Entry(attempt[r])
    BY <1>1 DEF Entries
  <2> QED
    BY <2>1, <2>2 DEF Entry
<1>6. Completed' = Completed /\ UNCHANGED <<balance, resetAt>>
  BY DEF CommitSubmit, Completed
<1> QED
  BY <1>1, <1>4, <1>5, <1>6 DEF Entries, Ledger!Accept

LEMMA LedgerDecide ==
  ASSUME ConstantsAssumption, TypeOK, NEW g \in Graders, PersistResult(g), HoldsLease(g)
  PROVE  Ledger!DecideUnpaid(job[g].req) \/ Ledger!DecideRight(job[g].req)
<1> DEFINE r == job[g].req
           v == job[g].verdict
           phase == IF v = "SYSTEM_ERROR" THEN "void"
                    ELSE IF v = "ACCEPTED" THEN "right" ELSE "wrong"
<1>1. /\ r \in Requests /\ v \in Verdicts
      /\ attempt[r].status = "RUNNING"
      /\ attempt'[r].status = IF v = "SYSTEM_ERROR" THEN "FAILED" ELSE "COMPLETED"
      /\ attempt'[r].isCorrect = Correctness(v)
      /\ attempt'[r].payload = attempt[r].payload
      /\ attempt'[r].attemptedAt = attempt[r].attemptedAt
      /\ attempt' = [attempt EXCEPT ![r] = attempt'[r]]
  BY PersistedRow
<1>2. \A q \in Requests : q # r => attempt'[q] = attempt[q]
  BY <1>1 DEF TypeOK
<1>3. Entries[r].phase = "open" /\ Entries[r] = Entry(attempt[r])
  <2>1. Phase(attempt[r]) = "open"
    BY <1>1 DEF Phase
  <2>2. Entries[r] = Entry(attempt[r])
    BY <1>1 DEF Entries
  <2> QED
    BY <2>1, <2>2 DEF Entry
<1>4. Phase(attempt'[r]) = phase
  BY <1>1 DEF Phase, Correctness
<1>5. Entry(attempt'[r]) = [Entries[r] EXCEPT !.phase = phase]
  BY <1>1, <1>3, <1>4 DEF Entry
<1>6. Entries' = [Entries EXCEPT ![r].phase = phase]
  BY <1>1, <1>2, <1>5 DEF Entries
<1>7. Ledger!DecideTo(r, phase)
  BY <1>3, <1>6 DEF Entries, Ledger!DecideTo
<1>8. UNCHANGED resetAt
  BY DEF PersistResult
<1>9. CASE v # "ACCEPTED"
  <2>1. phase \in {"wrong", "void"}
    BY <1>9
  <2>2. Completed' = Completed /\ balance' = balance
    BY <1>9 DEF PersistResult, Pays, Completed
  <2> QED
    BY <1>7, <1>8, <2>1, <2>2 DEF Ledger!DecideUnpaid
<1>10. CASE v = "ACCEPTED"
  <2>1. /\ Ledger!EntryKey(Entry(attempt[r])) = Key(r)
        /\ Entry(attempt[r]).payload = attempt[r].payload
        /\ Entry(attempt[r]).at = attempt[r].attemptedAt
    BY DEF Ledger!EntryKey, Entry, Key, Ledger!Day, Day
  <2>2. Pays(r, v) <=> Ledger!Earns(Entry(attempt[r]))
    BY <1>10, <2>1 DEF Pays, IsAfterReset, Ledger!Earns
  <2>3. CASE Pays(r, v)
    <3>1. completions' = completions \cup {Completion(r)}
      BY <2>3 DEF PersistResult
    <3>2. Completed' = Completed \cup {Key(r)}
      <4>1. Completion(r).key = Key(r)
        BY DEF Completion
      <4> HIDE DEF r
      <4> QED
        BY <3>1, <4>1 DEF Completed
    <3>3. balance' = [balance EXCEPT ![attempt[r].payload.user] =
                        @ + Reward[attempt[r].payload.task]]
      BY <2>3 DEF PersistResult
    <3> QED
      BY <1>3, <1>7, <1>8, <1>10, <2>1, <2>2, <2>3, <3>2, <3>3 DEF Ledger!DecideRight, Entries
  <2>4. CASE ~Pays(r, v)
    <3>1. Completed' = Completed /\ balance' = balance
      BY <2>4 DEF PersistResult, Completed
    <3> QED
      BY <1>3, <1>7, <1>8, <1>10, <2>2, <2>4, <3>1 DEF Ledger!DecideRight, Entries
  <2> QED
    BY <2>3, <2>4
<1> QED
  BY <1>9, <1>10

LEMMA LedgerStep ==
  ConstantsAssumption /\ TypeOK /\ LedgerInv /\ [Next]_vars => [Ledger!Next]_(Ledger!vars)
<1> SUFFICES ASSUME ConstantsAssumption, TypeOK, LedgerInv, [Next]_vars
             PROVE  Ledger!Next \/ UNCHANGED Ledger!vars
  OBVIOUS
<1>1. CASE UNCHANGED <<attempt, completions, balance, resetAt>>
  BY <1>1, LedgerStutter
<1>2. ASSUME NEW h \in Handlers, CommitSubmit(h)
      PROVE Ledger!Next \/ UNCHANGED Ledger!vars
  <2>1. form[h].req \in Requests
    BY <1>2 DEF CommitSubmit, TypeOK, FormType
  <2>2. CASE attempt[form[h].req].status = "ABSENT"
    BY <1>2, <2>1, <2>2, LedgerAccept DEF Ledger!Next
  <2>3. CASE UNCHANGED attempt
    BY <1>1, <1>2, <2>3 DEF CommitSubmit
  <2> QED
    BY <1>2, <2>2, <2>3 DEF CommitSubmit
<1>3. ASSUME NEW g \in Graders, NEW r \in Requests, Claimable(r), LeaseTo(g, r),
             UNCHANGED <<completions, balance, resetAt>>
      PROVE Ledger!Next \/ UNCHANGED Ledger!vars
  <2>1. attempt \in [Requests -> AttemptType] /\ attempt[r] \in AttemptType
    BY DEF TypeOK
  <2>2. /\ attempt'[r].status = "RUNNING"
        /\ attempt'[r].payload = attempt[r].payload
        /\ attempt'[r].attemptedAt = attempt[r].attemptedAt
        /\ \A q \in Requests : q # r => attempt'[q] = attempt[q]
    BY <1>3, <2>1 DEF LeaseTo, AttemptType
  <2>3. Phase(attempt[r]) = "open" /\ Phase(attempt'[r]) = "open"
    BY <1>3, <2>2 DEF Phase, Claimable
  <2>4. \A q \in Requests : Entry(attempt'[q]) = Entry(attempt[q])
    BY <2>2, <2>3 DEF Entry
  <2> QED
    BY <1>3, <2>4, LedgerStutter
<1>4. ASSUME NEW w \in Workers, ClaimNext(w)
      PROVE Ledger!Next \/ UNCHANGED Ledger!vars
  BY <1>3, <1>4 DEF ClaimNext
<1>5. ASSUME NEW h \in Handlers, ClaimAttempt(h)
      PROVE Ledger!Next \/ UNCHANGED Ledger!vars
  <2>1. form[h].req \in Requests
    BY <1>5 DEF ClaimAttempt, TypeOK, FormType
  <2>2. CASE Claimable(form[h].req) /\ LeaseTo(h, form[h].req)
    BY <1>3, <1>5, <2>1, <2>2 DEF ClaimAttempt
  <2>3. CASE UNCHANGED <<attempt, job, nextToken>>
    BY <1>1, <1>5, <2>3 DEF ClaimAttempt
  <2> QED
    BY <1>5, <2>2, <2>3 DEF ClaimAttempt
<1>6. ASSUME NEW g \in Graders, PersistResult(g)
      PROVE Ledger!Next \/ UNCHANGED Ledger!vars
  <2>1. CASE HoldsLease(g)
    <3>1. job[g].req \in Requests
      BY <1>6, <2>1, PersistedRow
    <3> QED
      BY <1>6, <2>1, <3>1, LedgerDecide DEF Ledger!Next
  <2>2. CASE ~HoldsLease(g)
    BY <1>1, <1>6, <2>2 DEF PersistResult
  <2> QED
    BY <2>1, <2>2
<1>7. ASSUME NEW u \in Users, Reset(u)
      PROVE Ledger!Next \/ UNCHANGED Ledger!vars
  <2>1. now \in Time /\ now >= resetAt[u] /\ resetAt' = [resetAt EXCEPT ![u] = now]
    BY <1>7 DEF Reset, TypeOK, LedgerInv, ConstantsAssumption
  <2>2. Entries' = Entries /\ Completed' = Completed /\ balance' = balance
    BY <1>7 DEF Reset, Entries, Completed
  <2>3. Ledger!Forget(u)
    BY <2>1, <2>2 DEF Entries, Ledger!Forget
  <2> QED
    BY <2>3 DEF Ledger!Next
<1>8. CASE Tick
  BY <1>1, <1>8 DEF Tick
<1>9. ASSUME NEW h \in Handlers, NEW r \in Requests, NEW p \in Payloads, BeginSubmit(h, r, p)
      PROVE Ledger!Next \/ UNCHANGED Ledger!vars
  BY <1>1, <1>9 DEF BeginSubmit
<1>10. ASSUME NEW g \in Graders, Grade(g) \/ Crash(g)
       PROVE Ledger!Next \/ UNCHANGED Ledger!vars
  BY <1>1, <1>10 DEF Grade, Crash
<1>11. CASE UNCHANGED vars
  BY <1>1, <1>11 DEF vars
<1> QED
  BY <1>2, <1>4, <1>5, <1>6, <1>7, <1>8, <1>9, <1>10, <1>11 DEF Next

\* Seen from outside, every behaviour of the graders is one of the ledger:
\* leases, expiries, retries and crashes decide and pay nothing twice.
THEOREM GradingImplementsLedger == Spec => ImplementsLedger
<1>1. Spec => Ledger!Init /\ [][Ledger!Next]_(Ledger!vars)
  BY LedgerInit, LedgerStep, LedgerCorrect, ConstantsAssumption, PTL DEF Spec
<1> QED
  BY <1>1 DEF ImplementsLedger, Ledger!Spec
=============================================================================
