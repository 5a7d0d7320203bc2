------------------------------ MODULE Sandbox ------------------------------
(******************************************************************************)
(* How a process grades submitted code (grading/runners.py, sql_sandbox.py,   *)
(* sandbox/runner.py, infra/docker/grader/runner.py): the worker's loop and   *)
(* the API's threads that serve POST /attempts/test.                          *)
(*                                                                            *)
(* A thread takes a slot of its domain's sandbox.  Python code runs in a      *)
(* container of its own, with the limits of the runner inside it and of the   *)
(* process outside.  A statement of SQL runs, case by case, in a schema made  *)
(* by one connection and used by another, which is dropped in the end.        *)
(*                                                                            *)
(* What is run, the Docker daemon and the grading database are external: each *)
(* case comes out as any of its outcomes, connections fail at any time.       *)
(* Operators named Faulty... are plausible bugs, used by no specification.    *)
(******************************************************************************)
EXTENDS Integers, FiniteSets, Sequences

CONSTANTS
  Threads,         \* threads of the process
  MaxConcurrency,  \* settings.grading_max_concurrency
  CaseCount,       \* the test cases of a task
  Failures,        \* the verdicts of failing cases told apart
  MaxLeft          \* bound: schemas left behind, and containers when a call begins

Verdicts ==
  {"ACCEPTED", "WRONG_ANSWER", "SYNTAX_ERROR", "RUNTIME_ERROR", "TIMEOUT",
   "OUTPUT_LIMIT", "MEMORY_LIMIT", "SYSTEM_ERROR"}

ASSUME SandboxAssumption ==
  /\ IsFiniteSet(Threads)
  /\ Failures \subseteq Verdicts \ {"ACCEPTED"}
  /\ MaxConcurrency \in Nat \ {0}
  /\ CaseCount \in Nat \ {0}
  /\ MaxLeft \in Nat

Domains == {"PYTHON", "SQL"}

VARIABLES
  job,       \* what each thread is doing
  schemas,    \* threads whose schema exists
  submission,    \* the submission's transaction: none, open, or closed by its client
  container,  \* the thread's container: none, created, running
  left        \* schemas and containers nobody looks after any more

sandboxVars == <<job, schemas, submission, container, left>>

NoJob == [pc |-> "idle", domain |-> "none", outcomes |-> <<>>, passed |-> 0,
           verdict |-> "none"]
NothingLeft == [schemas |-> 0, containers |-> 0]

SandboxInit ==
  /\ job = [t \in Threads |-> NoJob]
  /\ schemas = {}
  /\ submission = [t \in Threads |-> "none"]
  /\ container = [t \in Threads |-> "none"]
  /\ left = NothingLeft

\* Inside "with self._slots".
FaultyHoldsSlot(t) ==  \* the container is removed outside
  job[t].pc \in {"case", "setup", "connect", "run", "close", "drop", "launch", "docker"}
LeakyHoldsSlot(t) ==  \* given back by the last line, not on the way of an error
  \/ job[t].pc \in {"case", "setup", "connect", "run", "close", "drop", "launch", "docker", "remove"}
  \/ job[t].pc = "done" /\ job[t].verdict = "SYSTEM_ERROR"
HoldsSlot(t) ==
  job[t].pc \in {"case", "setup", "connect", "run", "close", "drop",
                  "launch", "docker", "remove"}

At(t, pc) == job' = [job EXCEPT ![t].pc = pc]
Answer(t, verdict) == job' = [job EXCEPT ![t].pc = "done", ![t].verdict = verdict]

-----------------------------------------------------------------------------
(* Either domain                                                              *)

\* parse_test_cases cannot read the task's; Python code lacks the construct that
\* its concept asks for.
Unreadable == {"SYSTEM_ERROR"}
LacksConstruct(domain) == IF domain = "PYTHON" THEN {"WRONG_ANSWER"} ELSE {}

\* The verdicts without a sandbox.
AtOnce(domain) == Unreadable \cup LacksConstruct(domain)

BeginGrade(t, domain) ==
  LET begun == [NoJob EXCEPT !.pc = "waiting", !.domain = domain] IN
  /\ job[t].pc \in {"idle", "done"}
  /\ left.containers <= MaxLeft
  /\ job' \in {[job EXCEPT ![t] = c] :
        c \in {begun} \cup {[begun EXCEPT !.pc = "done", !.verdict = v] : v \in AtOnce(domain)}}
  /\ UNCHANGED <<schemas, submission, container, left>>

TakeSlot(t) ==
  /\ job[t].pc = "waiting"
  /\ Cardinality({u \in Threads : HoldsSlot(u) /\ job[u].domain = job[t].domain}) < MaxConcurrency
  /\ At(t, IF job[t].domain = "SQL" THEN "case" ELSE "launch")
  /\ UNCHANGED <<schemas, submission, container, left>>

-----------------------------------------------------------------------------
(* SQL: SQLSandbox.grade, _grade_case                                         *)

\* How the statement, the queries and the comparison of a case come out.
SqlOutcomes == {"pass"} \cup (Failures \ {"MEMORY_LIMIT"})

\* _expected_spec: what is expected cannot be read; validate_sql: the statement is
\* not of the kind asked for.
Unspecified == {"SYSTEM_ERROR"}
NotAllowed == {"RUNTIME_ERROR"}

\* A case that is not run, also for want of a database (SYSTEM_ERROR again), or
\* its schema.
OpenCase(t) ==
  /\ job[t].pc = "case"
  /\ \/ \E v \in Unspecified \cup NotAllowed : Answer(t, v) /\ UNCHANGED schemas
     \/ At(t, "setup") /\ schemas' = schemas \cup {t}
  /\ UNCHANGED <<submission, container, left>>

\* The case's own statements, by the connection that made the schema.
SetUp(t) ==
  /\ job[t].pc = "setup"
  /\ \/ At(t, "connect")
     \/ job' = [job EXCEPT ![t].pc = "drop", ![t].verdict = "SYSTEM_ERROR"]
  /\ UNCHANGED <<schemas, submission, container, left>>

\* A refused second connection is answered like an error of the submission.
Connect(t) ==
  /\ job[t].pc = "connect"
  /\ \/ At(t, "run") /\ submission' = [submission EXCEPT ![t] = "open"]
     \/ /\ job' = [job EXCEPT ![t].pc = "drop", ![t].verdict = "RUNTIME_ERROR"]
        /\ UNCHANGED submission
  /\ UNCHANGED <<schemas, container, left>>

\* The statement, the verification or reference query and the comparison; the
\* transaction is rolled back only after a pass.
Execute(t) ==
  /\ job[t].pc = "run"
  /\ \E o \in SqlOutcomes :
       /\ job' = [job EXCEPT ![t].pc = "close", ![t].outcomes = Append(@, o),
                               ![t].verdict = IF o = "pass" THEN "none" ELSE o]
       /\ submission' = [submission EXCEPT ![t] = IF o = "pass" THEN "none" ELSE "open"]
  /\ UNCHANGED <<schemas, container, left>>

\* closing(submission): the server ends the transaction when it notices.
CloseSubmission(t) ==
  /\ job[t].pc = "close"
  /\ At(t, "drop")
  /\ submission' = [submission EXCEPT ![t] = IF @ = "open" THEN "closed" ELSE @]
  /\ UNCHANGED <<schemas, container, left>>

SessionEnds(t) ==
  /\ submission[t] = "closed"
  /\ submission' = [submission EXCEPT ![t] = "none"]
  /\ UNCHANGED <<job, schemas, container, left>>

\* The first case that does not pass decides.
NextCase(t) ==
  LET passed == job[t].passed + 1 IN
  IF job[t].verdict # "none" THEN At(t, "done")
  ELSE IF passed < CaseCount
  THEN job' = [job EXCEPT ![t].pc = "case", ![t].passed = passed]
  ELSE job' = [job EXCEPT ![t].pc = "done", ![t].passed = passed, ![t].verdict = "ACCEPTED"]

\* DROP SCHEMA waits for the locks of the submission's transaction.  Failing,
\* it makes whatever the verdict was a system error.
FaultyDropSchema(t) ==  \* or not
  /\ job[t].pc = "drop" /\ submission[t] = "none"
  /\ schemas' = schemas \ {t} /\ NextCase(t)
  /\ left' \in {left, [left EXCEPT !.schemas = IF @ < MaxLeft THEN @ + 1 ELSE @]}
  /\ UNCHANGED <<submission, container>>
DropSchema(t) ==
  /\ job[t].pc = "drop"
  /\ submission[t] = "none"
  /\ schemas' = schemas \ {t}
  /\ \/ NextCase(t) /\ UNCHANGED left
     \/ /\ left.schemas < MaxLeft
        /\ Answer(t, "SYSTEM_ERROR")
        /\ left' = [left EXCEPT !.schemas = @ + 1]
  /\ UNCHANGED <<submission, container>>

-----------------------------------------------------------------------------
(* Python: DockerSandbox.grade and the runner in the container                *)

CaseOutcomes == {"pass"} \cup (Failures \ {"SYNTAX_ERROR", "SYSTEM_ERROR"})

\* What the runner sees of the cases: it stops at the first that fails.
Runs ==
  {<<>>} \cup {[i \in 1 .. n |-> IF i < n THEN "pass" ELSE o] :
               n \in 1 .. CaseCount, o \in CaseOutcomes \ {"pass"}}
         \cup {[i \in 1 .. CaseCount |-> "pass"]}

\* The runner's report: nothing is run of what does not compile.
RunnerVerdict(run) ==
  IF run = <<>> THEN "SYNTAX_ERROR" ELSE IF run[Len(run)] = "pass" THEN "ACCEPTED" ELSE run[Len(run)]
RunnerPassed(run) ==
  IF run = <<>> \/ run[Len(run)] = "pass" THEN Len(run) ELSE Len(run) - 1

Launch(t) ==
  /\ job[t].pc = "launch"
  /\ \/ Answer(t, "SYSTEM_ERROR") /\ UNCHANGED container
     \/ At(t, "docker") /\ container' = [container EXCEPT ![t] = "created"]
  /\ UNCHANGED <<schemas, submission, left>>

ContainerStarts(t) ==
  /\ container[t] = "created"
  /\ container' = [container EXCEPT ![t] = "running"]
  /\ UNCHANGED <<job, schemas, submission, left>>

\* docker run returns and --rm has removed the container: a report, a kill
\* (137), or anything else.
ContainerExits(t) ==
  /\ job[t].pc = "docker" /\ container[t] = "running"
  /\ \/ \E run \in Runs :
          job' = [job EXCEPT ![t].pc = "done", ![t].outcomes = run,
                               ![t].passed = RunnerPassed(run), ![t].verdict = RunnerVerdict(run)]
     \/ \E v \in {"MEMORY_LIMIT", "SYSTEM_ERROR"} : Answer(t, v)
  /\ container' = [container EXCEPT ![t] = "none"]
  /\ UNCHANGED <<schemas, submission, left>>

\* The time limit kills the docker client, not what it started.
HostTimeout(t) ==
  /\ job[t].pc = "docker"
  /\ job' = [job EXCEPT ![t].pc = "remove", ![t].verdict = "TIMEOUT"]
  /\ UNCHANGED <<schemas, submission, container, left>>

\* The cap on its output file kills the client, and the slot is given back
\* before the container is removed.
OutputCapped(t) ==
  /\ job[t].pc = "docker" /\ container[t] = "running"
  /\ job' = [job EXCEPT ![t].pc = "removeLate", ![t].verdict = "OUTPUT_LIMIT"]
  /\ UNCHANGED <<schemas, submission, container, left>>

\* docker rm --force, whose result is ignored: a container the daemon has yet
\* to start is not there to be removed.
Remove(t) ==
  /\ job[t].pc \in {"remove", "removeLate"}
  /\ At(t, "done")
  /\ container' = [container EXCEPT ![t] = "none"]
  /\ left' = IF container[t] = "created" THEN [left EXCEPT !.containers = @ + 1] ELSE left
  /\ UNCHANGED <<schemas, submission>>

\* It ends by itself: its input is closed, or its cases run out of time.
ContainerEnds ==
  \/ /\ left.containers > 0
     /\ left' = [left EXCEPT !.containers = @ - 1]
     /\ UNCHANGED <<job, schemas, submission, container>>
  \/ \E t \in Threads :
       /\ job[t].pc \in {"remove", "removeLate"} /\ container[t] = "running"
       /\ container' = [container EXCEPT ![t] = "none"]
       /\ UNCHANGED <<job, schemas, submission, left>>

\* The process dies: its connections end, its schemas and containers stay.
Crash ==
  /\ left.schemas + Cardinality(schemas) <= MaxLeft
  /\ left.containers <= MaxLeft
  /\ job' = [t \in Threads |-> NoJob]
  /\ schemas' = {}
  /\ submission' = [t \in Threads |-> "none"]
  /\ container' = [t \in Threads |-> "none"]
  /\ left' = [schemas |-> left.schemas + Cardinality(schemas),
              containers |-> left.containers + Cardinality({t \in Threads : container[t] # "none"})]

-----------------------------------------------------------------------------
SqlStep(t) ==
  OpenCase(t) \/ SetUp(t) \/ Connect(t) \/ Execute(t) \/ CloseSubmission(t) \/ DropSchema(t)
PythonStep(t) == Launch(t) \/ ContainerExits(t) \/ OutputCapped(t) \/ HostTimeout(t) \/ Remove(t)

SandboxNext ==
  \/ \E t \in Threads :
       \/ \E domain \in Domains : BeginGrade(t, domain)
       \/ TakeSlot(t) \/ SqlStep(t) \/ PythonStep(t) \/ SessionEnds(t) \/ ContainerStarts(t)
  \/ ContainerEnds
  \/ Crash

SandboxSpec == SandboxInit /\ [][SandboxNext]_sandboxVars

\* Statements and containers have time limits, the server notices a closed
\* connection, and a semaphore's waiters have their turn.
SandboxFairness ==
  \A t \in Threads : SF_sandboxVars(TakeSlot(t) \/ SqlStep(t) \/ PythonStep(t) \/ SessionEnds(t))

-----------------------------------------------------------------------------
(* Properties                                                                 *)

SqlPhases == {"case", "setup", "connect", "run", "close", "drop"}
PythonPhases == {"launch", "docker", "remove", "removeLate"}

\* Every variable has its type, and a thread's schema, transaction and
\* container exist in the phases that use them.
SandboxTypeOK ==
  /\ DOMAIN job = Threads
  /\ \A t \in Threads :
       /\ job[t].pc \in {"idle", "waiting", "done"} \cup SqlPhases \cup PythonPhases
       /\ job[t].domain \in Domains \cup {"none"} /\ job[t].verdict \in Verdicts \cup {"none"}
       /\ job[t].outcomes \in Seq(SqlOutcomes \cup CaseOutcomes)
       /\ job[t].passed \in 0 .. CaseCount
       /\ t \in schemas <=> job[t].pc \in {"setup", "connect", "run", "close", "drop"}
       /\ submission[t] = "open" => job[t].pc \in {"run", "close"}
       /\ submission[t] = "closed" => job[t].pc = "drop"
       /\ container[t] # "none" => job[t].pc \in {"docker", "remove", "removeLate"}
       /\ job[t].pc = "docker" => container[t] # "none"
  /\ schemas \subseteq Threads
  /\ submission \in [Threads -> {"none", "open", "closed"}]
  /\ container \in [Threads -> {"none", "created", "running"}]
  /\ left \in [schemas : Nat, containers : Nat]

\* A schema outlives its case only in a crash, or when its removal failed and
\* the verdict says so; never by an early return, a time limit or an error of
\* the submission.
SchemasAreDropped ==
  [][left'.schemas > left.schemas =>
       \/ \A t \in Threads : job'[t] = NoJob
       \/ \E t \in schemas : job'[t].pc = "done" /\ job'[t].verdict = "SYSTEM_ERROR"]_sandboxVars

\* At most grading_max_concurrency containers are there at a time, but for
\* those being removed because of their output and those a crash left.
ContainersFitTheSlots ==
  Cardinality({t \in Threads : container[t] # "none" /\ job[t].pc # "removeLate"})
    <= MaxConcurrency

\* Every call is answered, or lost in a crash: dropping the schema does not
\* wait for a transaction that ends only after it.
EveryGradeEnds ==
  \A t \in Threads : job[t].pc \notin {"idle", "done"} ~> job[t].pc \in {"idle", "done"}
=============================================================================
