---------------------------- MODULE AccessProofs ----------------------------
(***************************************************************************)
(* Proofs about who gets in, and what may run: Sandbox (the containers and *)
(* schemas that submitted code runs in), BrowserSessions (the cookies of a *)
(* browser, and what a logout promises) and Accounts (the registrations of *)
(* one IP).                                                                *)
(***************************************************************************)
EXTENDS BrowserSessions, Accounts, Sandbox, FiniteSetTheorems, SequenceTheorems,
        WellFoundedInduction, TLAPS

-----------------------------------------------------------------------------
(* Sandbox: the inductive invariant                                         *)

Phases == {"idle", "waiting", "done"} \cup SqlPhases \cup PythonPhases

Job ==
  [pc : Phases, domain : Domains \cup {"none"}, outcomes : Seq(SqlOutcomes \cup CaseOutcomes),
   passed : 0 .. CaseCount, verdict : Verdicts \cup {"none"}]

\* A thread's call with its schema, its transaction and its container: it is of
\* the domain whose phases it goes through, and has a case to go.
ThreadOK(q, hasSchema, transaction, itsContainer) ==
  /\ q \in Job
  /\ q.pc \in {"waiting"} \cup SqlPhases => q.passed < CaseCount
  /\ q.pc = "waiting" => q.domain \in Domains
  /\ q.pc \in SqlPhases => q.domain = "SQL"
  /\ q.pc \in PythonPhases => q.domain = "PYTHON"
  /\ hasSchema <=> q.pc \in {"setup", "connect", "run", "close", "drop"}
  /\ transaction = "open" => q.pc \in {"run", "close"}
  /\ transaction = "closed" => q.pc = "drop"
  /\ itsContainer # "none" => q.pc \in {"docker", "remove", "removeLate"}
  /\ q.pc = "docker" => itsContainer # "none"

Holders(domain) == {t \in Threads : HoldsSlot(t) /\ job[t].domain = domain}

SandboxInv ==
  /\ job \in [Threads -> Job]
  /\ \A t \in Threads : ThreadOK(job[t], t \in schemas, submission[t], container[t])
  /\ schemas \subseteq Threads
  /\ submission \in [Threads -> {"none", "open", "closed"}]
  /\ container \in [Threads -> {"none", "created", "running"}]
  /\ left \in [schemas : Nat, containers : Nat]
  /\ \A domain \in Domains : Cardinality(Holders(domain)) <= MaxConcurrency

LEMMA SandboxConstants ==
  /\ IsFiniteSet(Threads) /\ MaxConcurrency \in Nat /\ CaseCount \in Nat /\ CaseCount >= 1
  /\ Failures \subseteq Verdicts
BY SandboxAssumption DEF SandboxAssumption

LEMMA JobFields ==
  ASSUME NEW q \in Job
  PROVE  /\ q.pc \in Phases /\ q.domain \in Domains \cup {"none"}
         /\ q.outcomes \in Seq(SqlOutcomes \cup CaseOutcomes)
         /\ q.passed \in Nat /\ q.passed <= CaseCount /\ q.verdict \in Verdicts \cup {"none"}
BY SandboxConstants DEF Job

LEMMA NoJobIsOK ==
  /\ NoJob \in Job /\ NoJob.pc = "idle" /\ NoJob.domain = "none" /\ NoJob.passed = 0
  /\ NoJob.verdict = "none" /\ NoJob.outcomes = <<>>
  /\ ThreadOK(NoJob, FALSE, "none", "none")
<1>1. /\ NoJob \in Job /\ NoJob.pc = "idle" /\ NoJob.domain = "none" /\ NoJob.passed = 0
      /\ NoJob.verdict = "none" /\ NoJob.outcomes = <<>>
  BY SandboxConstants DEF NoJob, Job, Phases
<1> QED BY <1>1 DEF ThreadOK, SqlPhases, PythonPhases

LEMMA SandboxStart == SandboxInit => SandboxInv
<1> SUFFICES ASSUME SandboxInit PROVE SandboxInv
  OBVIOUS
<1>1. job \in [Threads -> Job] /\ \A t \in Threads : ThreadOK(job[t], t \in schemas, submission[t], container[t])
  <2>1. \A t \in Threads : job[t] = NoJob /\ t \notin schemas /\ submission[t] = "none" /\ container[t] = "none"
    BY DEF SandboxInit
  <2>2. \A t \in Threads : ThreadOK(job[t], t \in schemas, submission[t], container[t])
    BY <2>1, NoJobIsOK DEF ThreadOK
  <2> QED BY <2>2, NoJobIsOK DEF SandboxInit
<1>2. \A domain \in Domains : Holders(domain) = {}
  BY NoJobIsOK DEF SandboxInit, Holders, HoldsSlot
<1>3. \A domain \in Domains : Cardinality(Holders(domain)) <= MaxConcurrency
  BY <1>2, FS_EmptySet, SandboxConstants
<1> QED BY <1>1, <1>3 DEF SandboxInit, SandboxInv, NothingLeft

\* What one thread does by itself, with no slot taken.
LEMMA ThreadMoves ==
  ASSUME SandboxInv, NEW t \in Threads,
         job' \in [Threads -> Job], schemas' \subseteq Threads,
         submission' \in [Threads -> {"none", "open", "closed"}],
         container' \in [Threads -> {"none", "created", "running"}],
         left' \in [schemas : Nat, containers : Nat],
         \A u \in Threads \ {t} : /\ job'[u] = job[u] /\ (u \in schemas' <=> u \in schemas)
                                  /\ submission'[u] = submission[u] /\ container'[u] = container[u],
         ThreadOK(job'[t], t \in schemas', submission'[t], container'[t]),
         HoldsSlot(t)' => HoldsSlot(t) /\ job'[t].domain = job[t].domain
  PROVE  SandboxInv'
<1>1. \A u \in Threads : ThreadOK(job'[u], u \in schemas', submission'[u], container'[u])
  BY DEF SandboxInv, ThreadOK
<1>2. ASSUME NEW domain \in Domains PROVE Cardinality(Holders(domain)') <= MaxConcurrency
  <2>1. Holders(domain)' \subseteq Holders(domain)
    BY DEF Holders, HoldsSlot
  <2>2. IsFiniteSet(Holders(domain)) /\ IsFiniteSet(Holders(domain)')
    BY FS_Subset, SandboxConstants DEF Holders
  <2>3. Cardinality(Holders(domain)') <= Cardinality(Holders(domain))
    BY <2>1, <2>2, FS_Subset
  <2>4. Cardinality(Holders(domain)') \in Nat /\ Cardinality(Holders(domain)) \in Nat
    BY <2>2, FS_CardinalityType
  <2> QED BY <2>3, <2>4, SandboxConstants DEF SandboxInv
<1> QED BY <1>1, <1>2 DEF SandboxInv

-----------------------------------------------------------------------------
(* Sandbox: one step of a thread                                            *)

\* The thread's job becomes q and nothing else of the others changes.
LEMMA JobBecomes ==
  ASSUME SandboxInv, NEW t \in Threads, NEW q \in Job, job' = [job EXCEPT ![t] = q]
  PROVE  /\ job' \in [Threads -> Job] /\ job'[t] = q
         /\ \A u \in Threads \ {t} : job'[u] = job[u]
BY DEF SandboxInv

LEMMA AtBecomes ==
  ASSUME SandboxInv, NEW t \in Threads, NEW pc \in Phases, At(t, pc)
  PROVE  /\ job' \in [Threads -> Job] /\ \A u \in Threads \ {t} : job'[u] = job[u]
         /\ job'[t].pc = pc /\ job'[t].domain = job[t].domain
         /\ job'[t].passed = job[t].passed /\ job'[t].verdict = job[t].verdict
<1> DEFINE q == [job[t] EXCEPT !.pc = pc]
<1>1. job' = [job EXCEPT ![t] = q]
  BY DEF At, SandboxInv
<1>2. /\ q \in Job /\ q.pc = pc /\ q.domain = job[t].domain
      /\ q.passed = job[t].passed /\ q.verdict = job[t].verdict
  <2>1. job[t] \in Job
    BY DEF SandboxInv
  <2> QED BY <2>1 DEF Job
<1> HIDE DEF q
<1> QED BY <1>1, <1>2, JobBecomes

LEMMA VerdictBecomes ==
  ASSUME SandboxInv, NEW t \in Threads, NEW pc \in Phases, NEW v \in Verdicts,
         job' = [job EXCEPT ![t].pc = pc, ![t].verdict = v]
  PROVE  /\ job' \in [Threads -> Job] /\ \A u \in Threads \ {t} : job'[u] = job[u]
         /\ job'[t].pc = pc /\ job'[t].domain = job[t].domain
         /\ job'[t].passed = job[t].passed /\ job'[t].verdict = v
<1> DEFINE q == [job[t] EXCEPT !.pc = pc, !.verdict = v]
<1>1. job' = [job EXCEPT ![t] = q]
  BY DEF SandboxInv
<1>2. /\ q \in Job /\ q.pc = pc /\ q.domain = job[t].domain
      /\ q.passed = job[t].passed /\ q.verdict = v
  BY DEF SandboxInv, Job
<1> HIDE DEF q
<1> QED BY <1>1, <1>2, JobBecomes

LEMMA BeginGradeKeepsInv ==
  ASSUME SandboxInv, NEW t \in Threads, NEW domain \in Domains, BeginGrade(t, domain)
  PROVE  SandboxInv'
<1> DEFINE begun == [NoJob EXCEPT !.pc = "waiting", !.domain = domain]
<1>1. PICK q : /\ q \in {begun} \cup {[begun EXCEPT !.pc = "done", !.verdict = v] : v \in AtOnce(domain)}
               /\ job' = [job EXCEPT ![t] = q]
  BY DEF BeginGrade
<1>2. AtOnce(domain) \subseteq Verdicts
  BY DEF AtOnce, Unreadable, LacksConstruct, Verdicts
<1>3. /\ begun \in Job /\ begun.pc = "waiting" /\ begun.domain = domain /\ begun.passed = 0
  BY NoJobIsOK DEF NoJob, Job, Phases
<1> HIDE DEF begun
<1>4. /\ q \in Job /\ q.pc \in {"waiting", "done"} /\ q.domain = domain /\ q.passed = 0
  <2>1. CASE q = begun
    BY <1>3, <2>1
  <2>2. ASSUME NEW v \in Verdicts, q = [begun EXCEPT !.pc = "done", !.verdict = v]
        PROVE  q \in Job /\ q.pc \in {"waiting", "done"} /\ q.domain = domain /\ q.passed = 0
    BY <1>3, <2>2 DEF Job, Phases
  <2> QED BY <1>1, <1>2, <2>1, <2>2
<1>5. UNCHANGED <<schemas, submission, container, left>> /\ job[t].pc \in {"idle", "done"}
  BY DEF BeginGrade
<1>6. ThreadOK(job[t], t \in schemas, submission[t], container[t])
  BY DEF SandboxInv
<1>7. submission[t] = "none" /\ container[t] = "none" /\ t \notin schemas
  BY <1>5, <1>6 DEF SandboxInv, ThreadOK
<1>8. /\ job' \in [Threads -> Job] /\ job'[t] = q /\ \A u \in Threads \ {t} : job'[u] = job[u]
  BY <1>1, <1>4, JobBecomes
<1>9. ThreadOK(q, FALSE, "none", "none")
  <2>1. q.passed < CaseCount
    BY <1>4, SandboxConstants
  <2>2. q.pc \notin SqlPhases \cup PythonPhases /\ q.pc \notin {"setup", "connect", "run", "close", "drop"}
    BY <1>4 DEF SqlPhases, PythonPhases
  <2>3. q.pc # "docker"
    BY <1>4
  <2> QED BY <1>4, <2>1, <2>2, <2>3 DEF ThreadOK
<1>10. ThreadOK(job'[t], t \in schemas', submission'[t], container'[t])
  BY <1>5, <1>7, <1>8, <1>9 DEF ThreadOK
<1>11. ~HoldsSlot(t)'
  BY <1>4, <1>8 DEF HoldsSlot
<1> QED BY <1>5, <1>8, <1>10, <1>11, ThreadMoves DEF SandboxInv

\* A slot is taken while fewer than there are slots are held.
LEMMA OneMoreHolder ==
  ASSUME NEW S, IsFiniteSet(S), NEW e
  PROVE  Cardinality(S \cup {e}) <= Cardinality(S) + 1
<1>1. Cardinality(S) \in Nat
  BY FS_CardinalityType
<1>2. Cardinality(S \cup {e}) = Cardinality(S) \/ Cardinality(S \cup {e}) = Cardinality(S) + 1
  BY FS_AddElement
<1> QED BY <1>1, <1>2

LEMMA TakeSlotKeepsInv ==
  ASSUME SandboxInv, NEW t \in Threads, TakeSlot(t)
  PROVE  SandboxInv'
<1>1. /\ job[t].pc = "waiting" /\ Cardinality(Holders(job[t].domain)) < MaxConcurrency
      /\ UNCHANGED <<schemas, submission, container, left>>
  BY DEF TakeSlot, Holders
<1>2. ThreadOK(job[t], t \in schemas, submission[t], container[t])
  BY DEF SandboxInv
<1>3. PICK pc \in Phases : pc = (IF job[t].domain = "SQL" THEN "case" ELSE "launch") /\ At(t, pc)
  BY DEF TakeSlot, Phases, SqlPhases, PythonPhases
<1>4. /\ job' \in [Threads -> Job] /\ \A u \in Threads \ {t} : job'[u] = job[u]
      /\ job'[t].pc = pc /\ job'[t].domain = job[t].domain
      /\ job'[t].passed = job[t].passed
  BY <1>3, AtBecomes
<1>5. ThreadOK(job'[t], t \in schemas', submission'[t], container'[t])
  BY <1>1, <1>2, <1>3, <1>4 DEF ThreadOK, SqlPhases, PythonPhases, Domains
<1>6. \A u \in Threads : ThreadOK(job'[u], u \in schemas', submission'[u], container'[u])
  BY <1>1, <1>4, <1>5 DEF SandboxInv
<1>7. ASSUME NEW domain \in Domains PROVE Cardinality(Holders(domain)') <= MaxConcurrency
  <2>1. IsFiniteSet(Holders(domain)) /\ Cardinality(Holders(domain)) \in Nat
    BY FS_Subset, FS_CardinalityType, SandboxConstants DEF Holders
  <2>2. CASE domain = job[t].domain
    <3>1. Holders(domain)' = Holders(domain) \cup {t}
      BY <1>3, <1>4, <2>2 DEF Holders, HoldsSlot
    <3>2. Cardinality(Holders(domain)) < MaxConcurrency
      BY <1>1, <2>2
    <3>3. Cardinality(Holders(domain) \cup {t}) <= Cardinality(Holders(domain)) + 1
      BY <2>1, OneMoreHolder
    <3>4. Cardinality(Holders(domain)') <= Cardinality(Holders(domain)) + 1
      BY <3>1, <3>3
    <3>5. Cardinality(Holders(domain)') \in Nat
      <4>1. IsFiniteSet(Holders(domain)')
        BY FS_Subset, SandboxConstants DEF Holders
      <4> QED BY <4>1, FS_CardinalityType
    <3> QED BY <2>1, <3>2, <3>4, <3>5, SandboxConstants
  <2>3. CASE domain # job[t].domain
    <3>1. Holders(domain)' = Holders(domain)
      BY <1>4, <2>3 DEF Holders, HoldsSlot
    <3> QED BY <3>1 DEF SandboxInv
  <2> QED BY <2>2, <2>3
<1> QED BY <1>1, <1>4, <1>6, <1>7 DEF SandboxInv

LEMMA PhasesAre == {"idle", "waiting", "done", "case", "setup", "connect", "run", "close", "drop",
                    "launch", "docker", "remove", "removeLate"} \subseteq Phases
BY DEF Phases, SqlPhases, PythonPhases

LEMMA OpenCaseKeepsInv ==
  ASSUME SandboxInv, NEW t \in Threads, OpenCase(t)
  PROVE  SandboxInv'
<1>1. /\ job[t].pc = "case" /\ UNCHANGED <<submission, container, left>>
      /\ ThreadOK(job[t], t \in schemas, submission[t], container[t])
  BY DEF OpenCase, SandboxInv
<1>2. ASSUME NEW v \in Verdicts, Answer(t, v), UNCHANGED schemas PROVE SandboxInv'
  <2>1. /\ job' \in [Threads -> Job] /\ \A u \in Threads \ {t} : job'[u] = job[u]
        /\ job'[t].pc = "done"
    BY <1>2, PhasesAre, VerdictBecomes DEF Answer
  <2>2. ThreadOK(job'[t], t \in schemas', submission'[t], container'[t])
    BY <1>1, <1>2, <2>1 DEF ThreadOK, SqlPhases, PythonPhases
  <2>3. ~HoldsSlot(t)'
    BY <2>1 DEF HoldsSlot
  <2> QED BY <1>1, <1>2, <2>1, <2>2, <2>3, ThreadMoves DEF SandboxInv
<1>3. CASE At(t, "setup") /\ schemas' = schemas \cup {t}
  <2>1. /\ job' \in [Threads -> Job] /\ \A u \in Threads \ {t} : job'[u] = job[u]
        /\ job'[t].pc = "setup" /\ job'[t].domain = job[t].domain /\ job'[t].passed = job[t].passed
    BY <1>3, PhasesAre, AtBecomes
  <2>2. ThreadOK(job'[t], t \in schemas', submission'[t], container'[t])
    BY <1>1, <1>3, <2>1 DEF ThreadOK, SqlPhases, PythonPhases, SandboxInv
  <2>3. HoldsSlot(t)
    BY <1>1 DEF HoldsSlot
  <2> QED BY <1>1, <1>3, <2>1, <2>2, <2>3, ThreadMoves DEF SandboxInv
<1>4. Unspecified \cup NotAllowed \subseteq Verdicts
  BY DEF Unspecified, NotAllowed, Verdicts
<1> QED BY <1>2, <1>3, <1>4 DEF OpenCase

LEMMA SetUpKeepsInv ==
  ASSUME SandboxInv, NEW t \in Threads, SetUp(t)
  PROVE  SandboxInv'
<1>1. /\ job[t].pc = "setup" /\ UNCHANGED <<schemas, submission, container, left>>
      /\ ThreadOK(job[t], t \in schemas, submission[t], container[t])
  BY DEF SetUp, SandboxInv
<1>2. /\ job' \in [Threads -> Job] /\ \A u \in Threads \ {t} : job'[u] = job[u]
      /\ job'[t].pc \in {"connect", "drop"} /\ job'[t].domain = job[t].domain
      /\ job'[t].passed = job[t].passed
  BY PhasesAre, AtBecomes, VerdictBecomes DEF SetUp, Verdicts
<1>3. ThreadOK(job'[t], t \in schemas', submission'[t], container'[t])
  BY <1>1, <1>2 DEF ThreadOK, SqlPhases, PythonPhases
<1>4. HoldsSlot(t)
  BY <1>1 DEF HoldsSlot
<1> QED BY <1>1, <1>2, <1>3, <1>4, ThreadMoves DEF SandboxInv

LEMMA ConnectKeepsInv ==
  ASSUME SandboxInv, NEW t \in Threads, Connect(t)
  PROVE  SandboxInv'
<1>1. /\ job[t].pc = "connect" /\ UNCHANGED <<schemas, container, left>>
      /\ ThreadOK(job[t], t \in schemas, submission[t], container[t])
  BY DEF Connect, SandboxInv
<1>2. /\ job' \in [Threads -> Job] /\ \A u \in Threads \ {t} : job'[u] = job[u]
      /\ job'[t].pc \in {"run", "drop"} /\ job'[t].domain = job[t].domain
      /\ job'[t].passed = job[t].passed
  BY PhasesAre, AtBecomes, VerdictBecomes DEF Connect, Verdicts
<1>3. /\ submission' \in [Threads -> {"none", "open", "closed"}]
      /\ \A u \in Threads \ {t} : submission'[u] = submission[u]
      /\ submission'[t] = submission[t] \/ (submission'[t] = "open" /\ job'[t].pc = "run")
  BY PhasesAre, AtBecomes DEF Connect, SandboxInv
<1>4. submission[t] = "none"
  BY <1>1 DEF ThreadOK, SandboxInv
<1>5. ThreadOK(job'[t], t \in schemas', submission'[t], container'[t])
  BY <1>1, <1>2, <1>3, <1>4 DEF ThreadOK, SqlPhases, PythonPhases
<1>6. HoldsSlot(t)
  BY <1>1 DEF HoldsSlot
<1> QED BY <1>1, <1>2, <1>3, <1>5, <1>6, ThreadMoves DEF SandboxInv

LEMMA ExecuteKeepsInv ==
  ASSUME SandboxInv, NEW t \in Threads, Execute(t)
  PROVE  SandboxInv'
<1>1. /\ job[t].pc = "run" /\ UNCHANGED <<schemas, container, left>>
      /\ ThreadOK(job[t], t \in schemas, submission[t], container[t])
  BY DEF Execute, SandboxInv
<1>2. PICK o \in SqlOutcomes :
        /\ job' = [job EXCEPT ![t].pc = "close", ![t].outcomes = Append(@, o),
                              ![t].verdict = IF o = "pass" THEN "none" ELSE o]
        /\ submission' = [submission EXCEPT ![t] = IF o = "pass" THEN "none" ELSE "open"]
  BY DEF Execute
<1>3. PICK v \in Verdicts \cup {"none"} : v = IF o = "pass" THEN "none" ELSE o
  BY SandboxConstants DEF SqlOutcomes
<1>4. PICK outcomes \in Seq(SqlOutcomes \cup CaseOutcomes) : outcomes = Append(job[t].outcomes, o)
  <2>1. job[t].outcomes \in Seq(SqlOutcomes \cup CaseOutcomes) /\ o \in SqlOutcomes \cup CaseOutcomes
    BY JobFields DEF SandboxInv
  <2>2. \A S : \A s \in Seq(S), e \in S : Append(s, e) \in Seq(S)
    BY AppendProperties
  <2> QED BY <2>1, <2>2, Zenon
<1> DEFINE q == [job[t] EXCEPT !.pc = "close", !.outcomes = outcomes, !.verdict = v]
<1>5. job' = [job EXCEPT ![t] = q]
  BY <1>2, <1>3, <1>4 DEF SandboxInv
<1>6. q \in Job /\ q.pc = "close" /\ q.domain = job[t].domain /\ q.passed = job[t].passed
  <2>1. job[t] \in Job /\ "close" \in Phases
    BY PhasesAre DEF SandboxInv
  <2> QED BY <2>1 DEF Job
<1> HIDE DEF q
<1>7. /\ job' \in [Threads -> Job] /\ \A u \in Threads \ {t} : job'[u] = job[u]
      /\ job'[t] = q
  BY <1>5, <1>6, JobBecomes
<1>8. /\ submission' \in [Threads -> {"none", "open", "closed"}]
      /\ \A u \in Threads \ {t} : submission'[u] = submission[u]
      /\ submission'[t] \in {"none", "open"}
  BY <1>2 DEF SandboxInv
<1>9. ThreadOK(job'[t], t \in schemas', submission'[t], container'[t])
  BY <1>1, <1>6, <1>7, <1>8 DEF ThreadOK, SqlPhases, PythonPhases
<1>10. HoldsSlot(t)
  BY <1>1 DEF HoldsSlot
<1> QED BY <1>1, <1>6, <1>7, <1>8, <1>9, <1>10, ThreadMoves DEF SandboxInv

LEMMA CloseSubmissionKeepsInv ==
  ASSUME SandboxInv, NEW t \in Threads, CloseSubmission(t)
  PROVE  SandboxInv'
<1>1. /\ job[t].pc = "close" /\ UNCHANGED <<schemas, container, left>>
      /\ ThreadOK(job[t], t \in schemas, submission[t], container[t])
  BY DEF CloseSubmission, SandboxInv
<1>2. /\ job' \in [Threads -> Job] /\ \A u \in Threads \ {t} : job'[u] = job[u]
      /\ job'[t].pc = "drop" /\ job'[t].domain = job[t].domain /\ job'[t].passed = job[t].passed
  BY PhasesAre, AtBecomes DEF CloseSubmission
<1>3. /\ submission' \in [Threads -> {"none", "open", "closed"}]
      /\ \A u \in Threads \ {t} : submission'[u] = submission[u]
      /\ submission'[t] # "open"
  BY DEF CloseSubmission, SandboxInv
<1>4. ThreadOK(job'[t], t \in schemas', submission'[t], container'[t])
  BY <1>1, <1>2, <1>3 DEF ThreadOK, SqlPhases, PythonPhases
<1>5. HoldsSlot(t)
  BY <1>1 DEF HoldsSlot
<1> QED BY <1>1, <1>2, <1>3, <1>4, <1>5, ThreadMoves DEF SandboxInv

LEMMA SessionEndsKeepsInv ==
  ASSUME SandboxInv, NEW t \in Threads, SessionEnds(t)
  PROVE  SandboxInv'
<1>1. /\ UNCHANGED <<job, schemas, container, left>>
      /\ ThreadOK(job[t], t \in schemas, submission[t], container[t])
  BY DEF SessionEnds, SandboxInv
<1>2. /\ submission' \in [Threads -> {"none", "open", "closed"}] /\ submission'[t] = "none"
      /\ \A u \in Threads \ {t} : submission'[u] = submission[u]
  BY DEF SessionEnds, SandboxInv
<1>3. ThreadOK(job'[t], t \in schemas', submission'[t], container'[t])
  BY <1>1, <1>2 DEF ThreadOK
<1>4. HoldsSlot(t)' = HoldsSlot(t)
  BY <1>1 DEF HoldsSlot
<1> QED BY <1>1, <1>2, <1>3, <1>4, ThreadMoves DEF SandboxInv

\* The next case, or the end.
LEMMA NextCaseBecomes ==
  ASSUME SandboxInv, NEW t \in Threads, job[t].pc = "drop", NextCase(t)
  PROVE  /\ job' \in [Threads -> Job] /\ \A u \in Threads \ {t} : job'[u] = job[u]
         /\ job'[t].domain = job[t].domain
         /\ job'[t].pc = "done" \/ (job'[t].pc = "case" /\ job'[t].passed < CaseCount)
<1>1. job[t] \in Job /\ job[t].passed \in Nat /\ job[t].passed < CaseCount
  BY JobFields DEF SandboxInv, ThreadOK, SqlPhases
<1>2. PICK passed \in 0 .. CaseCount : passed = job[t].passed + 1
  BY <1>1, SandboxConstants
<1>3. CASE job[t].verdict # "none"
  BY <1>3, PhasesAre, AtBecomes DEF NextCase
<1>4. CASE job[t].verdict = "none" /\ passed < CaseCount
  <2> DEFINE q == [job[t] EXCEPT !.pc = "case", !.passed = passed]
  <2>1. job' = [job EXCEPT ![t] = q]
    BY <1>2, <1>4 DEF NextCase, SandboxInv
  <2>2. q \in Job /\ q.pc = "case" /\ q.domain = job[t].domain /\ q.passed = passed
    BY <1>1, PhasesAre DEF Job
  <2> HIDE DEF q
  <2> QED BY <1>4, <2>1, <2>2, JobBecomes
<1>5. CASE job[t].verdict = "none" /\ ~(passed < CaseCount)
  <2> DEFINE q == [job[t] EXCEPT !.pc = "done", !.passed = passed, !.verdict = "ACCEPTED"]
  <2>1. job' = [job EXCEPT ![t] = q]
    BY <1>2, <1>5 DEF NextCase, SandboxInv
  <2>2. q \in Job /\ q.pc = "done" /\ q.domain = job[t].domain
    BY <1>1, PhasesAre DEF Job, Verdicts
  <2> HIDE DEF q
  <2> QED BY <2>1, <2>2, JobBecomes
<1> QED BY <1>3, <1>4, <1>5

LEMMA DropSchemaKeepsInv ==
  ASSUME SandboxInv, NEW t \in Threads, DropSchema(t)
  PROVE  /\ SandboxInv'
         /\ left' # left => t \in schemas /\ job'[t].pc = "done" /\ job'[t].verdict = "SYSTEM_ERROR"
<1>1. /\ job[t].pc = "drop" /\ submission[t] = "none" /\ schemas' = schemas \ {t}
      /\ UNCHANGED <<submission, container>>
      /\ ThreadOK(job[t], t \in schemas, submission[t], container[t])
  BY DEF DropSchema, SandboxInv
<1>2. /\ job' \in [Threads -> Job] /\ \A u \in Threads \ {t} : job'[u] = job[u]
      /\ job'[t].domain = job[t].domain
      /\ job'[t].pc = "done" \/ (job'[t].pc = "case" /\ job'[t].passed < CaseCount)
      /\ left' = left \/ (job'[t].pc = "done" /\ job'[t].verdict = "SYSTEM_ERROR")
  <2>1. CASE NextCase(t) /\ UNCHANGED left
    BY <1>1, <2>1, NextCaseBecomes
  <2>2. CASE Answer(t, "SYSTEM_ERROR")
    BY <2>2, PhasesAre, VerdictBecomes DEF Answer, Verdicts
  <2> QED BY <2>1, <2>2 DEF DropSchema
<1>3. left' \in [schemas : Nat, containers : Nat]
  BY DEF DropSchema, SandboxInv
<1>4. ThreadOK(job'[t], t \in schemas', submission'[t], container'[t])
  <2>1. container[t] = "none" /\ job[t].domain = "SQL"
    BY <1>1 DEF ThreadOK, SqlPhases
  <2> QED BY <1>1, <1>2, <2>1 DEF ThreadOK, SqlPhases, PythonPhases
<1>5. HoldsSlot(t) /\ t \in schemas
  BY <1>1 DEF HoldsSlot, ThreadOK
<1> QED BY <1>1, <1>2, <1>3, <1>4, <1>5, ThreadMoves DEF SandboxInv

LEMMA LaunchKeepsInv ==
  ASSUME SandboxInv, NEW t \in Threads, Launch(t)
  PROVE  SandboxInv'
<1>1. /\ job[t].pc = "launch" /\ UNCHANGED <<schemas, submission, left>>
      /\ ThreadOK(job[t], t \in schemas, submission[t], container[t])
  BY DEF Launch, SandboxInv
<1>2. /\ job' \in [Threads -> Job] /\ \A u \in Threads \ {t} : job'[u] = job[u]
      /\ job'[t].domain = job[t].domain
      /\ \/ job'[t].pc = "done" /\ container' = container
         \/ job'[t].pc = "docker" /\ container' = [container EXCEPT ![t] = "created"]
  <2>1. CASE Answer(t, "SYSTEM_ERROR") /\ UNCHANGED container
    BY <2>1, PhasesAre, VerdictBecomes DEF Answer, Verdicts
  <2>2. CASE At(t, "docker") /\ container' = [container EXCEPT ![t] = "created"]
    BY <2>2, PhasesAre, AtBecomes
  <2> QED BY <2>1, <2>2 DEF Launch
<1>3. /\ container' \in [Threads -> {"none", "created", "running"}]
      /\ \A u \in Threads \ {t} : container'[u] = container[u]
      /\ container'[t] = IF job'[t].pc = "done" THEN container[t] ELSE "created"
  BY <1>2 DEF SandboxInv
<1>4. ThreadOK(job'[t], t \in schemas', submission'[t], container'[t])
  BY <1>1, <1>2, <1>3 DEF ThreadOK, SqlPhases, PythonPhases
<1>5. HoldsSlot(t)
  BY <1>1 DEF HoldsSlot
<1> QED BY <1>1, <1>2, <1>3, <1>4, <1>5, ThreadMoves DEF SandboxInv

LEMMA ContainerStartsKeepsInv ==
  ASSUME SandboxInv, NEW t \in Threads, ContainerStarts(t)
  PROVE  SandboxInv'
<1>1. /\ container[t] = "created" /\ UNCHANGED <<job, schemas, submission, left>>
      /\ ThreadOK(job[t], t \in schemas, submission[t], container[t])
  BY DEF ContainerStarts, SandboxInv
<1>2. /\ container' \in [Threads -> {"none", "created", "running"}]
      /\ \A u \in Threads \ {t} : container'[u] = container[u]
      /\ container'[t] = "running"
  BY DEF ContainerStarts, SandboxInv
<1>3. ThreadOK(job'[t], t \in schemas', submission'[t], container'[t])
  BY <1>1, <1>2 DEF ThreadOK
<1>4. HoldsSlot(t)' = HoldsSlot(t)
  BY <1>1 DEF HoldsSlot
<1> QED BY <1>1, <1>2, <1>3, <1>4, ThreadMoves DEF SandboxInv

\* What the runner reports is of the types of a job.
LEMMA RunsAre ==
  ASSUME NEW run \in Runs
  PROVE  /\ run \in Seq(SqlOutcomes \cup CaseOutcomes)
         /\ RunnerPassed(run) \in 0 .. CaseCount /\ RunnerVerdict(run) \in Verdicts
<1>1. PICK n \in 0 .. CaseCount : run \in [1 .. n -> CaseOutcomes]
  <2>1. CASE run = <<>>
    <3>1. run \in [1 .. 0 -> CaseOutcomes]
      BY <2>1
    <3> QED BY <3>1, SandboxConstants
  <2>2. CASE run = [i \in 1 .. CaseCount |-> "pass"]
    <3>1. run \in [1 .. CaseCount -> CaseOutcomes]
      BY <2>2 DEF CaseOutcomes
    <3> QED BY <3>1, SandboxConstants
  <2>3. ASSUME NEW n \in 1 .. CaseCount, NEW o \in CaseOutcomes,
               run = [i \in 1 .. n |-> IF i < n THEN "pass" ELSE o]
        PROVE  \E m \in 0 .. CaseCount : run \in [1 .. m -> CaseOutcomes]
    <3>1. run \in [1 .. n -> CaseOutcomes]
      BY <2>3 DEF CaseOutcomes
    <3> QED BY <3>1, SandboxConstants
  <2> QED BY <2>1, <2>2, <2>3 DEF Runs
<1>2. n \in Nat /\ n <= CaseCount
  BY SandboxConstants
<1>3. run \in Seq(CaseOutcomes) /\ Len(run) = n
  <2>1. \A S : Seq(S) = UNION {[1 .. m -> S] : m \in Nat}
    BY SeqDef
  <2>2. run \in Seq(CaseOutcomes)
    BY <1>1, <1>2, <2>1, Zenon
  <2> QED BY <1>1, <1>2, <2>2, LenProperties
<1>4. run \in Seq(SqlOutcomes \cup CaseOutcomes)
  <2>1. \A S : Seq(S) = UNION {[1 .. m -> S] : m \in Nat}
    BY SeqDef
  <2>2. run \in [1 .. n -> SqlOutcomes \cup CaseOutcomes]
    BY <1>1
  <2> QED BY <1>2, <2>1, <2>2, Zenon
<1>5. run = <<>> <=> n = 0
  BY <1>3, EmptySeq
<1>6. RunnerPassed(run) \in 0 .. CaseCount
  <2>1. RunnerPassed(run) = n \/ (n # 0 /\ RunnerPassed(run) = n - 1)
    BY <1>3, <1>5 DEF RunnerPassed
  <2> QED BY <1>2, <2>1, SandboxConstants
<1>7. RunnerVerdict(run) \in Verdicts
  <2>1. n # 0 => run[Len(run)] \in CaseOutcomes
    BY <1>1, <1>2, <1>3
  <2>2. CaseOutcomes \subseteq {"pass"} \cup Verdicts
    BY SandboxConstants DEF CaseOutcomes
  <2> QED BY <1>5, <2>1, <2>2 DEF RunnerVerdict, Verdicts
<1> QED BY <1>4, <1>6, <1>7

LEMMA ContainerExitsKeepsInv ==
  ASSUME SandboxInv, NEW t \in Threads, ContainerExits(t)
  PROVE  SandboxInv'
<1>1. /\ job[t].pc = "docker" /\ UNCHANGED <<schemas, submission, left>>
      /\ container' = [container EXCEPT ![t] = "none"]
      /\ ThreadOK(job[t], t \in schemas, submission[t], container[t])
  BY DEF ContainerExits, SandboxInv
<1>2. /\ job' \in [Threads -> Job] /\ \A u \in Threads \ {t} : job'[u] = job[u]
      /\ job'[t].pc = "done"
  <2>1. ASSUME NEW run \in Runs,
               job' = [job EXCEPT ![t].pc = "done", ![t].outcomes = run,
                                  ![t].passed = RunnerPassed(run), ![t].verdict = RunnerVerdict(run)]
        PROVE  /\ job' \in [Threads -> Job] /\ \A u \in Threads \ {t} : job'[u] = job[u]
               /\ job'[t].pc = "done"
    <3>1. PICK outcomes \in Seq(SqlOutcomes \cup CaseOutcomes) : outcomes = run
      BY RunsAre
    <3>2. PICK passed \in 0 .. CaseCount : passed = RunnerPassed(run)
      BY RunsAre
    <3>3. PICK v \in Verdicts : v = RunnerVerdict(run)
      BY RunsAre
    <3> DEFINE q == [job[t] EXCEPT !.pc = "done", !.outcomes = outcomes, !.passed = passed, !.verdict = v]
    <3>4. job' = [job EXCEPT ![t] = q]
      BY <2>1, <3>1, <3>2, <3>3 DEF SandboxInv
    <3>5. q \in Job /\ q.pc = "done"
      BY PhasesAre DEF SandboxInv, Job
    <3> HIDE DEF q
    <3> QED BY <3>4, <3>5, JobBecomes
  <2>2. ASSUME NEW v \in {"MEMORY_LIMIT", "SYSTEM_ERROR"}, Answer(t, v)
        PROVE  /\ job' \in [Threads -> Job] /\ \A u \in Threads \ {t} : job'[u] = job[u]
               /\ job'[t].pc = "done"
    BY <2>2, PhasesAre, VerdictBecomes DEF Answer, Verdicts
  <2> QED BY <2>1, <2>2 DEF ContainerExits
<1>3. /\ container' \in [Threads -> {"none", "created", "running"}]
      /\ \A u \in Threads \ {t} : container'[u] = container[u]
      /\ container'[t] = "none"
  BY <1>1 DEF SandboxInv
<1>4. ThreadOK(job'[t], t \in schemas', submission'[t], container'[t])
  BY <1>1, <1>2, <1>3 DEF ThreadOK, SqlPhases, PythonPhases
<1>5. ~HoldsSlot(t)'
  BY <1>2 DEF HoldsSlot
<1> QED BY <1>1, <1>2, <1>3, <1>4, <1>5, ThreadMoves DEF SandboxInv

LEMMA StopsKeepInv ==
  ASSUME SandboxInv, NEW t \in Threads, HostTimeout(t) \/ OutputCapped(t)
  PROVE  SandboxInv'
<1>1. /\ job[t].pc = "docker" /\ UNCHANGED <<schemas, submission, container, left>>
      /\ ThreadOK(job[t], t \in schemas, submission[t], container[t])
  BY DEF HostTimeout, OutputCapped, SandboxInv
<1>2. /\ job' \in [Threads -> Job] /\ \A u \in Threads \ {t} : job'[u] = job[u]
      /\ job'[t].domain = job[t].domain /\ job'[t].pc \in {"remove", "removeLate"}
  BY PhasesAre, VerdictBecomes DEF HostTimeout, OutputCapped, Verdicts
<1>3. ThreadOK(job'[t], t \in schemas', submission'[t], container'[t])
  BY <1>1, <1>2 DEF ThreadOK, SqlPhases, PythonPhases
<1>4. HoldsSlot(t)
  BY <1>1 DEF HoldsSlot
<1> QED BY <1>1, <1>2, <1>3, <1>4, ThreadMoves DEF SandboxInv

LEMMA RemoveKeepsInv ==
  ASSUME SandboxInv, NEW t \in Threads, Remove(t)
  PROVE  SandboxInv'
<1>1. /\ job[t].pc \in {"remove", "removeLate"} /\ UNCHANGED <<schemas, submission>>
      /\ container' = [container EXCEPT ![t] = "none"] /\ At(t, "done")
      /\ ThreadOK(job[t], t \in schemas, submission[t], container[t])
  BY DEF Remove, SandboxInv
<1>2. /\ job' \in [Threads -> Job] /\ \A u \in Threads \ {t} : job'[u] = job[u]
      /\ job'[t].pc = "done"
  BY <1>1, PhasesAre, AtBecomes
<1>3. /\ container' \in [Threads -> {"none", "created", "running"}]
      /\ \A u \in Threads \ {t} : container'[u] = container[u]
      /\ container'[t] = "none"
  BY <1>1 DEF SandboxInv
<1>4. left' \in [schemas : Nat, containers : Nat]
  BY DEF Remove, SandboxInv
<1>5. ThreadOK(job'[t], t \in schemas', submission'[t], container'[t])
  BY <1>1, <1>2, <1>3 DEF ThreadOK, SqlPhases, PythonPhases
<1>6. ~HoldsSlot(t)'
  BY <1>2 DEF HoldsSlot
<1> QED BY <1>1, <1>2, <1>3, <1>4, <1>5, <1>6, ThreadMoves DEF SandboxInv

LEMMA ContainerEndsKeepsInv ==
  ASSUME SandboxInv, ContainerEnds
  PROVE  SandboxInv'
<1>1. CASE /\ left.containers > 0
           /\ left' = [left EXCEPT !.containers = @ - 1]
           /\ UNCHANGED <<job, schemas, submission, container>>
  <2>1. left' \in [schemas : Nat, containers : Nat]
    BY <1>1 DEF SandboxInv
  <2> QED BY <1>1, <2>1 DEF SandboxInv, Holders, HoldsSlot
<1>2. ASSUME NEW t \in Threads, job[t].pc \in {"remove", "removeLate"},
             container' = [container EXCEPT ![t] = "none"],
             UNCHANGED <<job, schemas, submission, left>>
      PROVE  SandboxInv'
  <2>1. ThreadOK(job[t], t \in schemas, submission[t], container[t])
    BY DEF SandboxInv
  <2>2. /\ container' \in [Threads -> {"none", "created", "running"}]
        /\ \A u \in Threads \ {t} : container'[u] = container[u]
        /\ container'[t] = "none"
    BY <1>2 DEF SandboxInv
  <2>3. ThreadOK(job'[t], t \in schemas', submission'[t], container'[t])
    BY <1>2, <2>1, <2>2 DEF ThreadOK
  <2>4. HoldsSlot(t)' = HoldsSlot(t)
    BY <1>2 DEF HoldsSlot
  <2> QED BY <1>2, <2>2, <2>3, <2>4, ThreadMoves DEF SandboxInv
<1> QED BY <1>1, <1>2 DEF ContainerEnds

LEMMA CrashKeepsInv ==
  ASSUME SandboxInv, Crash
  PROVE  SandboxInv' /\ \A t \in Threads : job'[t] = NoJob
<1>1. /\ job' = [t \in Threads |-> NoJob] /\ schemas' = {}
      /\ submission' = [t \in Threads |-> "none"] /\ container' = [t \in Threads |-> "none"]
      /\ left' = [schemas |-> left.schemas + Cardinality(schemas),
                  containers |-> left.containers + Cardinality({t \in Threads : container[t] # "none"})]
  BY DEF Crash
<1>2. \A t \in Threads : ThreadOK(job'[t], t \in schemas', submission'[t], container'[t])
  BY <1>1, NoJobIsOK DEF ThreadOK
<1>3. left' \in [schemas : Nat, containers : Nat]
  <2>1. Cardinality(schemas) \in Nat /\ Cardinality({t \in Threads : container[t] # "none"}) \in Nat
    BY SandboxConstants, FS_Subset, FS_CardinalityType DEF SandboxInv
  <2> QED BY <1>1, <2>1 DEF SandboxInv
<1>4. \A domain \in Domains : Holders(domain)' = {}
  BY <1>1, NoJobIsOK DEF Holders, HoldsSlot
<1>5. \A domain \in Domains : Cardinality(Holders(domain)') <= MaxConcurrency
  BY <1>4, FS_EmptySet, SandboxConstants
<1> QED BY <1>1, <1>2, <1>3, <1>5, NoJobIsOK DEF SandboxInv

LEMMA SandboxStep ==
  ASSUME SandboxInv, [SandboxNext]_sandboxVars
  PROVE  SandboxInv'
<1>1. CASE UNCHANGED sandboxVars
  BY <1>1 DEF SandboxInv, sandboxVars, Holders, HoldsSlot
<1>2. ASSUME NEW t \in Threads, TakeSlot(t) \/ SqlStep(t) \/ PythonStep(t) \/ SessionEnds(t) \/ ContainerStarts(t)
      PROVE  SandboxInv'
  <2>1. CASE SqlStep(t)
    BY <2>1, OpenCaseKeepsInv, SetUpKeepsInv, ConnectKeepsInv, ExecuteKeepsInv,
       CloseSubmissionKeepsInv, DropSchemaKeepsInv DEF SqlStep
  <2>2. CASE PythonStep(t)
    BY <2>2, LaunchKeepsInv, ContainerExitsKeepsInv, StopsKeepInv, RemoveKeepsInv DEF PythonStep
  <2> QED BY <1>2, <2>1, <2>2, TakeSlotKeepsInv, SessionEndsKeepsInv, ContainerStartsKeepsInv
<1> QED BY <1>1, <1>2, BeginGradeKeepsInv, ContainerEndsKeepsInv, CrashKeepsInv DEF SandboxNext

-----------------------------------------------------------------------------
(* Sandbox: what follows                                                    *)

\* A thread's schema, transaction and container exist in the phases that use
\* them, however many threads there are, whatever fails and whenever it dies.
THEOREM SandboxTypeCorrect == SandboxSpec => []SandboxTypeOK
<1>1. SandboxInv => SandboxTypeOK
  <2> SUFFICES ASSUME SandboxInv, NEW t \in Threads
               PROVE  /\ job[t].pc \in Phases
                      /\ job[t].domain \in Domains \cup {"none"} /\ job[t].verdict \in Verdicts \cup {"none"}
                      /\ job[t].outcomes \in Seq(SqlOutcomes \cup CaseOutcomes)
                      /\ job[t].passed \in 0 .. CaseCount
                      /\ t \in schemas <=> job[t].pc \in {"setup", "connect", "run", "close", "drop"}
                      /\ submission[t] = "open" => job[t].pc \in {"run", "close"}
                      /\ submission[t] = "closed" => job[t].pc = "drop"
                      /\ container[t] # "none" => job[t].pc \in {"docker", "remove", "removeLate"}
                      /\ job[t].pc = "docker" => container[t] # "none"
    BY DEF SandboxInv, SandboxTypeOK, Phases
  <2>1. ThreadOK(job[t], t \in schemas, submission[t], container[t])
    BY DEF SandboxInv
  <2> QED BY <2>1, JobFields, SandboxConstants DEF ThreadOK
<1> QED BY <1>1, SandboxStart, SandboxStep, PTL DEF SandboxSpec

\* For every number of threads and of slots.
THEOREM ContainersFit == SandboxSpec => []ContainersFitTheSlots
<1>1. SandboxInv => ContainersFitTheSlots
  <2> DEFINE there == {t \in Threads : container[t] # "none" /\ job[t].pc # "removeLate"}
  <2> SUFFICES ASSUME SandboxInv PROVE Cardinality(there) <= MaxConcurrency
    BY DEF ContainersFitTheSlots
  <2>1. ASSUME NEW t \in there PROVE t \in Holders("PYTHON")
    <3>1. ThreadOK(job[t], t \in schemas, submission[t], container[t])
      BY DEF SandboxInv
    <3> QED BY <3>1 DEF ThreadOK, Holders, HoldsSlot, PythonPhases
  <2> HIDE DEF there
  <2>2. IsFiniteSet(Holders("PYTHON"))
    BY FS_Subset, SandboxConstants DEF Holders
  <2>3. /\ Cardinality(there) <= Cardinality(Holders("PYTHON"))
        /\ Cardinality(there) \in Nat /\ Cardinality(Holders("PYTHON")) \in Nat
    BY <2>1, <2>2, FS_Subset, FS_CardinalityType
  <2>4. Cardinality(Holders("PYTHON")) <= MaxConcurrency
    BY DEF SandboxInv, Domains
  <2> QED BY <2>3, <2>4, SandboxConstants
<1> QED BY <1>1, SandboxStart, SandboxStep, PTL DEF SandboxSpec

\* Of all the ways in which a case can end, only a failed removal and a crash
\* leave its schema behind.
THEOREM SchemasDropped == SandboxSpec => SchemasAreDropped
<1> DEFINE Dropped == left'.schemas > left.schemas =>
                        \/ \A t \in Threads : job'[t] = NoJob
                        \/ \E t \in schemas : job'[t].pc = "done" /\ job'[t].verdict = "SYSTEM_ERROR"
<1>1. ASSUME SandboxInv, SandboxNext PROVE Dropped
  <2>0. left.schemas \in Nat /\ left.containers \in Nat
    BY <1>1 DEF SandboxInv
  <2>1. CASE Crash
    BY <1>1, <2>1, CrashKeepsInv
  <2>2. ASSUME NEW t \in Threads, DropSchema(t) PROVE Dropped
    BY <1>1, <2>0, <2>2, DropSchemaKeepsInv
  <2>3. CASE left' = left
    BY <2>0, <2>3
  <2>4. ASSUME NEW t \in Threads, Remove(t) PROVE Dropped
    <3>1. left'.schemas = left.schemas
      BY <1>1, <2>4 DEF Remove, SandboxInv
    <3> QED BY <2>0, <3>1
  <2>5. CASE ContainerEnds
    <3>1. left'.schemas = left.schemas
      BY <1>1, <2>5 DEF ContainerEnds, SandboxInv
    <3> QED BY <2>0, <3>1
  <2>6. ASSUME NEW t \in Threads,
               \/ \E domain \in Domains : BeginGrade(t, domain)
               \/ TakeSlot(t) \/ OpenCase(t) \/ SetUp(t) \/ Connect(t) \/ Execute(t) \/ CloseSubmission(t)
               \/ Launch(t) \/ ContainerExits(t) \/ OutputCapped(t) \/ HostTimeout(t)
               \/ SessionEnds(t) \/ ContainerStarts(t)
        PROVE  left' = left
    BY <2>6 DEF BeginGrade, TakeSlot, OpenCase, SetUp, Connect, Execute, CloseSubmission, Launch,
                ContainerExits, OutputCapped, HostTimeout, SessionEnds, ContainerStarts
  <2> HIDE DEF Dropped
  <2> QED BY <1>1, <2>1, <2>2, <2>3, <2>4, <2>5, <2>6 DEF SandboxNext, SqlStep, PythonStep
<1> HIDE DEF Dropped
<1>2. SandboxInv /\ [SandboxNext]_sandboxVars => [Dropped]_sandboxVars
  BY <1>1
<1>3. SandboxSpec => [][Dropped]_sandboxVars
  BY <1>2, SandboxStart, SandboxStep, PTL DEF SandboxSpec
<1> QED BY <1>3 DEF SchemasAreDropped, Dropped

-----------------------------------------------------------------------------
(* Browser sessions: where a token may be                                   *)

Holds(b, t) == t \in {jar[b].session, jar[b].csrf}
Carries(c, t) == t \in {call[c].cookies.session, call[c].cookies.csrf, call[c].by}

\* The answer to a login is on its way.
IsNew(c) == call[c].pc = "answered" /\ call[c].kind = "login"

\* A token is that of one browser, in its jar and in the calls it sent, and
\* of a session that was committed; what is in a jar has not expired.
TokensHaveOneBrowser ==
  /\ \A b \in Browsers, t \in Tokens : Holds(b, t) =>
       /\ authSession[t] \in {"live", "revoked"}
       /\ \A d \in Browsers : Holds(d, t) => d = b
       /\ \A c \in Calls : Carries(c, t) => call[c].browser = b
  /\ \A c \in Calls, t \in Tokens : Carries(c, t) =>
       /\ authSession[t] # "absent"
       /\ \A d \in Calls : Carries(d, t) => call[d].browser = call[c].browser

\* A token that has not arrived yet is nowhere else, so nobody revokes it.
NewTokensAreSecret ==
  \A c \in Calls : IsNew(c) =>
    /\ call[c].by \in Tokens /\ authSession[call[c].by] \in {"live", "expired"}
    /\ \A b \in Browsers : ~Holds(b, call[c].by)
    /\ \A d \in Calls \ {c} : ~Carries(d, call[c].by)

\* A session that was not live when a call was sent will never be.
DeadStaysDead ==
  \A c \in Calls : call[c].cookies.session \in Tokens /\ ~call[c].wasLive =>
    authSession[call[c].cookies.session] \in {"revoked", "expired"}

\* The host system lets in the browsers that have its cookie; a login is let in
\* by nobody.
HostLetsIn ==
  \A c \in Calls :
    /\ call[c].pc \in {"in", "answered"} /\ call[c].by = "host" => call[c].browser \in HostBrowsers
    /\ call[c].pc = "in" => call[c].kind # "login"

\* A revoked session stays in a jar until the answer arrives that takes it, and
\* for good when that answer is lost.
RevokedIsOnItsWayOut ==
  \A b \in Browsers : jar[b].session \in Tokens /\ authSession[jar[b].session] = "revoked" =>
    b \in lost \/ \E c \in Calls : call[c].browser = b /\ call[c].kind = "logout" /\ call[c].pc = "answered"

CookiesMatch ==
  \A b \in Browsers : jar[b].csrf = jar[b].session \/ (b \in HostBrowsers /\ jar[b].csrf = "host")

SessionsInv ==
  /\ SessionsTypeOK
  /\ TokensHaveOneBrowser
  /\ NewTokensAreSecret
  /\ DeadStaysDead
  /\ HostLetsIn
  /\ RevokedIsOnItsWayOut
  /\ CookiesMatch
  /\ LoggedOutStaysOut

USE SessionsAssumption DEF SessionsAssumption

-----------------------------------------------------------------------------
(* Browser sessions: the calls one by one                                   *)

\* The token a call or a jar may have is none of the other values.
LEMMA NoCallHasNothing ==
  /\ NoCall.pc = "idle" /\ NoCall.by = NoCookie
  /\ NoCall.cookies.session = NoCookie /\ NoCall.cookies.csrf = NoCookie
  /\ NoCookies.session = NoCookie /\ NoCookies.csrf = NoCookie /\ NoCookies \in CookieType
  /\ NoCookie \notin Tokens
BY DEF NoCall, NoCookies, CookieType

LEMMA CallFields ==
  ASSUME SessionsTypeOK, NEW c \in Calls, call[c].pc # "idle"
  PROVE  call[c] \in CallType
BY NoCallHasNothing DEF SessionsTypeOK

LEMMA SessionsStart == SessionsInit => SessionsInv
<1> SUFFICES ASSUME SessionsInit PROVE SessionsInv
  OBVIOUS
<1>1. \A c \in Calls : call[c] = NoCall
  BY DEF SessionsInit
<1>2. \A b \in Browsers : jar[b] = NoCookies
  BY DEF SessionsInit
<1>3. SessionsTypeOK
  BY NoCallHasNothing DEF SessionsInit, SessionsTypeOK, NoCookies, CookieType
<1> QED
  BY <1>1, <1>2, <1>3, NoCallHasNothing
  DEF SessionsInv, TokensHaveOneBrowser, NewTokensAreSecret, DeadStaysDead, HostLetsIn,
      RevokedIsOnItsWayOut, CookiesMatch, LoggedOutStaysOut, Holds, Carries, IsNew

\* A call with the cookies of its browser.
LEMMA SendKeepsInv ==
  ASSUME SessionsInv, NEW c \in Calls, NEW b \in Browsers, NEW kind \in Kinds,
         NEW header \in BOOLEAN, Send(c, b, kind, header)
  PROVE  SessionsInv'
<1> DEFINE sent == [pc |-> "sent", kind |-> kind, browser |-> b, header |-> header,
                    cookies |-> jar[b], by |-> NoCookie, wasLive |-> IsLive(jar[b].session)]
<1>1. /\ call' = [call EXCEPT ![c] = sent] /\ call[c] = NoCall
      /\ UNCHANGED <<authSession, jar, lost>>
  BY DEF Send
<1>2. /\ sent.pc = "sent" /\ sent.kind = kind /\ sent.browser = b /\ sent.cookies = jar[b]
      /\ sent.by = NoCookie
      /\ sent \in CallType
  BY DEF SessionsInv, SessionsTypeOK, CallType, IsLive
<1>3. sent.wasLive <=> IsLive(jar[b].session)
  OBVIOUS
<1> HIDE DEF sent
<1>4. call'[c] = sent /\ \A d \in Calls \ {c} : call'[d] = call[d]
  BY <1>1 DEF SessionsInv, SessionsTypeOK
<1>5. SessionsTypeOK'
  BY <1>1, <1>2 DEF SessionsInv, SessionsTypeOK
<1>6. TokensHaveOneBrowser'
  BY <1>1, <1>2, <1>4, NoCallHasNothing DEF SessionsInv, TokensHaveOneBrowser, Holds, Carries
<1>7. NewTokensAreSecret'
  BY <1>1, <1>2, <1>4, NoCallHasNothing DEF SessionsInv, NewTokensAreSecret, Holds, Carries, IsNew
<1>8. DeadStaysDead'
  <2>1. jar[b].session \in Tokens => authSession[jar[b].session] \in {"live", "revoked"}
    BY DEF SessionsInv, TokensHaveOneBrowser, Holds
  <2> QED BY <1>1, <1>2, <1>3, <1>4, <2>1 DEF SessionsInv, DeadStaysDead, IsLive
<1>9. HostLetsIn' /\ RevokedIsOnItsWayOut' /\ CookiesMatch'
  BY <1>1, <1>2, <1>4, NoCallHasNothing DEF SessionsInv, HostLetsIn, RevokedIsOnItsWayOut, CookiesMatch
<1>10. LoggedOutStaysOut'
  BY <1>1, <1>2, <1>4, NoCallHasNothing DEF SessionsInv, LoggedOutStaysOut
<1> QED BY <1>5, <1>6, <1>7, <1>8, <1>9, <1>10 DEF SessionsInv

\* A call that is let in, by what it carried.
LEMMA LetInKeepsInv ==
  ASSUME SessionsInv, NEW c \in Calls, LetIn(c)
  PROVE  SessionsInv'
<1>1. PICK by \in LetInBy(c) : call' = [call EXCEPT ![c] = Served(c, "in", by)]
  BY DEF LetIn
<1>2. UNCHANGED <<authSession, jar, lost>> /\ call[c].pc = "sent" /\ call[c].kind # "login"
  BY DEF LetIn
<1>3. call[c] \in CallType
  BY <1>2, CallFields DEF SessionsInv
<1>4. \/ by \in {"host", "header"} /\ by \notin Tokens
      \/ by \in Tokens /\ by = call[c].cookies.session /\ authSession[by] = "live"
  BY <1>1, <1>3 DEF LetInBy, IsLive, CallType, CookieType
<1>5. by = "host" /\ by \notin Tokens => call[c].browser \in HostBrowsers
  BY <1>1, <1>3 DEF LetInBy, IsLive
<1> DEFINE in == Served(c, "in", by)
<1>6. /\ in.pc = "in" /\ in.kind = call[c].kind /\ in.browser = call[c].browser
      /\ in.cookies = NoCookies /\ in.by = by
      /\ in \in CallType
  BY <1>3, <1>4, NoCallHasNothing DEF Served, CallType
<1>7. in.wasLive = call[c].wasLive
  BY <1>3 DEF Served, CallType
<1> HIDE DEF in
<1>8. call'[c] = in /\ \A d \in Calls \ {c} : call'[d] = call[d]
  BY <1>1 DEF SessionsInv, SessionsTypeOK, in
<1>9. SessionsTypeOK'
  BY <1>1, <1>2, <1>6 DEF SessionsInv, SessionsTypeOK, in
<1>10. TokensHaveOneBrowser'
  BY <1>2, <1>4, <1>6, <1>8, NoCallHasNothing DEF SessionsInv, TokensHaveOneBrowser, Holds, Carries
<1>11. NewTokensAreSecret'
  BY <1>2, <1>4, <1>6, <1>8, NoCallHasNothing DEF SessionsInv, NewTokensAreSecret, Holds, Carries, IsNew
<1>12. DeadStaysDead'
  BY <1>2, <1>6, <1>8, NoCallHasNothing DEF SessionsInv, DeadStaysDead
<1>13. HostLetsIn' /\ RevokedIsOnItsWayOut' /\ CookiesMatch'
  <2>1. by = "host" => call[c].browser \in HostBrowsers
    BY <1>4, <1>5
  <2> QED
    BY <1>2, <1>6, <1>8, <2>1 DEF SessionsInv, HostLetsIn, RevokedIsOnItsWayOut, CookiesMatch
<1>14. LoggedOutStaysOut'
  <2>1. by \in Tokens => call[c].wasLive
    BY <1>4 DEF SessionsInv, DeadStaysDead
  <2> QED BY <1>2, <1>6, <1>7, <1>8, <2>1 DEF SessionsInv, LoggedOutStaysOut
<1> QED BY <1>9, <1>10, <1>11, <1>12, <1>13, <1>14 DEF SessionsInv

\* A call that is refused was sent only.
LEMMA RefuseKeepsInv ==
  ASSUME SessionsInv, NEW c \in Calls, Refuse(c)
  PROVE  SessionsInv'
<1>1. /\ UNCHANGED <<authSession, jar, lost>> /\ call[c].pc = "sent"
      /\ call' = [call EXCEPT ![c] = NoCall]
  BY DEF Refuse
<1>2. call'[c] = NoCall /\ \A d \in Calls \ {c} : call'[d] = call[d]
  BY <1>1 DEF SessionsInv, SessionsTypeOK
<1>3. SessionsTypeOK'
  BY <1>1 DEF SessionsInv, SessionsTypeOK
<1>4. TokensHaveOneBrowser'
  BY <1>1, <1>2, NoCallHasNothing DEF SessionsInv, TokensHaveOneBrowser, Holds, Carries
<1>5. NewTokensAreSecret'
  BY <1>1, <1>2, NoCallHasNothing DEF SessionsInv, NewTokensAreSecret, Holds, Carries, IsNew
<1>6. DeadStaysDead'
  BY <1>1, <1>2, NoCallHasNothing DEF SessionsInv, DeadStaysDead
<1>7. HostLetsIn' /\ RevokedIsOnItsWayOut' /\ CookiesMatch'
  BY <1>1, <1>2, NoCallHasNothing DEF SessionsInv, HostLetsIn, RevokedIsOnItsWayOut, CookiesMatch
<1>8. LoggedOutStaysOut'
  BY <1>1, <1>2, NoCallHasNothing DEF SessionsInv, LoggedOutStaysOut
<1> QED BY <1>3, <1>4, <1>5, <1>6, <1>7, <1>8 DEF SessionsInv

\* A login issues a token that nobody has.
LEMMA LoginKeepsInv ==
  ASSUME SessionsInv, NEW c \in Calls, Login(c)
  PROVE  SessionsInv'
<1> DEFINE t == CHOOSE u \in Tokens : authSession[u] = "absent"
           served == Served(c, "answered", t)
<1>1. /\ UNCHANGED <<jar, lost>> /\ call[c].pc = "sent" /\ call[c].kind = "login"
      /\ t \in Tokens /\ authSession[t] = "absent"
      /\ authSession' = [authSession EXCEPT ![t] = "live"]
      /\ call' = [call EXCEPT ![c] = served]
  BY DEF Login
<1>2. call[c] \in CallType
  BY <1>1, CallFields DEF SessionsInv
<1>3. /\ served.pc = "answered" /\ served.kind = "login" /\ served.browser = call[c].browser
      /\ served.cookies = NoCookies /\ served.by = t
      /\ served \in CallType
  BY <1>1, <1>2, NoCallHasNothing DEF Served, CallType
<1> HIDE DEF served, t
<1>4. call'[c] = served /\ \A d \in Calls \ {c} : call'[d] = call[d]
  BY <1>1 DEF SessionsInv, SessionsTypeOK
<1>5. /\ \A u \in Tokens : authSession'[u] = IF u = t THEN "live" ELSE authSession[u]
      /\ authSession' \in [Tokens -> {"absent", "live", "revoked", "expired"}]
  BY <1>1 DEF SessionsInv, SessionsTypeOK
<1>6. \A d \in Calls : ~Carries(d, t)
  BY <1>1 DEF SessionsInv, TokensHaveOneBrowser
<1>7. \A b \in Browsers : ~Holds(b, t)
  BY <1>1 DEF SessionsInv, TokensHaveOneBrowser
<1>8. SessionsTypeOK'
  BY <1>1, <1>3, <1>5 DEF SessionsInv, SessionsTypeOK
<1>9. TokensHaveOneBrowser'
  BY <1>1, <1>3, <1>4, <1>5, <1>6, <1>7, NoCallHasNothing DEF SessionsInv, TokensHaveOneBrowser, Holds, Carries
<1>10. NewTokensAreSecret'
  BY <1>1, <1>3, <1>4, <1>5, <1>6, <1>7, NoCallHasNothing DEF SessionsInv, NewTokensAreSecret, Holds, Carries, IsNew
<1>11. DeadStaysDead'
  BY <1>1, <1>3, <1>4, <1>5, <1>6, NoCallHasNothing DEF SessionsInv, DeadStaysDead, Carries
<1>12. HostLetsIn' /\ RevokedIsOnItsWayOut' /\ CookiesMatch'
  <2>1. t # "host"
    BY <1>1
  <2>2. HostLetsIn' /\ CookiesMatch'
    BY <1>1, <1>3, <1>4, <2>1 DEF SessionsInv, HostLetsIn, CookiesMatch
  <2>3. RevokedIsOnItsWayOut'
    BY <1>1, <1>3, <1>4, <1>5, <1>7, NoCallHasNothing DEF SessionsInv, RevokedIsOnItsWayOut, Holds
  <2> QED BY <2>2, <2>3
<1>13. LoggedOutStaysOut'
  BY <1>1, <1>3, <1>4 DEF SessionsInv, LoggedOutStaysOut
<1> QED BY <1>8, <1>9, <1>10, <1>11, <1>12, <1>13 DEF SessionsInv

\* A logout revokes a session of its own browser.
LEMMA CarryOutKeepsInv ==
  ASSUME SessionsInv, NEW c \in Calls, CarryOut(c)
  PROVE  SessionsInv'
<1> DEFINE by == call[c].by
           done == [call[c] EXCEPT !.pc = "answered"]
           revokes == call[c].kind = "logout" /\ by \in Tokens
<1>1. /\ UNCHANGED <<jar, lost>> /\ call[c].pc = "in"
      /\ authSession' = IF revokes THEN [authSession EXCEPT ![by] = "revoked"] ELSE authSession
      /\ call' = [call EXCEPT ![c] = done]
  BY DEF CarryOut
<1>2. call[c] \in CallType
  BY <1>1, CallFields DEF SessionsInv
<1>3. /\ done.pc = "answered" /\ done.kind = call[c].kind /\ done.browser = call[c].browser
      /\ done.cookies = call[c].cookies /\ done.by = by
      /\ done \in CallType
  BY <1>2 DEF CallType
<1>4. done.wasLive = call[c].wasLive
  BY <1>2 DEF CallType
<1> HIDE DEF done
<1>5. call'[c] = done /\ \A d \in Calls \ {c} : call'[d] = call[d]
  BY <1>1 DEF SessionsInv, SessionsTypeOK
<1>6. /\ \A u \in Tokens : authSession'[u] = IF revokes /\ u = by THEN "revoked" ELSE authSession[u]
      /\ authSession' \in [Tokens -> {"absent", "live", "revoked", "expired"}]
  BY <1>1 DEF SessionsInv, SessionsTypeOK
<1>7. call[c].kind # "login"
  BY <1>1 DEF SessionsInv, HostLetsIn
<1>8. SessionsTypeOK'
  <2>1. \A u \in Tokens : authSession[u] # "absent" => authSession'[u] # "absent"
    BY <1>6
  <2> QED BY <1>1, <1>3, <1>6, <2>1 DEF SessionsInv, SessionsTypeOK
<1>9. \A d \in Calls, u \in Tokens : Carries(d, u)' <=> Carries(d, u)
  BY <1>3, <1>5 DEF Carries
<1>10. \A d \in Calls : call'[d].browser = call[d].browser /\ (IsNew(d)' <=> IsNew(d)) /\ call'[d].by = call[d].by
  BY <1>1, <1>3, <1>5, <1>7 DEF IsNew
<1>11. TokensHaveOneBrowser'
  BY <1>1, <1>6, <1>9, <1>10 DEF SessionsInv, TokensHaveOneBrowser, Holds
<1>12. NewTokensAreSecret'
  <2>1. \A d \in Calls : IsNew(d) => ~(revokes /\ call[d].by = by)
    BY <1>7 DEF SessionsInv, NewTokensAreSecret, Carries, IsNew
  <2> QED BY <1>1, <1>6, <1>9, <1>10, <2>1 DEF SessionsInv, NewTokensAreSecret, Holds
<1>13. DeadStaysDead'
  BY <1>3, <1>4, <1>5, <1>6 DEF SessionsInv, DeadStaysDead
<1>14. HostLetsIn' /\ CookiesMatch'
  BY <1>1, <1>3, <1>5 DEF SessionsInv, HostLetsIn, CookiesMatch
<1>15. RevokedIsOnItsWayOut'
  <2> SUFFICES ASSUME NEW b \in Browsers, jar[b].session \in Tokens,
                      authSession'[jar[b].session] = "revoked"
               PROVE  b \in lost \/ \E d \in Calls :
                        call'[d].browser = b /\ call'[d].kind = "logout" /\ call'[d].pc = "answered"
    BY <1>1 DEF RevokedIsOnItsWayOut
  <2>1. CASE revokes /\ jar[b].session = by
    BY <1>3, <1>5, <2>1 DEF SessionsInv, TokensHaveOneBrowser, Holds, Carries
  <2>2. CASE ~(revokes /\ jar[b].session = by)
    BY <1>1, <1>5, <1>6, <2>2 DEF SessionsInv, RevokedIsOnItsWayOut
  <2> QED BY <2>1, <2>2
<1>16. LoggedOutStaysOut'
  BY <1>1, <1>3, <1>4, <1>5 DEF SessionsInv, LoggedOutStaysOut
<1> QED BY <1>8, <1>11, <1>12, <1>13, <1>14, <1>15, <1>16 DEF SessionsInv

\* What an answer leaves in the jar of its browser.
LEMMA JarAfter ==
  ASSUME SessionsInv, NEW c \in Calls, call[c].pc = "answered"
  PROVE  LET b == call[c].browser
             after == Fresh(After(c, jar[b]))
         IN  /\ b \in Browsers /\ after \in CookieType
             /\ \A t \in Tokens : t \in {after.session, after.csrf} =>
                  /\ authSession[t] \in {"live", "revoked"}
                  /\ Holds(b, t) \/ (call[c].kind = "login" /\ t = call[c].by)
             /\ after.csrf = after.session \/ (b \in HostBrowsers /\ after.csrf = "host")
             /\ \/ call[c].kind = "login" /\ (after.session \in Tokens => authSession[after.session] = "live")
                \/ call[c].kind = "logout" /\ after.session = NoCookie
                \/ call[c].kind \notin {"login", "logout"} /\ after.session = jar[b].session
<1> DEFINE b == call[c].browser
           old == jar[b]
           by == call[c].by
           after == Fresh(After(c, old))
<1>1. call[c] \in CallType
  BY CallFields DEF SessionsInv
<1>2. b \in Browsers /\ old \in CookieType /\ call[c].kind \in Kinds
  BY <1>1 DEF CallType, SessionsInv, SessionsTypeOK
<1>3. \A t \in Tokens : t \in {old.session, old.csrf} => authSession[t] \in {"live", "revoked"}
  BY <1>2 DEF SessionsInv, TokensHaveOneBrowser, Holds
<1>4. old.csrf = old.session \/ (b \in HostBrowsers /\ old.csrf = "host")
  BY <1>2 DEF SessionsInv, CookiesMatch
<1>5. after = [session |-> IF After(c, old).session \in Tokens /\ authSession[After(c, old).session] = "expired"
                           THEN NoCookie ELSE After(c, old).session,
               csrf |-> IF After(c, old).csrf \in Tokens /\ authSession[After(c, old).csrf] = "expired"
                        THEN NoCookie ELSE After(c, old).csrf]
  BY DEF Fresh
<1> HIDE DEF after
<1>6. CASE call[c].kind = "login"
  <2>1. by \in Tokens /\ authSession[by] \in {"live", "expired"}
    BY <1>6 DEF SessionsInv, NewTokensAreSecret, IsNew
  <2>2. After(c, old).session = by /\ After(c, old).csrf = by
    BY <1>6 DEF After
  <2>3. /\ after.session = after.csrf /\ after \in CookieType
        /\ after.session = IF authSession[by] = "expired" THEN NoCookie ELSE by
    BY <1>5, <2>1, <2>2 DEF CookieType
  <2> QED BY <1>2, <1>6, <2>1, <2>3, NoCallHasNothing DEF after
<1>7. CASE call[c].kind = "logout"
  <2>1. After(c, old) = NoCookies
    BY <1>7 DEF After
  <2>2. after.session = NoCookie /\ after.csrf = NoCookie /\ after \in CookieType
    BY <1>5, <2>1, NoCallHasNothing DEF CookieType
  <2> QED BY <1>2, <1>7, <2>2, NoCallHasNothing DEF after
<1>8. CASE call[c].kind = "me" /\ by = "host"
  <2>1. After(c, old).session = old.session /\ After(c, old).csrf = "host"
    BY <1>2, <1>8 DEF After, CookieType
  <2>2. after.session = old.session /\ after.csrf = "host" /\ after \in CookieType
    BY <1>2, <1>3, <1>5, <2>1 DEF CookieType
  <2>3. b \in HostBrowsers
    BY <1>8 DEF SessionsInv, HostLetsIn
  <2> QED BY <1>2, <1>3, <1>8, <2>2, <2>3, NoCallHasNothing DEF after, Holds
<1>9. CASE call[c].kind \notin {"login", "logout"} /\ ~(call[c].kind = "me" /\ by = "host")
  <2>1. After(c, old) = old
    BY <1>9 DEF After
  <2>2. after.session = old.session /\ after.csrf = old.csrf /\ after \in CookieType
    BY <1>2, <1>3, <1>5, <2>1 DEF CookieType
  <2> QED BY <1>2, <1>3, <1>4, <1>9, <2>2 DEF after, Holds
<1> QED BY <1>6, <1>7, <1>8, <1>9

LEMMA DeliverKeepsInv ==
  ASSUME SessionsInv, NEW c \in Calls, Deliver(c)
  PROVE  SessionsInv'
<1>0. PICK b \in Browsers : b = call[c].browser
  BY JarAfter DEF Deliver
<1> DEFINE after == Fresh(After(c, jar[b]))
<1>1. /\ UNCHANGED authSession /\ call[c].pc = "answered"
      /\ jar' = [jar EXCEPT ![b] = after]
      /\ lost' = IF call[c].kind \in {"login", "logout"} THEN lost \ {b} ELSE lost
      /\ call' = [call EXCEPT ![c] = NoCall]
  BY <1>0 DEF Deliver
<1>2. /\ after \in CookieType
      /\ \A t \in Tokens : t \in {after.session, after.csrf} =>
           /\ authSession[t] \in {"live", "revoked"}
           /\ Holds(b, t) \/ (call[c].kind = "login" /\ t = call[c].by)
      /\ after.csrf = after.session \/ (b \in HostBrowsers /\ after.csrf = "host")
  BY <1>0, <1>1, JarAfter
<1>3. \/ call[c].kind = "login" /\ (after.session \in Tokens => authSession[after.session] = "live")
      \/ call[c].kind = "logout" /\ after.session = NoCookie
      \/ call[c].kind \notin {"login", "logout"} /\ after.session = jar[b].session
  BY <1>0, <1>1, JarAfter
<1> HIDE DEF after
<1>4. call'[c] = NoCall /\ \A d \in Calls \ {c} : call'[d] = call[d]
  BY <1>1 DEF SessionsInv, SessionsTypeOK
<1>5. jar'[b] = after /\ \A d \in Browsers \ {b} : jar'[d] = jar[d]
  BY <1>1, <1>2 DEF SessionsInv, SessionsTypeOK
<1>6. SessionsTypeOK'
  <2>1. /\ jar' \in [Browsers -> CookieType] /\ lost' \subseteq Browsers
        /\ call' \in [Calls -> CallType \cup {NoCall}]
    BY <1>1, <1>2 DEF SessionsInv, SessionsTypeOK
  <2>2. \A d \in Browsers, t \in Tokens : t \in {jar'[d].session, jar'[d].csrf} => authSession'[t] # "absent"
    BY <1>1, <1>2, <1>5 DEF SessionsInv, SessionsTypeOK
  <2> QED BY <1>1, <2>1, <2>2 DEF SessionsInv, SessionsTypeOK
<1>7. \A d \in Calls, t \in Tokens : Carries(d, t)' => d # c /\ Carries(d, t)
  BY <1>4, NoCallHasNothing DEF Carries
<1>8. \A d \in Browsers, t \in Tokens :
        Holds(d, t)' => Holds(d, t) \/ (d = b /\ call[c].kind = "login" /\ t = call[c].by)
  BY <1>2, <1>5 DEF Holds
<1>9. \A t \in Tokens : Holds(b, t)' => authSession[t] \in {"live", "revoked"}
  BY <1>2, <1>5 DEF Holds
<1>10. call[c].kind = "login" =>
         /\ \A d \in Browsers : ~Holds(d, call[c].by)
         /\ \A d \in Calls \ {c} : ~Carries(d, call[c].by)
  BY <1>1 DEF SessionsInv, NewTokensAreSecret, IsNew
<1>11. TokensHaveOneBrowser'
  <2>1. ASSUME NEW d \in Browsers, NEW t \in Tokens, Holds(d, t)'
        PROVE  /\ authSession'[t] \in {"live", "revoked"}
               /\ \A e \in Browsers : Holds(e, t)' => e = d
               /\ \A e \in Calls : Carries(e, t)' => call'[e].browser = d
    <3>1. CASE d = b /\ call[c].kind = "login" /\ t = call[c].by
      <4>1. \A e \in Browsers : Holds(e, t)' => e = d
        BY <1>8, <1>10, <3>1
      <4>2. \A e \in Calls : ~Carries(e, t)'
        BY <1>7, <1>10, <3>1
      <4> QED BY <1>1, <1>9, <2>1, <3>1, <4>1, <4>2
    <3>2. CASE Holds(d, t)
      BY <1>1, <1>4, <1>7, <1>8, <1>10, <2>1, <3>2 DEF SessionsInv, TokensHaveOneBrowser
    <3> QED BY <1>8, <2>1, <3>1, <3>2
  <2>2. ASSUME NEW d \in Calls, NEW t \in Tokens, Carries(d, t)'
        PROVE  /\ authSession'[t] # "absent"
               /\ \A e \in Calls : Carries(e, t)' => call'[e].browser = call'[d].browser
    BY <1>1, <1>4, <1>7, <2>2 DEF SessionsInv, TokensHaveOneBrowser
  <2> QED BY <2>1, <2>2 DEF TokensHaveOneBrowser
<1>12. NewTokensAreSecret'
  <2> SUFFICES ASSUME NEW d \in Calls, IsNew(d)'
               PROVE  /\ call'[d].by \in Tokens /\ authSession'[call'[d].by] \in {"live", "expired"}
                      /\ \A e \in Browsers : ~Holds(e, call[d].by)'
                      /\ call'[d].by = call[d].by
                      /\ \A e \in Calls \ {d} : ~Carries(e, call[d].by)'
    BY DEF NewTokensAreSecret, Holds, Carries
  <2>1. d # c /\ IsNew(d) /\ call'[d] = call[d]
    BY <1>4, NoCallHasNothing DEF IsNew
  <2>2. Carries(d, call[d].by)
    BY DEF Carries
  <2> QED
    BY <1>1, <1>7, <1>8, <1>10, <2>1, <2>2 DEF SessionsInv, NewTokensAreSecret
<1>13. DeadStaysDead' /\ HostLetsIn'
  BY <1>1, <1>4, NoCallHasNothing DEF SessionsInv, DeadStaysDead, HostLetsIn
<1>14. CookiesMatch'
  BY <1>2, <1>5 DEF SessionsInv, CookiesMatch
<1>15. RevokedIsOnItsWayOut'
  <2> SUFFICES ASSUME NEW d \in Browsers, jar'[d].session \in Tokens,
                      authSession'[jar'[d].session] = "revoked"
               PROVE  d \in lost' \/ \E e \in Calls :
                        call'[e].browser = d /\ call'[e].kind = "logout" /\ call'[e].pc = "answered"
    BY DEF RevokedIsOnItsWayOut
  <2>1. /\ jar'[d].session = jar[d].session
        /\ d = b => call[c].kind \notin {"login", "logout"}
    BY <1>1, <1>3, <1>5, NoCallHasNothing
  <2>2. d \in lost \/ \E e \in Calls :
          call[e].browser = d /\ call[e].kind = "logout" /\ call[e].pc = "answered"
    BY <1>1, <2>1 DEF SessionsInv, RevokedIsOnItsWayOut
  <2> QED BY <1>0, <1>1, <1>4, <2>1, <2>2
<1>16. LoggedOutStaysOut'
  BY <1>1, <1>4, NoCallHasNothing DEF SessionsInv, LoggedOutStaysOut
<1> QED BY <1>6, <1>11, <1>12, <1>13, <1>14, <1>15, <1>16 DEF SessionsInv

LEMMA LoseKeepsInv ==
  ASSUME SessionsInv, NEW c \in Calls, Lose(c)
  PROVE  SessionsInv'
<1>1. /\ UNCHANGED <<authSession, jar>> /\ call[c].pc = "answered"
      /\ lost' = IF call[c].kind = "logout" THEN lost \cup {call[c].browser} ELSE lost
      /\ call' = [call EXCEPT ![c] = NoCall]
  BY DEF Lose
<1>2. call'[c] = NoCall /\ \A d \in Calls \ {c} : call'[d] = call[d]
  BY <1>1 DEF SessionsInv, SessionsTypeOK
<1>3. SessionsTypeOK'
  <2>1. call[c].browser \in Browsers
    BY <1>1, CallFields DEF SessionsInv, CallType
  <2> QED BY <1>1, <2>1 DEF SessionsInv, SessionsTypeOK
<1>4. TokensHaveOneBrowser'
  BY <1>1, <1>2, NoCallHasNothing DEF SessionsInv, TokensHaveOneBrowser, Holds, Carries
<1>5. NewTokensAreSecret'
  BY <1>1, <1>2, NoCallHasNothing DEF SessionsInv, NewTokensAreSecret, Holds, Carries, IsNew
<1>6. DeadStaysDead' /\ HostLetsIn' /\ CookiesMatch'
  BY <1>1, <1>2, NoCallHasNothing DEF SessionsInv, DeadStaysDead, HostLetsIn, CookiesMatch
<1>7. RevokedIsOnItsWayOut'
  BY <1>1, <1>2 DEF SessionsInv, RevokedIsOnItsWayOut
<1>8. LoggedOutStaysOut'
  BY <1>1, <1>2, NoCallHasNothing DEF SessionsInv, LoggedOutStaysOut
<1> QED BY <1>3, <1>4, <1>5, <1>6, <1>7, <1>8 DEF SessionsInv

\* An expired token leaves every jar.
LEMMA ExpireKeepsInv ==
  ASSUME SessionsInv, NEW t \in Tokens, Expire(t)
  PROVE  SessionsInv'
<1>1. /\ UNCHANGED <<call, lost>> /\ authSession[t] \in {"live", "revoked"}
      /\ authSession' = [authSession EXCEPT ![t] = "expired"]
      /\ jar' = [b \in Browsers |->
                  [k \in DOMAIN jar[b] |-> IF jar[b][k] = t THEN NoCookie ELSE jar[b][k]]]
  BY DEF Expire
<1>2. \A u \in Tokens : authSession'[u] = IF u = t THEN "expired" ELSE authSession[u]
  BY <1>1 DEF SessionsInv, SessionsTypeOK
<1>3. \A b \in Browsers :
        /\ jar'[b].session = IF jar[b].session = t THEN NoCookie ELSE jar[b].session
        /\ jar'[b].csrf = IF jar[b].csrf = t THEN NoCookie ELSE jar[b].csrf
        /\ jar'[b] \in CookieType
  <2> TAKE b \in Browsers
  <2>1. jar[b] \in CookieType /\ DOMAIN jar[b] = {"session", "csrf"}
    BY DEF SessionsInv, SessionsTypeOK, CookieType
  <2> DEFINE Left(k) == IF jar[b][k] = t THEN NoCookie ELSE jar[b][k]
  <2>2. jar'[b] = [k \in {"session", "csrf"} |-> Left(k)]
    BY <1>1, <2>1
  <2>3. /\ Left("session") \in Tokens \cup {NoCookie}
        /\ Left("csrf") \in Tokens \cup {"host", NoCookie}
    BY <2>1 DEF CookieType
  <2>4. jar'[b] = [session |-> Left("session"), csrf |-> Left("csrf")]
    BY <2>2
  <2> HIDE DEF Left
  <2>5. jar'[b] \in CookieType
    BY <2>3, <2>4 DEF CookieType
  <2> QED BY <2>4, <2>5 DEF Left
<1>4. \A b \in Browsers, u \in Tokens : Holds(b, u)' => u # t /\ Holds(b, u)
  BY <1>3, NoCallHasNothing DEF Holds
<1>5. SessionsTypeOK'
  <2>1. authSession' \in [Tokens -> {"absent", "live", "revoked", "expired"}]
    BY <1>1 DEF SessionsInv, SessionsTypeOK
  <2>2. jar' \in [Browsers -> CookieType]
    BY <1>1, <1>3
  <2>3. \A b \in Browsers, u \in Tokens : u \in {jar'[b].session, jar'[b].csrf} => authSession'[u] # "absent"
    BY <1>2, <1>4 DEF SessionsInv, TokensHaveOneBrowser, Holds
  <2> QED BY <1>1, <2>1, <2>2, <2>3 DEF SessionsInv, SessionsTypeOK
<1>6. TokensHaveOneBrowser'
  BY <1>1, <1>2, <1>4 DEF SessionsInv, TokensHaveOneBrowser, Carries
<1>7. NewTokensAreSecret'
  <2> SUFFICES ASSUME NEW c \in Calls, IsNew(c)
               PROVE  /\ call[c].by \in Tokens /\ authSession'[call[c].by] \in {"live", "expired"}
                      /\ \A b \in Browsers : ~Holds(b, call[c].by)'
                      /\ \A d \in Calls \ {c} : ~Carries(d, call[c].by)
    BY <1>1 DEF NewTokensAreSecret, IsNew, Holds, Carries
  <2> QED BY <1>1, <1>2, <1>4 DEF SessionsInv, NewTokensAreSecret
<1>8. DeadStaysDead' /\ HostLetsIn' /\ LoggedOutStaysOut'
  BY <1>1, <1>2 DEF SessionsInv, DeadStaysDead, HostLetsIn, LoggedOutStaysOut
<1>9. CookiesMatch'
  BY <1>3 DEF SessionsInv, CookiesMatch
<1>10. RevokedIsOnItsWayOut'
  BY <1>1, <1>2, <1>3, NoCallHasNothing DEF SessionsInv, RevokedIsOnItsWayOut
<1> QED BY <1>5, <1>6, <1>7, <1>8, <1>9, <1>10 DEF SessionsInv

LEMMA SessionsStep == SessionsInv /\ [SessionsNext]_sessionVars => SessionsInv'
<1> SUFFICES ASSUME SessionsInv, [SessionsNext]_sessionVars PROVE SessionsInv'
  OBVIOUS
<1>1. CASE UNCHANGED sessionVars
  BY <1>1 DEF sessionVars, SessionsInv, SessionsTypeOK, TokensHaveOneBrowser, NewTokensAreSecret,
              DeadStaysDead, HostLetsIn, RevokedIsOnItsWayOut, CookiesMatch, LoggedOutStaysOut,
              Holds, Carries, IsNew
<1>2. ASSUME NEW c \in Calls, NEW b \in Browsers, NEW kind \in Kinds, NEW header \in BOOLEAN,
             Send(c, b, kind, header)
      PROVE  SessionsInv'
  BY <1>2, SendKeepsInv
<1>3. ASSUME NEW c \in Calls, LetIn(c) PROVE SessionsInv'
  BY <1>3, LetInKeepsInv
<1>4. ASSUME NEW c \in Calls, Refuse(c) PROVE SessionsInv'
  BY <1>4, RefuseKeepsInv
<1>5. ASSUME NEW c \in Calls, Login(c) PROVE SessionsInv'
  BY <1>5, LoginKeepsInv
<1>6. ASSUME NEW c \in Calls, CarryOut(c) PROVE SessionsInv'
  BY <1>6, CarryOutKeepsInv
<1>7. ASSUME NEW c \in Calls, Deliver(c) PROVE SessionsInv'
  BY <1>7, DeliverKeepsInv
<1>8. ASSUME NEW c \in Calls, Lose(c) PROVE SessionsInv'
  BY <1>8, LoseKeepsInv
<1>9. ASSUME NEW t \in Tokens, Expire(t) PROVE SessionsInv'
  BY <1>9, ExpireKeepsInv
<1> QED BY <1>1, <1>2, <1>3, <1>4, <1>5, <1>6, <1>7, <1>8, <1>9 DEF SessionsNext

LEMMA SessionsInvariant == SessionsSpec => []SessionsInv
BY SessionsStart, SessionsStep, PTL DEF SessionsSpec

\* A jar, a call and a row of auth_sessions always have their types, and no
\* cookie is that of a session nobody committed (identity/router.py, login).
THEOREM SessionsTypeCorrect == SessionsSpec => []SessionsTypeOK
<1>1. SessionsInv => SessionsTypeOK
  BY DEF SessionsInv
<1> QED BY <1>1, SessionsInvariant, PTL

\* In whatever order the answers of logins, logouts and /session/me arrive, a
\* browser's session and CSRF cookies belong together, and a session cookie that
\* lets nobody in is on its way out or the logout's answer was lost.
THEOREM CookiesStayPaired == SessionsSpec => []CookiesArePaired
<1>1. SessionsInv => CookiesArePaired
  <2> SUFFICES ASSUME SessionsInv, NEW b \in Browsers
               PROVE  /\ jar[b].csrf = jar[b].session \/ (b \in HostBrowsers /\ jar[b].csrf = "host")
                      /\ jar[b].session # NoCookie /\ ~IsLive(jar[b].session) =>
                           b \in lost \/ \E c \in Calls : call[c].browser = b /\ call[c].kind = "logout"
    BY DEF CookiesArePaired
  <2>1. jar[b].session # NoCookie /\ ~IsLive(jar[b].session) =>
          jar[b].session \in Tokens /\ authSession[jar[b].session] = "revoked"
    BY DEF SessionsInv, SessionsTypeOK, CookieType, IsLive, TokensHaveOneBrowser, Holds
  <2> QED BY <2>1 DEF SessionsInv, CookiesMatch, RevokedIsOnItsWayOut
<1> QED BY <1>1, SessionsInvariant, PTL

\* A call sent after a logout was committed is never let in by the session that
\* was revoked, also when the answer to the logout has not arrived.
THEOREM LogoutIsFinal == SessionsSpec => []LoggedOutStaysOut
<1>1. SessionsInv => LoggedOutStaysOut
  BY DEF SessionsInv
<1> QED BY <1>1, SessionsInvariant, PTL

-----------------------------------------------------------------------------
(* Accounts: requests and their rows                                        *)

\* What the host's requests look up and write exists.
ProvisionsOK ==
  \A r \in Requests :
    /\ request[r].pc = "provision" => request[r].host \in Hosts \/ request[r].email \in Emails
    /\ request[r].known # NoOne => request[r].host \in Hosts /\ \E u \in users : u.host = request[r].host

\* The registrations that count and have not counted themselves yet.
Asks(q, i) == q.ip = i /\ q.pc \in {"insert", "commit", "recount"}
Asking(i) == {r \in Requests : Asks(request[r], i)}

\* Who has the bucket locked found room in it, and nobody has counted since.
BucketsHaveRoom ==
  \A i \in Ips :
    /\ asked[i] = attempts[i] + Cardinality(Asking(i))
    /\ made[i] <= attempts[i] /\ made[i] <= Limit
    /\ HasBucket(i) => attempts[i] < Limit

AccountsInv == AccountsTypeOK /\ ProvisionsOK /\ BucketsHaveRoom

USE AccountsAssumption DEF AccountsAssumption

LEMMA NoRequestHasNothing ==
  /\ NoRequest \in RequestType /\ NoRequest.pc = "idle" /\ NoRequest.known = NoOne
  /\ NoOne \notin AllEmails /\ NoOne \notin Hosts
BY DEF NoRequest, RequestType

\* The e-mail the host's user has is one of its e-mails.
LEMMA EmailOfUser ==
  ASSUME AccountsTypeOK, NEW h \in Hosts
  PROVE  /\ EmailOf(h) \in AllEmails \cup {NoOne}
         /\ (\E u \in users : u.host = h) <=> EmailOf(h) # NoOne
<1>1. CASE \E u \in users : u.host = h
  <2>1. PICK u \in users : u = CHOOSE v \in users : v.host = h
    BY <1>1
  <2> QED BY <1>1, <2>1 DEF EmailOf, AccountsTypeOK
<1>2. CASE ~\E u \in users : u.host = h
  BY <1>2 DEF EmailOf
<1> QED BY <1>1, <1>2

LEMMA AskingIsFinite ==
  ASSUME NEW i
  PROVE  IsFiniteSet(Asking(i)) /\ Cardinality(Asking(i)) \in Nat
BY FS_Subset, FS_CardinalityType DEF Asking

LEMMA AccountsStart == AccountsInit => AccountsInv
<1> SUFFICES ASSUME AccountsInit PROVE AccountsInv
  OBVIOUS
<1>1. \A r \in Requests : request[r] = NoRequest
  BY DEF AccountsInit
<1>2. \A i \in Ips : Asking(i) = {}
  BY <1>1, NoRequestHasNothing DEF Asking, Asks
<1>3. AccountsTypeOK /\ ProvisionsOK
  BY <1>1, NoRequestHasNothing DEF AccountsInit, AccountsTypeOK, ProvisionsOK
<1>4. BucketsHaveRoom
  BY <1>1, <1>2, NoRequestHasNothing, FS_EmptySet DEF AccountsInit, BucketsHaveRoom, HasBucket
<1> QED BY <1>3, <1>4 DEF AccountsInv

\* A request that begins, and one that moves on without inserting or committing.
LEMMA RequestMoves ==
  ASSUME AccountsInv, NEW r \in Requests, NEW q \in RequestType,
         request' = [request EXCEPT ![r] = q], UNCHANGED users,
         q.pc \in {"register", "insert", "commit", "recount"} =>
           q.ip \in Ips /\ q.email \in Emails /\ q.host = NoOne,
         q.pc = "commit" => ~IsTaken(q.email) /\ ~IsPending(q.email),
         q.pc \in {"insert", "commit"} =>
           \A s \in Requests \ {r} : request[s].pc \in {"insert", "commit"} => request[s].ip # q.ip,
         q.pc = "provision" => q.host \in Hosts \/ q.email \in Emails,
         q.known # NoOne => q.host \in Hosts /\ \E u \in users : u.host = q.host,
         attempts' \in [Ips -> Nat], asked' \in [Ips -> Nat], made' \in [Ips -> Nat]
  PROVE  AccountsTypeOK' /\ ProvisionsOK'
<1>1. request'[r] = q /\ \A s \in Requests \ {r} : request'[s] = request[s]
  BY DEF AccountsInv, AccountsTypeOK
<1>2. request' \in [Requests -> RequestType]
  BY DEF AccountsInv, AccountsTypeOK
<1>3. \A e : IsTaken(e)' <=> IsTaken(e)
  BY DEF IsTaken
<1>4. \A s \in Requests :
        /\ request'[s].pc \in {"register", "insert", "commit", "recount"} =>
             request'[s].ip \in Ips /\ request'[s].email \in Emails /\ request'[s].host = NoOne
        /\ request'[s].pc = "commit" => ~IsTaken(request'[s].email)
  BY <1>1 DEF AccountsInv, AccountsTypeOK
<1>5. \A s, t \in Requests : s # t /\ request'[s].pc \in {"insert", "commit"} =>
        /\ request'[t].pc \in {"insert", "commit"} => request'[s].ip # request'[t].ip
        /\ request'[s].pc = "commit" /\ request'[t].pc = "commit" =>
             request'[s].email # request'[t].email
  BY <1>1 DEF AccountsInv, AccountsTypeOK, IsPending
<1>6. AccountsTypeOK'
  BY <1>2, <1>3, <1>4, <1>5 DEF AccountsInv, AccountsTypeOK
<1>7. ProvisionsOK'
  BY <1>1 DEF AccountsInv, ProvisionsOK
<1> QED BY <1>6, <1>7

\* Who asks after a step of r, and that one has the bucket.
LEMMA AskingMoves ==
  ASSUME AccountsInv, NEW r \in Requests, NEW q, request' = [request EXCEPT ![r] = q], NEW i \in Ips
  PROVE  /\ Asking(i)' = IF Asks(q, i) THEN Asking(i) \cup {r} ELSE Asking(i) \ {r}
         /\ Cardinality(Asking(i)') =
              Cardinality(Asking(i)) + (IF Asks(q, i) THEN 1 ELSE 0) - (IF Asks(request[r], i) THEN 1 ELSE 0)
<1>1. request'[r] = q /\ \A s \in Requests \ {r} : request'[s] = request[s]
  BY DEF AccountsInv, AccountsTypeOK
<1>2. Asking(i)' = IF Asks(q, i) THEN Asking(i) \cup {r} ELSE Asking(i) \ {r}
  BY <1>1 DEF Asking, Asks
<1>3. r \in Asking(i) <=> Asks(request[r], i)
  BY DEF Asking
<1>4. /\ Cardinality(Asking(i) \cup {r}) = Cardinality(Asking(i)) + (IF r \in Asking(i) THEN 0 ELSE 1)
      /\ Cardinality(Asking(i) \ {r}) = Cardinality(Asking(i)) - (IF r \in Asking(i) THEN 1 ELSE 0)
      /\ Cardinality(Asking(i)) \in Nat
  <2>1. IsFiniteSet(Asking(i)) /\ Cardinality(Asking(i)) \in Nat
    BY AskingIsFinite
  <2>2. Cardinality(Asking(i) \cup {r}) = IF r \in Asking(i) THEN Cardinality(Asking(i)) ELSE Cardinality(Asking(i)) + 1
    BY <2>1, FS_AddElement
  <2>3. Cardinality(Asking(i) \ {r}) = IF r \in Asking(i) THEN Cardinality(Asking(i)) - 1 ELSE Cardinality(Asking(i))
    BY <2>1, FS_RemoveElement
  <2> QED BY <2>1, <2>2, <2>3
<1> QED BY <1>2, <1>3, <1>4

\* A step that makes of request r what q is keeps the count of bucket i: of two
\* who ask for it, one has it.
KeepsCount(r, q, i) ==
  /\ Asks(q, i) /\ ~Asks(request[r], i) => asked'[i] - attempts'[i] = asked[i] - attempts[i] + 1
  /\ ~Asks(q, i) /\ Asks(request[r], i) => asked'[i] - attempts'[i] = asked[i] - attempts[i] - 1
  /\ (Asks(q, i) <=> Asks(request[r], i)) => asked'[i] - attempts'[i] = asked[i] - attempts[i]
  /\ attempts'[i] - attempts[i] >= made'[i] - made[i]
  /\ made'[i] <= made[i] \/ (made'[i] = made[i] + 1 /\ HasBucket(i))
  /\ attempts'[i] = attempts[i] \/ ~HasBucket(i)'
  /\ q.ip = i /\ q.pc \in {"insert", "commit"} => attempts'[i] < Limit

LEMMA BucketMoves ==
  ASSUME AccountsInv, NEW r \in Requests, NEW q, request' = [request EXCEPT ![r] = q],
         attempts' \in [Ips -> Nat], asked' \in [Ips -> Int], made' \in [Ips -> Nat],
         \A i \in Ips : KeepsCount(r, q, i)
  PROVE  BucketsHaveRoom' /\ \A i \in Ips : asked'[i] \in Nat
<1> SUFFICES ASSUME NEW i \in Ips
             PROVE  /\ asked'[i] = attempts'[i] + Cardinality(Asking(i)')
                    /\ made'[i] <= attempts'[i] /\ made'[i] <= Limit
                    /\ HasBucket(i)' => attempts'[i] < Limit
                    /\ asked'[i] \in Nat
  BY DEF BucketsHaveRoom, Asking, Asks
<1>1. request'[r] = q /\ \A s \in Requests \ {r} : request'[s] = request[s]
  BY DEF AccountsInv, AccountsTypeOK
<1>2. /\ attempts[i] \in Nat /\ asked[i] \in Nat /\ made[i] \in Nat
      /\ attempts'[i] \in Nat /\ asked'[i] \in Int /\ made'[i] \in Nat /\ Cardinality(Asking(i)) \in Nat
  BY AskingIsFinite DEF AccountsInv, AccountsTypeOK
<1>3. /\ asked[i] = attempts[i] + Cardinality(Asking(i))
      /\ made[i] <= attempts[i] /\ made[i] <= Limit
      /\ HasBucket(i) => attempts[i] < Limit
  BY DEF AccountsInv, BucketsHaveRoom
<1>4. Cardinality(Asking(i)') \in Nat
  <2>1. Asking(i)' \in SUBSET Requests
    BY DEF Asking
  <2> QED BY <2>1, FS_Subset, FS_CardinalityType
<1>5. asked'[i] = attempts'[i] + Cardinality(Asking(i)') /\ asked'[i] \in Nat
  <2>1. Cardinality(Asking(i)') =
          Cardinality(Asking(i)) + (IF Asks(q, i) THEN 1 ELSE 0) - (IF Asks(request[r], i) THEN 1 ELSE 0)
    BY AskingMoves
  <2>2. KeepsCount(r, q, i)
    OBVIOUS
  <2>3. asked'[i] - attempts'[i] = Cardinality(Asking(i)')
    <3>1. CASE Asks(q, i) /\ ~Asks(request[r], i)
      BY <1>2, <1>3, <2>1, <2>2, <3>1 DEF KeepsCount
    <3>2. CASE ~Asks(q, i) /\ Asks(request[r], i)
      BY <1>2, <1>3, <2>1, <2>2, <3>2 DEF KeepsCount
    <3>3. CASE Asks(q, i) <=> Asks(request[r], i)
      BY <1>2, <1>3, <2>1, <2>2, <3>3 DEF KeepsCount
    <3> QED BY <3>1, <3>2, <3>3
  <2> QED BY <1>2, <1>4, <2>3
<1>6. made'[i] <= attempts'[i] /\ made'[i] <= Limit
  BY <1>2, <1>3 DEF KeepsCount
<1>7. HasBucket(i)' => attempts'[i] < Limit
  <2>1. HasBucket(i)' => HasBucket(i) \/ (q.ip = i /\ q.pc \in {"insert", "commit"})
    BY <1>1 DEF HasBucket
  <2> QED BY <1>2, <1>3, <2>1 DEF KeepsCount
<1> QED BY <1>5, <1>6, <1>7

LEMMA CountTypes ==
  ASSUME AccountsInv
  PROVE  /\ attempts \in [Ips -> Nat] /\ asked \in [Ips -> Int] /\ asked \in [Ips -> Nat] /\ made \in [Ips -> Nat]
         /\ \A i \in Ips : attempts[i] \in Nat /\ asked[i] \in Nat /\ made[i] \in Nat
BY DEF AccountsInv, AccountsTypeOK

\* A step that counts nothing, of a request that asks for as much as before.
LEMMA NothingCounted ==
  ASSUME AccountsInv, NEW r \in Requests, NEW q, request' = [request EXCEPT ![r] = q],
         UNCHANGED <<attempts, asked, made>>,
         \A i \in Ips : Asks(q, i) <=> Asks(request[r], i),
         \A i \in Ips : q.ip = i /\ q.pc \in {"insert", "commit"} => HasBucket(i)
  PROVE  BucketsHaveRoom'
<1>1. \A i \in Ips : HasBucket(i) => attempts[i] < Limit
  BY DEF AccountsInv, BucketsHaveRoom
<1>2. \A i \in Ips : KeepsCount(r, q, i)
  BY <1>1, CountTypes DEF KeepsCount
<1> QED BY <1>2, CountTypes, BucketMoves

LEMMA BeginRegisterKeepsInv ==
  ASSUME AccountsInv, NEW r \in Requests, NEW i \in Ips, NEW e \in Emails, BeginRegister(r, i, e)
  PROVE  AccountsInv'
<1> DEFINE q == [NoRequest EXCEPT !.pc = "register", !.ip = i, !.email = e]
<1>1. request' = [request EXCEPT ![r] = q] /\ request[r] = NoRequest
      /\ UNCHANGED <<users, attempts, asked, made>>
  BY DEF BeginRegister, AccountsInv, AccountsTypeOK
<1>2. q \in RequestType /\ q.pc = "register" /\ q.ip = i /\ q.email = e /\ q.host = NoOne /\ q.known = NoOne
  BY DEF NoRequest, RequestType
<1> HIDE DEF q
<1>3. AccountsTypeOK' /\ ProvisionsOK'
  BY <1>1, <1>2, CountTypes, RequestMoves
<1>4. BucketsHaveRoom'
  <2>1. \A j \in Ips : ~Asks(q, j) /\ ~Asks(request[r], j)
    BY <1>1, <1>2, NoRequestHasNothing DEF Asks
  <2> QED BY <1>1, <1>2, <2>1, NothingCounted
<1> QED BY <1>3, <1>4 DEF AccountsInv

\* The last step of a registration that made no account, which counts it.
LEMMA RegistrationEnds ==
  ASSUME AccountsInv, NEW r \in Requests, NEW i \in Ips, i = request[r].ip,
         request[r].pc \in {"register", "recount"}, ~HasBucket(i),
         request' = [request EXCEPT ![r] = NoRequest], UNCHANGED <<users, made>>,
         attempts' = [attempts EXCEPT ![i] = @ + 1],
         asked' = IF request[r].pc = "register" THEN [asked EXCEPT ![i] = @ + 1] ELSE asked
  PROVE  AccountsInv'
<1>1. /\ attempts' \in [Ips -> Nat] /\ asked' \in [Ips -> Nat] /\ asked' \in [Ips -> Int] /\ made' \in [Ips -> Nat]
      /\ \A j \in Ips : /\ attempts'[j] = IF j = i THEN attempts[j] + 1 ELSE attempts[j]
                        /\ asked'[j] = IF j = i /\ request[r].pc = "register" THEN asked[j] + 1 ELSE asked[j]
  BY CountTypes
<1>2. AccountsTypeOK' /\ ProvisionsOK'
  BY <1>1, RequestMoves, NoRequestHasNothing
<1>3. ~HasBucket(i)'
  BY NoRequestHasNothing DEF HasBucket, AccountsInv, AccountsTypeOK
<1>4. \A j \in Ips : ~Asks(NoRequest, j) /\ (Asks(request[r], j) <=> j = i /\ request[r].pc = "recount")
  BY NoRequestHasNothing DEF Asks
<1>5. \A j \in Ips : KeepsCount(r, NoRequest, j)
  BY <1>1, <1>3, <1>4, CountTypes, NoRequestHasNothing DEF KeepsCount
<1>6. BucketsHaveRoom'
  BY <1>1, <1>5, BucketMoves
<1> QED BY <1>2, <1>6 DEF AccountsInv

LEMMA RegisterKeepsInv ==
  ASSUME AccountsInv, NEW r \in Requests, Register(r)
  PROVE  AccountsInv'
<1>1. PICK i \in Ips : i = request[r].ip
  BY DEF Register, AccountsInv, AccountsTypeOK
<1>2. /\ request[r].pc = "register" /\ request[r] \in RequestType /\ request[r].email \in Emails
      /\ request[r].host = NoOne /\ request[r].known = NoOne
      /\ UNCHANGED <<users, made>> /\ ~HasBucket(i)
  BY <1>1 DEF Register, AccountsInv, AccountsTypeOK, ProvisionsOK
<1>3. CASE attempts[i] >= Limit
  <2>1. request' = [request EXCEPT ![r] = NoRequest] /\ UNCHANGED <<attempts, asked>>
    BY <1>1, <1>3 DEF Register, EndRequest
  <2>2. AccountsTypeOK' /\ ProvisionsOK'
    BY <1>2, <2>1, CountTypes, RequestMoves, NoRequestHasNothing
  <2>3. \A j \in Ips : ~Asks(NoRequest, j) /\ ~Asks(request[r], j)
    BY <1>2, NoRequestHasNothing DEF Asks
  <2>4. BucketsHaveRoom'
    BY <1>2, <2>1, <2>3, NothingCounted, NoRequestHasNothing
  <2> QED BY <2>2, <2>4 DEF AccountsInv
<1>4. CASE ~(attempts[i] >= Limit) /\ IsTaken(request[r].email)
  <2>1. /\ request' = [request EXCEPT ![r] = NoRequest]
        /\ asked' = [asked EXCEPT ![i] = @ + 1] /\ attempts' = [attempts EXCEPT ![i] = @ + 1]
    BY <1>1, <1>4 DEF Register, EndRequest
  <2> QED BY <1>1, <1>2, <2>1, RegistrationEnds
<1>5. CASE ~(attempts[i] >= Limit) /\ ~IsTaken(request[r].email)
  <2> DEFINE q == [request[r] EXCEPT !.pc = "insert"]
  <2>1. /\ request' = [request EXCEPT ![r] = q]
        /\ asked' = [asked EXCEPT ![i] = @ + 1] /\ UNCHANGED attempts
    BY <1>1, <1>5 DEF Register
  <2>2. /\ q \in RequestType /\ q.pc = "insert" /\ q.ip = i /\ q.email \in Emails
        /\ q.host = NoOne /\ q.known = NoOne
    BY <1>1, <1>2 DEF RequestType
  <2> HIDE DEF q
  <2>3. /\ asked' \in [Ips -> Nat] /\ asked' \in [Ips -> Int]
        /\ \A j \in Ips : asked'[j] = IF j = i THEN asked[j] + 1 ELSE asked[j]
    BY <2>1, CountTypes
  <2>4. \A s \in Requests : request[s].pc \in {"insert", "commit"} => request[s].ip # i
    BY <1>2 DEF HasBucket
  <2>5. AccountsTypeOK' /\ ProvisionsOK'
    BY <1>2, <2>1, <2>2, <2>3, <2>4, CountTypes, RequestMoves
  <2>6. \A j \in Ips : ~Asks(request[r], j) /\ (Asks(q, j) <=> j = i)
    BY <1>2, <2>2 DEF Asks
  <2>7. attempts[i] < Limit
    BY <1>5, CountTypes
  <2>8. \A j \in Ips : KeepsCount(r, q, j)
    BY <1>2, <2>1, <2>2, <2>3, <2>6, <2>7, CountTypes DEF KeepsCount
  <2>9. BucketsHaveRoom'
    BY <1>2, <2>1, <2>3, <2>8, CountTypes, BucketMoves
  <2> QED BY <2>5, <2>9 DEF AccountsInv
<1> QED BY <1>3, <1>4, <1>5

LEMMA InsertKeepsInv ==
  ASSUME AccountsInv, NEW r \in Requests, Insert(r)
  PROVE  AccountsInv'
<1> DEFINE q == [request[r] EXCEPT !.pc = IF IsTaken(request[r].email) THEN "recount" ELSE "commit"]
<1>1. /\ request' = [request EXCEPT ![r] = q] /\ UNCHANGED <<users, attempts, asked, made>>
      /\ request[r].pc = "insert" /\ ~IsPending(request[r].email)
  BY DEF Insert
<1>2. /\ request[r] \in RequestType /\ request[r].ip \in Ips /\ request[r].email \in Emails
      /\ request[r].host = NoOne /\ request[r].known = NoOne
  BY <1>1 DEF AccountsInv, AccountsTypeOK, ProvisionsOK
<1>3. /\ q \in RequestType /\ q.ip = request[r].ip /\ q.email = request[r].email
      /\ q.host = NoOne /\ q.known = NoOne
      /\ q.pc = IF IsTaken(request[r].email) THEN "recount" ELSE "commit"
  BY <1>2 DEF RequestType
<1> HIDE DEF q
<1>4. \A s \in Requests \ {r} : request[s].pc \in {"insert", "commit"} => request[s].ip # q.ip
  BY <1>1, <1>3 DEF AccountsInv, AccountsTypeOK
<1>5. AccountsTypeOK' /\ ProvisionsOK'
  BY <1>1, <1>2, <1>3, <1>4, CountTypes, RequestMoves
<1>6. \A i \in Ips : (Asks(q, i) <=> Asks(request[r], i)) /\ (q.ip = i => HasBucket(i))
  BY <1>1, <1>3 DEF Asks, HasBucket
<1>7. BucketsHaveRoom'
  BY <1>1, <1>6, NothingCounted
<1> QED BY <1>5, <1>7 DEF AccountsInv

LEMMA RecountKeepsInv ==
  ASSUME AccountsInv, NEW r \in Requests, Recount(r)
  PROVE  AccountsInv'
<1>1. PICK i \in Ips : i = request[r].ip
  BY DEF Recount, AccountsInv, AccountsTypeOK
<1> QED BY <1>1, RegistrationEnds DEF Recount, EndRequest

LEMMA CommitUserKeepsInv ==
  ASSUME AccountsInv, NEW r \in Requests, CommitUser(r)
  PROVE  AccountsInv'
<1>1. PICK i \in Ips : i = request[r].ip
  BY DEF CommitUser, AccountsInv, AccountsTypeOK
<1> DEFINE row == [email |-> request[r].email, host |-> NoOne]
<1>2. /\ request[r].pc = "commit" /\ request' = [request EXCEPT ![r] = NoRequest]
      /\ users' = users \cup {row}
      /\ attempts' = [attempts EXCEPT ![i] = @ + 1] /\ made' = [made EXCEPT ![i] = @ + 1]
      /\ UNCHANGED asked
  BY <1>1 DEF CommitUser, EndRequest
<1>3. /\ row.email = request[r].email /\ row.host = NoOne
      /\ row \in [email : AllEmails, host : Hosts \cup {NoOne}]
  BY <1>2 DEF AccountsInv, AccountsTypeOK, AllEmails
<1> HIDE DEF row
<1>4. /\ attempts' \in [Ips -> Nat] /\ asked' \in [Ips -> Int] /\ asked' \in [Ips -> Nat]
      /\ made' \in [Ips -> Nat]
      /\ \A j \in Ips : /\ attempts'[j] = IF j = i THEN attempts[j] + 1 ELSE attempts[j]
                        /\ made'[j] = IF j = i THEN made[j] + 1 ELSE made[j]
  BY <1>2, CountTypes
<1>5. request'[r] = NoRequest /\ \A s \in Requests \ {r} : request'[s] = request[s]
  BY <1>2 DEF AccountsInv, AccountsTypeOK
<1>6. \A s \in Requests \ {r} : request[s].pc \in {"insert", "commit"} => request[s].ip # i
  BY <1>1, <1>2 DEF AccountsInv, AccountsTypeOK
<1>7. AccountsTypeOK'
  <2>1. \A s \in Requests \ {r} : request[s].pc = "commit" => ~IsTaken(request[s].email) /\ request[s].email # row.email
    BY <1>2, <1>3 DEF AccountsInv, AccountsTypeOK
  <2>2. \A s \in Requests : (request[s].pc = "commit" => ~IsTaken(request[s].email))'
    BY <1>2, <1>5, <2>1, NoRequestHasNothing DEF IsTaken
  <2>3. /\ users' \subseteq [email : AllEmails, host : Hosts \cup {NoOne}]
        /\ request' \in [Requests -> RequestType]
    BY <1>2, <1>3, NoRequestHasNothing DEF AccountsInv, AccountsTypeOK
  <2>4. \A s \in Requests : request'[s].pc \in {"register", "insert", "commit", "recount"} =>
            request'[s].ip \in Ips /\ request'[s].email \in Emails /\ request'[s].host = NoOne
    BY <1>5, NoRequestHasNothing DEF AccountsInv, AccountsTypeOK
  <2>5. \A s, t \in Requests : s # t /\ request'[s].pc \in {"insert", "commit"} =>
          /\ request'[t].pc \in {"insert", "commit"} => request'[s].ip # request'[t].ip
          /\ request'[s].pc = "commit" /\ request'[t].pc = "commit" =>
               request'[s].email # request'[t].email
    BY <1>5, NoRequestHasNothing DEF AccountsInv, AccountsTypeOK
  <2> QED BY <1>4, <2>2, <2>3, <2>4, <2>5 DEF AccountsTypeOK
<1>8. ProvisionsOK'
  BY <1>2, <1>5, NoRequestHasNothing DEF AccountsInv, ProvisionsOK
<1>9. BucketsHaveRoom'
  <2>1. HasBucket(i)
    BY <1>1, <1>2 DEF HasBucket
  <2>2. ~HasBucket(i)'
    BY <1>5, <1>6, NoRequestHasNothing DEF HasBucket
  <2>3. \A j \in Ips : ~Asks(NoRequest, j) /\ (Asks(request[r], j) <=> j = i)
    BY <1>1, <1>2, NoRequestHasNothing DEF Asks
  <2>4. \A j \in Ips : KeepsCount(r, NoRequest, j)
    BY <1>2, <1>4, <2>1, <2>2, <2>3, CountTypes, NoRequestHasNothing DEF KeepsCount
  <2> QED BY <1>2, <1>4, <2>4, BucketMoves
<1> QED BY <1>7, <1>8, <1>9 DEF AccountsInv

LEMMA AbortKeepsInv ==
  ASSUME AccountsInv, NEW r \in Requests, Abort(r)
  PROVE  AccountsInv'
<1>1. PICK i \in Ips : i = request[r].ip
  BY DEF Abort, AccountsInv, AccountsTypeOK
<1>2. /\ request[r].pc \in {"insert", "commit"} /\ request' = [request EXCEPT ![r] = NoRequest]
      /\ asked' = [asked EXCEPT ![i] = @ - 1] /\ UNCHANGED <<users, attempts, made>>
  BY <1>1 DEF Abort, EndRequest
<1>3. /\ asked' \in [Ips -> Int]
      /\ \A j \in Ips : asked'[j] = IF j = i THEN asked[j] - 1 ELSE asked[j]
  BY <1>2, CountTypes
<1>4. \A j \in Ips : ~Asks(NoRequest, j) /\ (Asks(request[r], j) <=> j = i)
  BY <1>1, <1>2, NoRequestHasNothing DEF Asks
<1>5. \A j \in Ips : KeepsCount(r, NoRequest, j)
  BY <1>2, <1>3, <1>4, CountTypes, NoRequestHasNothing DEF KeepsCount
<1>6. BucketsHaveRoom' /\ \A j \in Ips : asked'[j] \in Nat
  BY <1>2, <1>3, <1>5, CountTypes, BucketMoves
<1>7. asked' \in [Ips -> Nat]
  BY <1>3, <1>6
<1>8. AccountsTypeOK' /\ ProvisionsOK'
  BY <1>2, <1>7, CountTypes, RequestMoves, NoRequestHasNothing
<1> QED BY <1>6, <1>8 DEF AccountsInv

LEMMA WindowEndsKeepsInv ==
  ASSUME AccountsInv, NEW i \in Ips, WindowEnds(i)
  PROVE  AccountsInv'
<1> DEFINE again == {r \in Requests : request[r].pc = "recount" /\ request[r].ip = i}
<1>1. /\ ~HasBucket(i) /\ UNCHANGED <<users, request>>
      /\ attempts' = [attempts EXCEPT ![i] = 0] /\ made' = [made EXCEPT ![i] = 0]
      /\ asked' = [asked EXCEPT ![i] = Cardinality(again)]
  BY DEF WindowEnds
<1>2. Asking(i) = again
  BY <1>1 DEF HasBucket, Asking, Asks
<1> HIDE DEF again
<1>3. Cardinality(again) \in Nat
  BY <1>2, AskingIsFinite
<1>4. /\ attempts' \in [Ips -> Nat] /\ asked' \in [Ips -> Nat] /\ made' \in [Ips -> Nat]
      /\ \A j \in Ips : /\ attempts'[j] = IF j = i THEN 0 ELSE attempts[j]
                        /\ made'[j] = IF j = i THEN 0 ELSE made[j]
                        /\ asked'[j] = IF j = i THEN Cardinality(again) ELSE asked[j]
  BY <1>1, <1>3, CountTypes
<1>5. AccountsTypeOK' /\ ProvisionsOK'
  BY <1>1, <1>4 DEF AccountsInv, AccountsTypeOK, ProvisionsOK, IsTaken
<1>6. \A j \in Ips : Asking(j)' = Asking(j) /\ (HasBucket(j)' <=> HasBucket(j))
  BY <1>1 DEF Asking, Asks, HasBucket
<1>7. BucketsHaveRoom'
  BY <1>1, <1>2, <1>3, <1>4, <1>6 DEF AccountsInv, BucketsHaveRoom
<1> QED BY <1>5, <1>7 DEF AccountsInv

LEMMA BeginHostKeepsInv ==
  ASSUME AccountsInv, NEW r \in Requests, NEW h \in Hosts, NEW e \in Emails \cup {NoOne}, BeginHost(r, h, e)
  PROVE  AccountsInv'
<1> DEFINE q == [NoRequest EXCEPT !.pc = "provision", !.host = h, !.email = e, !.known = EmailOf(h)]
<1>1. /\ request' = [request EXCEPT ![r] = q] /\ request[r] = NoRequest
      /\ UNCHANGED <<users, attempts, asked, made>>
  BY DEF BeginHost, AccountsInv, AccountsTypeOK
<1>2. EmailOf(h) \in AllEmails \cup {NoOne} /\ ((\E u \in users : u.host = h) <=> EmailOf(h) # NoOne)
  BY EmailOfUser DEF AccountsInv
<1>3. q \in RequestType /\ q.pc = "provision" /\ q.host = h /\ q.known = EmailOf(h)
  BY <1>2 DEF NoRequest, RequestType
<1> HIDE DEF q
<1>4. AccountsTypeOK' /\ ProvisionsOK'
  BY <1>1, <1>2, <1>3, CountTypes, RequestMoves
<1>5. BucketsHaveRoom'
  <2>1. \A j \in Ips : ~Asks(q, j) /\ ~Asks(request[r], j)
    BY <1>1, <1>3, NoRequestHasNothing DEF Asks
  <2> QED BY <1>1, <1>3, <2>1, NothingCounted
<1> QED BY <1>4, <1>5 DEF AccountsInv

LEMMA BeginDevelopmentKeepsInv ==
  ASSUME AccountsInv, NEW r \in Requests, BeginDevelopment(r)
  PROVE  AccountsInv'
<1> DEFINE q == [NoRequest EXCEPT !.pc = "provision", !.email = DevEmail]
<1>1. /\ request' = [request EXCEPT ![r] = q] /\ request[r] = NoRequest
      /\ UNCHANGED <<users, attempts, asked, made>>
  BY DEF BeginDevelopment, AccountsInv, AccountsTypeOK
<1>2. q \in RequestType /\ q.pc = "provision" /\ q.email \in Emails /\ q.known = NoOne
  BY DEF NoRequest, RequestType
<1> HIDE DEF q
<1>3. AccountsTypeOK' /\ ProvisionsOK'
  BY <1>1, <1>2, CountTypes, RequestMoves
<1>4. BucketsHaveRoom'
  <2>1. \A j \in Ips : ~Asks(q, j) /\ ~Asks(request[r], j)
    BY <1>1, <1>2, NoRequestHasNothing DEF Asks
  <2> QED BY <1>1, <1>2, <2>1, NothingCounted
<1> QED BY <1>3, <1>4 DEF AccountsInv

\* What the host's commit writes is a row, of the user who was looked up.
LEMMA ProvisionedRow ==
  ASSUME AccountsInv, NEW r \in Requests, request[r].pc = "provision"
  PROVE  /\ Provisioned(r) \in [email : AllEmails, host : Hosts \cup {NoOne}]
         /\ Provisioned(r).host = request[r].host
<1> DEFINE q == request[r]
<1>1. q \in RequestType /\ (q.host \in Hosts \/ q.email \in Emails)
  BY DEF AccountsInv, AccountsTypeOK, ProvisionsOK
<1>2. q.known # NoOne => q.host \in Hosts /\ EmailOf(q.host) \in AllEmails
  <2> SUFFICES ASSUME q.known # NoOne PROVE q.host \in Hosts /\ EmailOf(q.host) \in AllEmails
    OBVIOUS
  <2>1. q.host \in Hosts /\ \E u \in users : u.host = q.host
    BY DEF AccountsInv, ProvisionsOK
  <2> QED BY <2>1, EmailOfUser DEF AccountsInv
<1>3. Provisioned(r).host = q.host /\ q.host \in Hosts \cup {NoOne}
  BY <1>1 DEF Provisioned, RequestType
<1>4. Provisioned(r).email \in AllEmails
  <2>1. Provisioned(r).email =
          IF q.known = NoOne
          THEN IF q.email = NoOne THEN OwnEmail[q.host] ELSE q.email
          ELSE IF q.email \in {NoOne, q.known} THEN EmailOf(q.host) ELSE q.email
    BY DEF Provisioned
  <2>2. q.email \in Emails \cup {NoOne} /\ (q.email = NoOne => q.host \in Hosts)
    BY <1>1 DEF RequestType, AllEmails
  <2> QED BY <1>2, <2>1, <2>2 DEF AllEmails
<1> QED BY <1>3, <1>4 DEF Provisioned

LEMMA ProvisionKeepsInv ==
  ASSUME AccountsInv, NEW r \in Requests, Provision(r)
  PROVE  AccountsInv'
<1>1. PICK row : row = Provisioned(r)
  OBVIOUS
<1>2. PICK gone \in SUBSET users : gone = Superseded(r)
  BY DEF Superseded
<1>3. /\ request[r].pc = "provision" /\ request' = [request EXCEPT ![r] = NoRequest]
      /\ ~IsPending(row.email) /\ UNCHANGED <<attempts, asked, made>>
      /\ users' = users \/ users' = (users \ gone) \cup {row}
  BY <1>1, <1>2 DEF Provision, EndRequest
<1>4. row \in [email : AllEmails, host : Hosts \cup {NoOne}] /\ row.host = request[r].host
  BY <1>1, <1>3, ProvisionedRow
<1>5. \A u \in gone : u.host = row.host
  BY <1>2, <1>4 DEF Superseded
<1>6. request'[r] = NoRequest /\ \A s \in Requests \ {r} : request'[s] = request[s]
  BY <1>3 DEF AccountsInv, AccountsTypeOK
<1>7. AccountsTypeOK'
  <2>1. \A s \in Requests : request[s].pc = "commit" => ~IsTaken(request[s].email) /\ request[s].email # row.email
    BY <1>3 DEF AccountsInv, AccountsTypeOK, IsPending
  <2>2. \A s \in Requests : (request[s].pc = "commit" => ~IsTaken(request[s].email))'
    BY <1>3, <1>6, <2>1, NoRequestHasNothing DEF IsTaken
  <2>3. /\ users' \subseteq [email : AllEmails, host : Hosts \cup {NoOne}]
        /\ request' \in [Requests -> RequestType]
    BY <1>3, <1>4, NoRequestHasNothing DEF AccountsInv, AccountsTypeOK
  <2>4. \A s \in Requests : request'[s].pc \in {"register", "insert", "commit", "recount"} =>
            request'[s].ip \in Ips /\ request'[s].email \in Emails /\ request'[s].host = NoOne
    BY <1>6, NoRequestHasNothing DEF AccountsInv, AccountsTypeOK
  <2>5. \A s, t \in Requests : s # t /\ request'[s].pc \in {"insert", "commit"} =>
          /\ request'[t].pc \in {"insert", "commit"} => request'[s].ip # request'[t].ip
          /\ request'[s].pc = "commit" /\ request'[t].pc = "commit" =>
               request'[s].email # request'[t].email
    BY <1>6, NoRequestHasNothing DEF AccountsInv, AccountsTypeOK
  <2> QED BY <1>3, CountTypes, <2>2, <2>3, <2>4, <2>5 DEF AccountsTypeOK
<1>8. ProvisionsOK'
  <2>1. \A h : (\E u \in users : u.host = h) => \E u \in users' : u.host = h
    BY <1>3, <1>5
  <2> QED BY <1>6, <2>1, NoRequestHasNothing DEF AccountsInv, ProvisionsOK
<1>9. BucketsHaveRoom'
  <2>1. \A j \in Ips : ~Asks(NoRequest, j) /\ ~Asks(request[r], j)
    BY <1>3, NoRequestHasNothing DEF Asks
  <2> QED BY <1>3, <2>1, NothingCounted, NoRequestHasNothing
<1> QED BY <1>7, <1>8, <1>9 DEF AccountsInv

LEMMA AccountsStep == AccountsInv /\ [AccountsNext]_accountVars => AccountsInv'
<1> SUFFICES ASSUME AccountsInv, [AccountsNext]_accountVars PROVE AccountsInv'
  OBVIOUS
<1>1. CASE UNCHANGED accountVars
  <2>1. UNCHANGED <<users, request, attempts, asked, made>>
    BY <1>1 DEF accountVars
  <2>2. AccountsTypeOK'
    BY <2>1 DEF AccountsInv, AccountsTypeOK, IsTaken
  <2>3. ProvisionsOK'
    BY <2>1 DEF AccountsInv, ProvisionsOK
  <2>4. \A i \in Ips : Asking(i)' = Asking(i) /\ (HasBucket(i)' <=> HasBucket(i))
    BY <2>1 DEF Asking, HasBucket
  <2>5. BucketsHaveRoom'
    BY <2>1, <2>4 DEF AccountsInv, BucketsHaveRoom
  <2> QED BY <2>2, <2>3, <2>5 DEF AccountsInv
<1>2. ASSUME NEW r \in Requests, NEW i \in Ips, NEW e \in Emails, BeginRegister(r, i, e) PROVE AccountsInv'
  BY <1>2, BeginRegisterKeepsInv
<1>3. ASSUME NEW r \in Requests, NEW h \in Hosts, NEW e \in Emails \cup {NoOne}, BeginHost(r, h, e)
      PROVE  AccountsInv'
  BY <1>3, BeginHostKeepsInv
<1>4. ASSUME NEW r \in Requests, BeginDevelopment(r) PROVE AccountsInv'
  BY <1>4, BeginDevelopmentKeepsInv
<1>5. ASSUME NEW r \in Requests, RequestStep(r) PROVE AccountsInv'
  BY <1>5, RegisterKeepsInv, InsertKeepsInv, RecountKeepsInv, CommitUserKeepsInv, ProvisionKeepsInv DEF RequestStep
<1>6. ASSUME NEW r \in Requests, Abort(r) PROVE AccountsInv'
  BY <1>6, AbortKeepsInv
<1>7. ASSUME NEW i \in Ips, WindowEnds(i) PROVE AccountsInv'
  BY <1>7, WindowEndsKeepsInv
<1> QED BY <1>1, <1>2, <1>3, <1>4, <1>5, <1>6, <1>7 DEF AccountsNext

LEMMA AccountsInvariant == AccountsSpec => []AccountsInv
BY AccountsStart, AccountsStep, PTL DEF AccountsSpec

\* A row of users has an e-mail, one registration at a time has the bucket of
\* its IP, and an e-mail inserted and not committed is nobody else's.
THEOREM AccountsTypeCorrect == AccountsSpec => []AccountsTypeOK
<1>1. AccountsInv => AccountsTypeOK
  BY DEF AccountsInv
<1> QED BY <1>1, AccountsInvariant, PTL

\* One IP registers no more accounts in a window than the limit, although a
\* registration rolled back by another of the same e-mail is counted anew, by a
\* second transaction, without looking at the bucket.
THEOREM RegistrationLimit == AccountsSpec => []RegistrationsAreLimited
<1>1. AccountsInv => RegistrationsAreLimited
  BY DEF AccountsInv, BucketsHaveRoom, RegistrationsAreLimited, Asking, Asks
<1> QED BY <1>1, AccountsInvariant, PTL
=============================================================================
