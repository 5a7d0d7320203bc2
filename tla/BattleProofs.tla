---------------------------- MODULE BattleProofs ----------------------------
(***************************************************************************)
(* Proofs about Battle: the type invariant, scores that count a task once, *)
(* and a battle that ends only when it is complete.                        *)
(***************************************************************************)
EXTENDS Battle, FiniteSetTheorems, TLAPS

USE BattleAssumption DEF BattleAssumption

\* Answers begin when the waiting is over, and a start in progress still waits.
StageOK ==
  /\ starting # None => status = "WAITING"
  /\ status = "WAITING" => attempt = [a \in Attempts |-> NoAttempt]

TypeInv == TypeOK /\ StageOK

LEMMA TypeInit == Init => TypeInv
<1> SUFFICES ASSUME Init PROVE TypeInv
  OBVIOUS
<1>1. Cardinality(members) <= MaxParticipants
  <2>1. Cardinality({Host}) = 1
    BY FS_Singleton
  <2> QED BY <2>1 DEF Init
<1>2. grading \in [Attempts -> GradingType]
  BY DEF Init, GradingType, NotGrading
<1>3. attempt \in [Attempts -> AttemptType \cup {NoAttempt}]
  BY DEF Init
<1> QED BY <1>1, <1>2, <1>3 DEF Init, TypeInv, TypeOK, StageOK, NotGrading

\* A seat is taken only while one is free.
LEMMA JoinType ==
  ASSUME TypeInv, NEW u \in Players, JoinRoom(u)
  PROVE  TypeInv'
<1>1. IsFiniteSet(members) /\ Cardinality(members) \in Nat
  BY FS_Subset, FS_CardinalityType DEF TypeInv, TypeOK
<1>2. Cardinality(members') <= MaxParticipants
  <2>1. Cardinality(members \cup {u}) = Cardinality(members) + 1
    BY <1>1, FS_AddElement DEF JoinRoom
  <2> QED BY <1>1, <2>1 DEF JoinRoom, HasSeat
<1>3. attempt' = [a \in Attempts |-> NoAttempt]
  BY DEF JoinRoom, TypeInv, StageOK
<1>4. attempt' \in [Attempts -> (AttemptType \cup {NoAttempt})']
  BY <1>3
<1> QED BY <1>2, <1>3, <1>4 DEF JoinRoom, TypeInv, TypeOK, StageOK, GradingType

LEMMA ReadyType ==
  ASSUME TypeInv, NEW u \in Players,
         WriteReady(u) \/ \E flag \in BOOLEAN : ReadReady(u, flag)
  PROVE  TypeInv'
<1> USE DEF TypeInv, TypeOK, StageOK, AttemptType, GradingType
<1>1. CASE WriteReady(u)
  <2>1. readying[u] \in [old : BOOLEAN, new : BOOLEAN]
    BY <1>1 DEF WriteReady
  <2>2. ready' \in [Players -> BOOLEAN]
    BY <1>1, <2>1 DEF WriteReady
  <2> QED BY <1>1, <2>2 DEF WriteReady
<1>2. ASSUME NEW flag \in BOOLEAN, ReadReady(u, flag)
      PROVE  TypeInv'
  BY <1>2 DEF ReadReady
<1> QED BY <1>1, <1>2

LEMMA StartType ==
  ASSUME TypeInv,
         CommitStart \/ \E chosen \in (SUBSET Tasks) \ {{}} : BeginStart(chosen)
  PROVE  TypeInv'
<1>1. CASE CommitStart
  <2>1. attempt' = [a \in Attempts |-> NoAttempt]
    BY <1>1 DEF CommitStart, TypeInv, StageOK
  <2>2. attempt' \in [Attempts -> (AttemptType \cup {NoAttempt})']
    BY <2>1
  <2>3. tasks' \subseteq Tasks
    BY <1>1 DEF CommitStart, TypeInv, TypeOK
  <2> QED BY <1>1, <2>1, <2>2, <2>3 DEF CommitStart, TypeInv, TypeOK, StageOK, GradingType
<1>2. ASSUME NEW chosen \in (SUBSET Tasks) \ {{}}, BeginStart(chosen)
      PROVE  TypeInv'
  BY <1>2 DEF BeginStart, TypeInv, TypeOK, StageOK, AttemptType, GradingType
<1> QED BY <1>1, <1>2

\* Once an attempt is there, so are its user and task.
LEMMA AttemptThere ==
  ASSUME TypeInv, NEW a \in Attempts, attempt[a].state # "none"
  PROVE  attempt[a] \in AttemptType /\ status # "WAITING"
BY DEF TypeInv, TypeOK, StageOK, NoAttempt

LEMMA AnswerType ==
  ASSUME TypeInv, NEW a \in Attempts,
         InsertAnswer(a) \/ \E u \in Players, t \in Tasks : CheckAnswer(a, u, t)
  PROVE  TypeInv'
<1> USE DEF TypeInv, TypeOK, StageOK, GradingType
<1>1. CASE InsertAnswer(a)
  <2>1. attempt[a] \in AttemptType /\ status # "WAITING"
    BY <1>1, AttemptThere DEF InsertAnswer
  <2>2. attempt' \in [Attempts -> (AttemptType \cup {NoAttempt})']
    BY <1>1, <2>1 DEF InsertAnswer, AttemptType
  <2> QED BY <1>1, <2>1, <2>2 DEF InsertAnswer
<1>2. ASSUME NEW u \in Players, NEW t \in Tasks, CheckAnswer(a, u, t)
      PROVE  TypeInv'
  <2>1. attempt' \in [Attempts -> (AttemptType \cup {NoAttempt})']
    BY <1>2 DEF CheckAnswer, AttemptType
  <2>2. grading[a].pc = "idle"
    BY <1>2 DEF CheckAnswer
  <2> QED BY <1>2, <2>1, <2>2 DEF CheckAnswer
<1> QED BY <1>1, <1>2

Grading(a) ==
  \/ \E correct \in BOOLEAN : Judge(a, correct)
  \/ JudgeFailed(a) \/ CountAnswers(a) \/ CommitGrade(a) \/ Rollback(a)

LEMMA GradingTypes ==
  ASSUME TypeInv, NEW a \in Attempts, Grading(a)
  PROVE  TypeInv'
<1> USE DEF TypeInv, TypeOK, StageOK
<1>1. attempt[a].state = "PENDING" /\ attempt[a] \in AttemptType /\ status # "WAITING"
  <2>1. attempt[a].state = "PENDING"
    BY DEF Grading, Judge, JudgeFailed, CanGrade, CountAnswers, CommitGrade, Rollback
  <2> QED BY <2>1, AttemptThere
<1>2. ASSUME NEW correct \in BOOLEAN, Judge(a, correct)
      PROVE  TypeInv'
  <2> DEFINE gain == IF correct /\ ~PreviousCorrect(a) THEN Score ELSE 0
             judged == [pc |-> "judged", correct |-> correct, finish |-> FALSE, gain |-> gain]
  <2>1. grading' \in [Attempts -> GradingType]
    <3>1. gain \in {0, Score}
      OBVIOUS
    <3> HIDE DEF gain
    <3>2. judged \in GradingType
      BY <3>1 DEF GradingType
    <3>3. grading' = [grading EXCEPT ![a] = judged]
      BY <1>2 DEF Judge, gain
    <3> HIDE DEF judged
    <3> QED BY <3>2, <3>3
  <2>2. \A b \in Attempts : grading'[b].pc # "idle" => attempt[b].state = "PENDING"
    BY <1>1, <1>2 DEF Judge
  <2> QED BY <1>2, <2>1, <2>2 DEF Judge, AttemptType, GradingType
<1>3. CASE JudgeFailed(a)
  <2>1. attempt' \in [Attempts -> (AttemptType \cup {NoAttempt})']
    BY <1>1, <1>3 DEF JudgeFailed, AttemptType
  <2> QED BY <1>1, <1>3, <2>1 DEF JudgeFailed, CanGrade, GradingType
<1>4. CASE CountAnswers(a)
  <2> DEFINE over == /\ status = "RUNNING"
                     /\ Cardinality(Submitted(a)) >= Cardinality(members) * Cardinality(tasks)
  <2>1. grading' \in [Attempts -> GradingType]
    <3>1. over \in BOOLEAN
      OBVIOUS
    <3>2. grading' = [grading EXCEPT ![a] = [grading[a] EXCEPT !.pc = "counted", !.finish = over]]
      BY <1>4 DEF CountAnswers
    <3> HIDE DEF over
    <3>3. [grading[a] EXCEPT !.pc = "counted", !.finish = over] \in GradingType
      <4>1. \A f \in BOOLEAN : [grading[a] EXCEPT !.pc = "counted", !.finish = f] \in GradingType
        BY DEF GradingType
      <4> QED BY <3>1, <4>1, Zenon
    <3> QED BY <3>2, <3>3
  <2>2. \A b \in Attempts : grading'[b].pc # "idle" => attempt[b].state = "PENDING"
    BY <1>1, <1>4 DEF CountAnswers
  <2> QED BY <1>4, <2>1, <2>2 DEF CountAnswers, AttemptType, GradingType
<1>5. CASE CommitGrade(a)
  <2>1. grading[a] \in GradingType
    OBVIOUS
  <2>2. attempt' \in [Attempts -> (AttemptType \cup {NoAttempt})']
    BY <1>1, <1>5, <2>1 DEF CommitGrade, AttemptType, GradingType
  <2>3. score' \in [Players -> Nat]
    BY <1>1, <1>5, <2>1 DEF CommitGrade, AttemptType, GradingType
  <2>4. grading' \in [Attempts -> GradingType]
    BY <1>5 DEF CommitGrade, GradingType, NotGrading
  <2>5. \A b \in Attempts : grading'[b].pc # "idle" => attempt'[b].state = "PENDING"
    BY <1>5 DEF CommitGrade, NotGrading
  <2>6. starting = None
    BY <1>1
  <2> QED BY <1>1, <1>5, <2>2, <2>3, <2>4, <2>5, <2>6 DEF CommitGrade, GradingType
<1>6. CASE Rollback(a)
  <2>1. grading' \in [Attempts -> GradingType]
    BY <1>6 DEF Rollback, GradingType, NotGrading
  <2>2. \A b \in Attempts : grading'[b].pc # "idle" => attempt[b].state = "PENDING"
    BY <1>6 DEF Rollback, NotGrading
  <2> QED BY <1>6, <2>1, <2>2 DEF Rollback, AttemptType, GradingType
<1> QED BY <1>2, <1>3, <1>4, <1>5, <1>6 DEF Grading

LEMMA TypeNext == TypeInv /\ [Next]_vars => TypeInv'
<1> SUFFICES ASSUME TypeInv, [Next]_vars PROVE TypeInv'
  OBVIOUS
<1>1. CASE UNCHANGED vars
  BY <1>1 DEF vars, TypeInv, TypeOK, StageOK, AttemptType, GradingType
<1>2. CASE Next
  BY <1>2, JoinType, ReadyType, StartType, AnswerType, GradingTypes DEF Next, Grading
<1> QED BY <1>1, <1>2

\* A room never has more members than seats, and every answer in it is a
\* member's answer to one of its tasks.
THEOREM TypeCorrect == Spec => []TypeOK
<1>1. Spec => []TypeInv
  BY TypeInit, TypeNext, PTL DEF Spec
<1> QED BY <1>1, PTL DEF TypeInv

-----------------------------------------------------------------------------
(* Scores                                                                  *)

\* Gradings of one user exclude each other, so what a grading found out about
\* earlier right answers is still so when it commits.
GainInv ==
  /\ \A a, b \in Attempts :
       /\ grading[a].pc # "idle" /\ grading[b].pc # "idle"
       /\ attempt[a].user = attempt[b].user
       => a = b
  /\ \A a \in Attempts : grading[a].pc # "idle" =>
       grading[a].gain = IF grading[a].correct /\ attempt[a].task \notin Solved(attempt[a].user)
                         THEN Score ELSE 0

ScoreInv == GainInv /\ ScoreCountsTasksOnce

LEMMA ScoreInit == Init => ScoreInv
<1> SUFFICES ASSUME Init PROVE ScoreInv
  OBVIOUS
<1>1. \A u \in Players : Solved(u) = {}
  BY DEF Init, Solved, NoAttempt
<1>2. Cardinality({}) = 0
  BY FS_EmptySet
<1>3. ScoreCountsTasksOnce
  BY <1>1, <1>2 DEF Init, ScoreCountsTasksOnce
<1>4. GainInv
  BY DEF Init, GainInv, NotGrading
<1> QED BY <1>3, <1>4 DEF ScoreInv

\* An answer that is not graded yet, and is not now, solves nothing.
LEMMA SolvedKept ==
  ASSUME NEW a \in Attempts, NEW row,
         DOMAIN attempt = Attempts, attempt' = [attempt EXCEPT ![a] = row],
         attempt[a].state # "COMPLETED", row.state # "COMPLETED"
  PROVE  \A u : Solved(u)' = Solved(u)
BY DEF Solved

\* What does not touch scores, solved tasks and running gradings keeps them.
LEMMA ScoreFrame ==
  ASSUME ScoreInv, score' = score,
         \A u : Solved(u)' = Solved(u),
         \A a \in Attempts : grading'[a].pc # "idle" =>
           /\ grading'[a].pc # "idle" /\ grading[a].pc # "idle"
           /\ grading'[a].correct = grading[a].correct /\ grading'[a].gain = grading[a].gain
           /\ attempt'[a].user = attempt[a].user /\ attempt'[a].task = attempt[a].task
  PROVE  ScoreInv'
<1>1. ScoreCountsTasksOnce'
  BY DEF ScoreInv, ScoreCountsTasksOnce
<1>2. GainInv'
  BY DEF ScoreInv, GainInv
<1> QED BY <1>1, <1>2 DEF ScoreInv

\* The commit of a grading adds its task to those solved, if it was right.
LEMMA SolvedByCommit ==
  ASSUME TypeInv, NEW a \in Attempts, CommitGrade(a)
  PROVE  \A u : Solved(u)' = IF u = attempt[a].user /\ grading[a].correct
                             THEN Solved(u) \cup {attempt[a].task} ELSE Solved(u)
<1>1. attempt[a].state = "PENDING" /\ attempt[a] \in AttemptType
  <2>1. attempt[a].state = "PENDING"
    BY DEF CommitGrade, TypeInv, TypeOK
  <2> QED BY <2>1, AttemptThere
<1>2. attempt[a].task \in Tasks
  BY <1>1 DEF AttemptType, TypeInv, TypeOK
<1>3. /\ attempt'[a].state = "COMPLETED" /\ attempt'[a].correct = grading[a].correct
      /\ attempt'[a].user = attempt[a].user /\ attempt'[a].task = attempt[a].task
  BY <1>1 DEF CommitGrade, TypeInv, TypeOK, AttemptType
<1>4. \A b \in Attempts \ {a} : attempt'[b] = attempt[b]
  BY DEF CommitGrade, TypeInv, TypeOK
<1> SUFFICES ASSUME NEW u
             PROVE  Solved(u)' = IF u = attempt[a].user /\ grading[a].correct
                                 THEN Solved(u) \cup {attempt[a].task} ELSE Solved(u)
  OBVIOUS
<1>5. CASE u = attempt[a].user /\ grading[a].correct
  <2>1. attempt[a].task \in Solved(u)'
    BY <1>2, <1>3, <1>5 DEF Solved
  <2>2. \A t \in Solved(u) : t \in Solved(u)'
    BY <1>1, <1>4 DEF Solved
  <2>3. \A t \in Solved(u)' : t \in Solved(u) \/ t = attempt[a].task
    BY <1>3, <1>4 DEF Solved
  <2> QED BY <1>5, <2>1, <2>2, <2>3
<1>6. CASE ~(u = attempt[a].user /\ grading[a].correct)
  BY <1>1, <1>3, <1>4, <1>6 DEF Solved
<1> QED BY <1>5, <1>6

LEMMA ScoreCommit ==
  ASSUME TypeInv, ScoreInv, NEW a \in Attempts, CommitGrade(a)
  PROVE  ScoreInv'
<1> DEFINE u == attempt[a].user
           t == attempt[a].task
<1>1. attempt[a] \in AttemptType /\ u \in Players /\ t \in Tasks
  <2>1. attempt[a].state = "PENDING"
    BY DEF CommitGrade, TypeInv, TypeOK
  <2>2. attempt[a] \in AttemptType
    BY <2>1, AttemptThere
  <2> QED BY <2>2 DEF AttemptType, TypeInv, TypeOK
<1>2. grading[a].gain = IF grading[a].correct /\ t \notin Solved(u) THEN Score ELSE 0
  BY DEF CommitGrade, ScoreInv, GainInv
<1>3. score' = [score EXCEPT ![u] = @ + grading[a].gain]
  BY DEF CommitGrade
<1>4. \A v \in Players : IsFiniteSet(Solved(v)) /\ Cardinality(Solved(v)) \in Nat
  <2>1. \A v \in Players : Solved(v) \in SUBSET Tasks
    BY DEF Solved
  <2> QED BY <2>1, FS_Subset, FS_CardinalityType
<1>5. \A v \in Players \ {u} : Solved(v)' = Solved(v)
  BY SolvedByCommit
<1>6. ScoreCountsTasksOnce'
  <2> SUFFICES ASSUME NEW v \in Players
               PROVE  score'[v] = Score * Cardinality(Solved(v)')
    BY DEF ScoreCountsTasksOnce
  <2>1. score[v] = Score * Cardinality(Solved(v))
    BY DEF ScoreInv, ScoreCountsTasksOnce
  <2>2. CASE v # u
    BY <1>3, <1>5, <2>1, <2>2 DEF TypeInv, TypeOK
  <2>3. CASE v = u /\ grading[a].correct /\ t \notin Solved(u)
    <3>1. Solved(v)' = Solved(v) \cup {t}
      BY <2>3, SolvedByCommit
    <3>2. Cardinality(Solved(v) \cup {t}) = Cardinality(Solved(v)) + 1
      BY <1>4, <2>3, FS_AddElement
    <3>3. score'[v] = score[v] + Score
      BY <1>1, <1>2, <1>3, <2>3 DEF TypeInv, TypeOK
    <3> QED BY <1>4, <2>1, <3>1, <3>2, <3>3
  <2>4. CASE v = u /\ ~(grading[a].correct /\ t \notin Solved(u))
    <3>1. Solved(v)' = Solved(v)
      BY <2>4, SolvedByCommit
    <3>2. score'[v] = score[v]
      BY <1>1, <1>2, <1>3, <2>4 DEF TypeInv, TypeOK
    <3> QED BY <2>1, <3>1, <3>2
  <2> QED BY <2>2, <2>3, <2>4
<1>7. GainInv'
  <2>1. \A b \in Attempts : grading'[b].pc # "idle" =>
          /\ b # a /\ grading'[b] = grading[b] /\ attempt'[b] = attempt[b]
          /\ attempt[b].user # u
    BY DEF CommitGrade, NotGrading, ScoreInv, GainInv, TypeInv, TypeOK
  <2>2. \A b \in Attempts : grading'[b].pc # "idle" =>
          Solved(attempt[b].user)' = Solved(attempt[b].user)
    BY <2>1, SolvedByCommit
  <2> QED BY <2>1, <2>2 DEF ScoreInv, GainInv
<1> QED BY <1>6, <1>7 DEF ScoreInv

LEMMA ScoreNext == TypeInv /\ ScoreInv /\ [Next]_vars => ScoreInv'
<1> SUFFICES ASSUME TypeInv, ScoreInv, [Next]_vars PROVE ScoreInv'
  OBVIOUS
<1> DEFINE Untouched == score' = score /\ attempt' = attempt
<1>0. DOMAIN attempt = Attempts /\ DOMAIN grading = Attempts
  BY DEF TypeInv, TypeOK
<1>1. ASSUME Untouched, grading' = grading
      PROVE  ScoreInv'
  BY <1>1, ScoreFrame DEF Solved
<1>2. ASSUME NEW a \in Attempts, NEW row, score' = score, grading' = grading,
             attempt' = [attempt EXCEPT ![a] = row],
             attempt[a].state # "COMPLETED", row.state # "COMPLETED",
             grading[a].pc = "idle" \/ (row.user = attempt[a].user /\ row.task = attempt[a].task)
      PROVE  ScoreInv'
  <2>1. \A u : Solved(u)' = Solved(u)
    BY <1>0, <1>2, SolvedKept
  <2>2. \A b \in Attempts : grading[b].pc # "idle" =>
          attempt'[b].user = attempt[b].user /\ attempt'[b].task = attempt[b].task
    BY <1>0, <1>2
  <2> QED BY <1>2, <2>1, <2>2, ScoreFrame
<1>3. CASE UNCHANGED vars
  BY <1>1, <1>3 DEF vars
<1>4. ASSUME NEW u \in Players, JoinRoom(u) \/ WriteReady(u)
      PROVE  ScoreInv'
  BY <1>1, <1>4 DEF JoinRoom, WriteReady
<1>5. ASSUME NEW u \in Players, NEW flag \in BOOLEAN, ReadReady(u, flag)
      PROVE  ScoreInv'
  BY <1>1, <1>5 DEF ReadReady
<1>6. ASSUME NEW chosen, BeginStart(chosen)
      PROVE  ScoreInv'
  BY <1>1, <1>6 DEF BeginStart
<1>7. CASE CommitStart
  BY <1>1, <1>7 DEF CommitStart
<1>8. ASSUME NEW a \in Attempts, NEW u \in Players, NEW t \in Tasks, CheckAnswer(a, u, t)
      PROVE  ScoreInv'
  <2>1. grading[a].pc = "idle"
    BY <1>8 DEF CheckAnswer, TypeInv, TypeOK
  <2> DEFINE row == [state |-> "checked", user |-> u, task |-> t, correct |-> FALSE]
  <2>2. /\ attempt' = [attempt EXCEPT ![a] = row]
        /\ attempt[a].state # "COMPLETED" /\ row.state # "COMPLETED"
        /\ score' = score /\ grading' = grading
    BY <1>8 DEF CheckAnswer
  <2> HIDE DEF row
  <2> QED BY <1>2, <2>1, <2>2
<1>9. ASSUME NEW a \in Attempts, InsertAnswer(a)
      PROVE  ScoreInv'
  <2>1. attempt' = [attempt EXCEPT ![a] = [attempt[a] EXCEPT !.state = "PENDING"]]
    BY <1>9 DEF InsertAnswer
  <2>2. grading[a].pc = "idle"
    BY <1>9 DEF InsertAnswer, TypeInv, TypeOK
  <2>3. [attempt[a] EXCEPT !.state = "PENDING"].state # "COMPLETED"
    BY <1>9, AttemptThere DEF InsertAnswer, AttemptType
  <2> QED BY <1>2, <1>9, <2>1, <2>2, <2>3 DEF InsertAnswer
<1>10. ASSUME NEW a \in Attempts, JudgeFailed(a)
       PROVE  ScoreInv'
  <2>1. attempt' = [attempt EXCEPT ![a] = [attempt[a] EXCEPT !.state = "FAILED"]]
    BY <1>10 DEF JudgeFailed
  <2>2. [attempt[a] EXCEPT !.state = "FAILED"].state # "COMPLETED"
    BY <1>10, AttemptThere DEF JudgeFailed, CanGrade, AttemptType
  <2> QED BY <1>2, <1>10, <2>1, <2>2 DEF JudgeFailed, CanGrade
<1>11. ASSUME NEW a \in Attempts, NEW correct \in BOOLEAN, Judge(a, correct)
       PROVE  ScoreInv'
  <2>1. /\ attempt[a].state = "PENDING"
        /\ \A b \in Attempts : grading[b].pc # "idle" => attempt[b].user # attempt[a].user
    BY <1>11 DEF Judge, CanGrade, UserFree
  <2>2. attempt[a].task \in Tasks
    BY <2>1, AttemptThere DEF AttemptType, TypeInv, TypeOK
  <2>3. PreviousCorrect(a) <=> attempt[a].task \in Solved(attempt[a].user)
    BY <2>1, <2>2 DEF PreviousCorrect, SameAnswer, Solved
  <2>4. /\ grading'[a].pc = "judged" /\ grading'[a].correct = correct
        /\ grading'[a].gain = IF correct /\ ~PreviousCorrect(a) THEN Score ELSE 0
        /\ \A b \in Attempts \ {a} : grading'[b] = grading[b]
        /\ Untouched
    BY <1>0, <1>11 DEF Judge
  <2>5. \A u : Solved(u)' = Solved(u)
    BY <2>4 DEF Solved
  <2>6. ScoreCountsTasksOnce'
    BY <2>4, <2>5 DEF ScoreInv, ScoreCountsTasksOnce
  <2>7. GainInv'
    BY <2>1, <2>3, <2>4, <2>5 DEF ScoreInv, GainInv
  <2> QED BY <2>6, <2>7 DEF ScoreInv
<1>12. ASSUME NEW a \in Attempts, CountAnswers(a)
       PROVE  ScoreInv'
  <2>1. \A b \in Attempts : /\ grading'[b].correct = grading[b].correct
                            /\ grading'[b].gain = grading[b].gain
                            /\ grading'[b].pc # "idle" => grading[b].pc # "idle"
    BY <1>12 DEF CountAnswers, TypeInv, TypeOK, GradingType
  <2>2. Untouched
    BY <1>12 DEF CountAnswers
  <2>3. \A u : Solved(u)' = Solved(u)
    BY <2>2 DEF Solved
  <2> QED BY <2>1, <2>2, <2>3, ScoreFrame
<1>13. ASSUME NEW a \in Attempts, CommitGrade(a)
       PROVE  ScoreInv'
  BY <1>13, ScoreCommit
<1>14. ASSUME NEW a \in Attempts, Rollback(a)
       PROVE  ScoreInv'
  <2>1. \A b \in Attempts : grading'[b].pc # "idle" => grading'[b] = grading[b]
    BY <1>0, <1>14 DEF Rollback, NotGrading
  <2>2. Untouched
    BY <1>14 DEF Rollback
  <2>3. \A u : Solved(u)' = Solved(u)
    BY <2>2 DEF Solved
  <2> QED BY <2>1, <2>2, <2>3, ScoreFrame
<1> QED BY <1>3, <1>4, <1>5, <1>6, <1>7, <1>8, <1>9, <1>10, <1>11, <1>12, <1>13, <1>14 DEF Next

\* A member's score is that of the tasks solved, each counted once, whatever is
\* answered twice, graded at once or graded again.
THEOREM ScoresCountOnce == Spec => []ScoreCountsTasksOnce
<1>1. Spec => [](TypeInv /\ ScoreInv)
  BY TypeInit, TypeNext, ScoreInit, ScoreNext, PTL DEF Spec
<1> QED BY <1>1, PTL DEF ScoreInv

-----------------------------------------------------------------------------
(* The end of the battle                                                   *)

Answers(a, b, u, t) ==
  /\ attempt[b].state = "COMPLETED" \/ b = a
  /\ attempt[b].user = u /\ attempt[b].task = t

\* A grading that is going to end the battle has counted an answer for every
\* member and task, its own included.
EndInv ==
  /\ FinishedIsComplete
  /\ \A a \in Attempts : grading[a].finish =>
       /\ grading[a].pc = "counted" /\ status # "WAITING"
       /\ \A u \in members, t \in tasks : \E b \in Attempts : Answers(a, b, u, t)

LEMMA EndInit == Init => EndInv
BY DEF Init, EndInv, FinishedIsComplete, NotGrading

\* After the waiting, members and tasks are those of the start, and what is
\* graded stays.
LEMMA RoomStays ==
  ASSUME TypeInv, [Next]_vars
  PROVE  /\ status # "WAITING" => members' = members /\ tasks' = tasks /\ status' # "WAITING"
         /\ \A b \in Attempts : attempt[b].state = "COMPLETED" => attempt'[b] = attempt[b]
<1> USE DEF TypeInv, TypeOK, StageOK
<1>1. CASE UNCHANGED vars
  BY <1>1 DEF vars
<1>2. ASSUME NEW u \in Players,
             JoinRoom(u) \/ WriteReady(u) \/ \E flag \in BOOLEAN : ReadReady(u, flag)
      PROVE  /\ status # "WAITING" => members' = members /\ tasks' = tasks /\ status' # "WAITING"
             /\ attempt' = attempt
  BY <1>2 DEF JoinRoom, WriteReady, ReadReady
<1>3. ASSUME CommitStart \/ \E chosen \in (SUBSET Tasks) \ {{}} : BeginStart(chosen)
      PROVE  /\ status # "WAITING" => members' = members /\ tasks' = tasks /\ status' # "WAITING"
             /\ attempt' = attempt
  BY <1>3 DEF CommitStart, BeginStart
<1>4. ASSUME NEW a \in Attempts,
             InsertAnswer(a) \/ Grading(a) \/ \E u \in Players, t \in Tasks : CheckAnswer(a, u, t)
      PROVE  /\ status # "WAITING" => members' = members /\ tasks' = tasks /\ status' # "WAITING"
             /\ \A b \in Attempts : attempt[b].state = "COMPLETED" => attempt'[b] = attempt[b]
  <2>1. CASE InsertAnswer(a) \/ \E u \in Players, t \in Tasks : CheckAnswer(a, u, t)
    BY <2>1 DEF InsertAnswer, CheckAnswer
  <2>2. CASE Grading(a)
    BY <2>2 DEF Grading, Judge, JudgeFailed, CanGrade, CountAnswers, CommitGrade, Rollback
  <2> QED BY <1>4, <2>1, <2>2
<1> QED BY <1>1, <1>2, <1>3, <1>4 DEF Next, Grading

\* As many answers as members times tasks are one for each of them.
LEMMA CountedIsCovered ==
  ASSUME TypeInv, NEW a \in Attempts, attempt[a].state = "PENDING",
         Cardinality(Submitted(a)) >= Cardinality(members) * Cardinality(tasks)
  PROVE  \A u \in members, t \in tasks : \E b \in Attempts : Answers(a, b, u, t)
<1>1. IsFiniteSet(members) /\ IsFiniteSet(tasks)
  BY FS_Subset DEF TypeInv, TypeOK
<1>2. /\ IsFiniteSet(members \X tasks)
      /\ Cardinality(members \X tasks) = Cardinality(members) * Cardinality(tasks)
  BY <1>1, FS_Product
<1>3. \A b \in Attempts : attempt[b].state = "COMPLETED" \/ b = a => attempt[b] \in AttemptType
  BY AttemptThere
<1>4. Submitted(a) \in SUBSET (members \X tasks)
  BY <1>3 DEF Submitted, AttemptType
<1>5. /\ Cardinality(Submitted(a)) <= Cardinality(members \X tasks)
      /\ Cardinality(Submitted(a)) \in Nat /\ Cardinality(members \X tasks) \in Nat
  BY <1>2, <1>4, FS_Subset, FS_CardinalityType
<1>6. Cardinality(members \X tasks) = Cardinality(Submitted(a))
  BY <1>2, <1>5
<1>7. members \X tasks = Submitted(a)
  BY <1>2, <1>4, <1>6, FS_Subset
<1> SUFFICES ASSUME NEW u \in members, NEW t \in tasks
             PROVE  \E b \in Attempts : Answers(a, b, u, t)
  OBVIOUS
<1>8. <<u, t>> \in Submitted(a)
  BY <1>7
<1> QED BY <1>8 DEF Submitted, Answers

LEMMA EndNext == TypeInv /\ EndInv /\ [Next]_vars => EndInv'
<1> SUFFICES ASSUME TypeInv, EndInv, [Next]_vars PROVE EndInv'
  OBVIOUS
<1> DEFINE Stays == \A a \in Attempts : grading'[a].finish => grading'[a] = grading[a] /\ grading[a].finish
           Covered(a) == \A u \in members, t \in tasks : \E b \in Attempts : Answers(a, b, u, t)
<1>1. /\ status # "WAITING" => members' = members /\ tasks' = tasks /\ status' # "WAITING"
      /\ \A b \in Attempts : attempt[b].state = "COMPLETED" => attempt'[b] = attempt[b]
  BY RoomStays
<1>2. ASSUME NEW a \in Attempts, status # "WAITING", Covered(a),
             attempt'[a].user = attempt[a].user, attempt'[a].task = attempt[a].task
      PROVE  \A u \in members', t \in tasks' : \E b \in Attempts : Answers(a, b, u, t)'
  <2> SUFFICES ASSUME NEW u \in members, NEW t \in tasks
               PROVE  \E b \in Attempts : Answers(a, b, u, t)'
    BY <1>1, <1>2
  <2>1. PICK b \in Attempts : Answers(a, b, u, t)
    BY <1>2
  <2>2. Answers(a, b, u, t)'
    BY <1>1, <1>2, <2>1 DEF Answers
  <2> QED BY <2>2
<1>3. ASSUME status' = "FINISHED" => status = "FINISHED"
      PROVE  FinishedIsComplete'
  <2> SUFFICES ASSUME status = "FINISHED" PROVE Complete'
    BY <1>3 DEF FinishedIsComplete
  <2>1. Complete
    BY DEF EndInv, FinishedIsComplete
  <2>2. members' = members /\ tasks' = tasks
    BY <1>1
  <2> QED BY <1>1, <2>1, <2>2 DEF Complete
<1>4. ASSUME Stays,
             \A a \in Attempts : grading[a].finish =>
               attempt'[a].user = attempt[a].user /\ attempt'[a].task = attempt[a].task,
             status' = "FINISHED" => status = "FINISHED"
      PROVE  EndInv'
  <2>1. ASSUME NEW a \in Attempts, grading'[a].finish
        PROVE  /\ grading'[a].pc = "counted" /\ status' # "WAITING"
               /\ \A u \in members', t \in tasks' : \E b \in Attempts : Answers(a, b, u, t)'
    <3>1. /\ grading[a].finish /\ grading[a].pc = "counted" /\ grading'[a].pc = "counted"
          /\ status # "WAITING" /\ Covered(a)
      BY <1>4, <2>1 DEF EndInv
    <3> QED BY <1>1, <1>2, <1>4, <3>1
  <2> QED BY <1>3, <1>4, <2>1 DEF EndInv
<1>5. CASE UNCHANGED vars
  BY <1>4, <1>5 DEF vars
<1>6. ASSUME NEW u \in Players,
             JoinRoom(u) \/ WriteReady(u) \/ \E flag \in BOOLEAN : ReadReady(u, flag)
      PROVE  EndInv'
  BY <1>4, <1>6 DEF JoinRoom, WriteReady, ReadReady
<1>7. ASSUME CommitStart \/ \E chosen \in (SUBSET Tasks) \ {{}} : BeginStart(chosen)
      PROVE  EndInv'
  BY <1>4, <1>7 DEF CommitStart, BeginStart
<1>8. ASSUME NEW a \in Attempts,
             InsertAnswer(a) \/ JudgeFailed(a)
               \/ \E u \in Players, t \in Tasks : CheckAnswer(a, u, t)
      PROVE  EndInv'
  <2>1. grading[a].pc = "idle" /\ grading' = grading /\ status' = status
    BY <1>8 DEF InsertAnswer, JudgeFailed, CanGrade, CheckAnswer, TypeInv, TypeOK
  <2>2. ~grading[a].finish
    BY <2>1 DEF EndInv
  <2>3. \A b \in Attempts \ {a} : attempt'[b] = attempt[b]
    BY <1>8 DEF InsertAnswer, JudgeFailed, CheckAnswer, TypeInv, TypeOK
  <2> QED BY <1>4, <2>1, <2>2, <2>3
<1>9. ASSUME NEW a \in Attempts, Rollback(a) \/ \E correct \in BOOLEAN : Judge(a, correct)
      PROVE  EndInv'
  <2>1. attempt' = attempt /\ status' = status
    BY <1>9 DEF Rollback, Judge
  <2>2. Stays
    BY <1>9 DEF Rollback, Judge, NotGrading, TypeInv, TypeOK
  <2> QED BY <1>4, <2>1, <2>2
<1>10. ASSUME NEW a \in Attempts, CountAnswers(a)
       PROVE  EndInv'
  <2>1. attempt' = attempt /\ status' = status /\ members' = members /\ tasks' = tasks
    BY <1>10 DEF CountAnswers
  <2>2. \A b \in Attempts \ {a} : grading'[b] = grading[b]
    BY <1>10 DEF CountAnswers, TypeInv, TypeOK
  <2>3. grading'[a].pc = "counted"
    BY <1>10 DEF CountAnswers, TypeInv, TypeOK, GradingType
  <2>4. grading'[a].finish => status = "RUNNING" /\ Covered(a)
    <3> SUFFICES ASSUME grading'[a].finish PROVE status = "RUNNING" /\ Covered(a)
      OBVIOUS
    <3>1. /\ status = "RUNNING"
          /\ Cardinality(Submitted(a)) >= Cardinality(members) * Cardinality(tasks)
      BY <1>10 DEF CountAnswers, TypeInv, TypeOK, GradingType
    <3>2. attempt[a].state = "PENDING"
      BY <1>10 DEF CountAnswers, TypeInv, TypeOK
    <3> QED BY <3>1, <3>2, CountedIsCovered
  <2>5. \A b \in Attempts : grading'[b].finish =>
          /\ grading'[b].pc = "counted" /\ status' # "WAITING"
          /\ \A u \in members', t \in tasks' : \E c \in Attempts : Answers(b, c, u, t)'
    BY <2>1, <2>2, <2>3, <2>4 DEF EndInv, Answers
  <2> QED BY <1>3, <2>1, <2>5 DEF EndInv
<1>11. ASSUME NEW a \in Attempts, CommitGrade(a)
       PROVE  EndInv'
  <2>1. /\ attempt'[a].state = "COMPLETED"
        /\ attempt'[a].user = attempt[a].user /\ attempt'[a].task = attempt[a].task
        /\ \A b \in Attempts \ {a} : attempt'[b] = attempt[b] /\ grading'[b] = grading[b]
        /\ ~grading'[a].finish
    <3>1. attempt[a].state = "PENDING"
      BY <1>11 DEF CommitGrade, TypeInv, TypeOK
    <3>2. attempt[a] \in AttemptType
      BY <3>1, AttemptThere
    <3> QED BY <1>11, <3>2 DEF CommitGrade, NotGrading, AttemptType, TypeInv, TypeOK
  <2>2. CASE ~grading[a].finish
    <3>1. status' = status
      BY <1>11, <2>2 DEF CommitGrade
    <3> QED BY <1>4, <2>1, <2>2, <3>1
  <2>3. CASE grading[a].finish
    <3>1. status # "WAITING" /\ Covered(a) /\ status' = "FINISHED"
      BY <1>11, <2>3 DEF EndInv, CommitGrade
    <3>2. \A u \in members', t \in tasks' : \E b \in Attempts : Answers(a, b, u, t)'
      BY <1>2, <2>1, <3>1
    <3>3. Complete'
      BY <2>1, <3>2 DEF Complete, Answers
    <3>4. ASSUME NEW b \in Attempts, grading'[b].finish
          PROVE  /\ grading'[b].pc = "counted"
                 /\ \A u \in members', t \in tasks' : \E c \in Attempts : Answers(b, c, u, t)'
      <4>1. grading'[b] = grading[b] /\ b # a /\ attempt'[b] = attempt[b]
        BY <2>1, <3>4
      <4>2. Covered(b) /\ grading[b].pc = "counted"
        BY <3>4, <4>1 DEF EndInv
      <4> QED BY <1>2, <3>1, <4>1, <4>2
    <3> QED BY <3>1, <3>3, <3>4 DEF EndInv, FinishedIsComplete
  <2> QED BY <2>2, <2>3
<1> QED BY <1>5, <1>6, <1>7, <1>8, <1>9, <1>10, <1>11 DEF Next

\* A battle that has ended has a graded answer of every member to every task.
THEOREM FinishedBattlesAreComplete == Spec => []FinishedIsComplete
<1>1. Spec => [](TypeInv /\ EndInv)
  BY TypeInit, TypeNext, EndInit, EndNext, PTL DEF Spec
<1> QED BY <1>1, PTL DEF EndInv
=============================================================================
