------------------------------- MODULE Battle -------------------------------
(****************************************************************************)
(* One battle room: joining, readiness, start, and the grading of battle    *)
(* answers up to the end (src/app/modules/battle/service.py, and the battle *)
(* branches of grading/service.py).                                         *)
(*                                                                          *)
(* Joining and starting lock the room; setting readiness and finishing the  *)
(* room do not.  Transactions run READ COMMITTED, so a step that reads in   *)
(* one statement and writes in a later one is two actions here.  Gradings   *)
(* of one user exclude each other (_persist_result locks the user), those   *)
(* of two users overlap when two workers run.                               *)
(*                                                                          *)
(* Operators named Faulty... are plausible bugs, used by no specification.  *)
(****************************************************************************)
EXTENDS Integers, FiniteSets

CONSTANTS
  Players, Host,    \* users, and the one who created the room
  Tasks,            \* active tasks
  Attempts,         \* bound: battle answers the room can get
  MaxParticipants,  \* rooms.max_participants
  Score,            \* settings.battle_correct_score
  Workers,          \* how many gradings can run at once
  None              \* nothing in flight

ASSUME BattleAssumption ==
  /\ Host \in Players
  /\ IsFiniteSet(Players) /\ IsFiniteSet(Tasks) /\ IsFiniteSet(Attempts)
  /\ MaxParticipants \in Nat \ {0} /\ Score \in Nat /\ Workers \in Nat

VARIABLES
  status,    \* rooms.status
  members,   \* users with a row in room_participants
  ready,     \* room_participants.is_ready
  score,     \* room_participants.current_score
  tasks,     \* room_tasks
  starting,  \* tasks of a start that holds the room lock
  readying,  \* what each member's set_ready has read and wants to write
  attempt,   \* task_attempts of the room
  grading    \* gradings in their final transaction

vars == <<status, members, ready, score, tasks, starting, readying, attempt, grading>>

NoAttempt == [state |-> "none", user |-> None, task |-> None, correct |-> FALSE]
NotGrading == [pc |-> "idle", correct |-> FALSE, gain |-> 0, finish |-> FALSE]

\* create_room: the host joins at once, ready.
Init ==
  /\ status = "WAITING"
  /\ members = {Host}
  /\ ready = [u \in Players |-> u = Host]
  /\ score = [u \in Players |-> 0]
  /\ tasks = {}
  /\ starting = None
  /\ readying = [u \in Players |-> None]
  /\ attempt = [a \in Attempts |-> NoAttempt]
  /\ grading = [a \in Attempts |-> NotGrading]

-----------------------------------------------------------------------------
(* Before the battle                                                        *)

HasSeat == Cardinality(members) < MaxParticipants

JoinRoom(u) ==
  /\ starting = None
  /\ status = "WAITING"
  /\ u \notin members
  /\ HasSeat
  /\ members' = members \cup {u}
  /\ UNCHANGED <<status, ready, score, tasks, starting, readying, attempt, grading>>

\* set_ready checks the room and its own row without a lock ...
ReadReady(u, flag) ==
  /\ readying[u] = None
  /\ status = "WAITING"
  /\ u \in members
  /\ readying' = [readying EXCEPT ![u] = [old |-> ready[u], new |-> flag]]
  /\ UNCHANGED <<status, members, ready, score, tasks, starting, attempt, grading>>

\* ... and writes the flag if it differs from the one it read.
WriteReady(u) ==
  /\ readying[u] # None
  /\ ready' = [ready EXCEPT ![u] = IF readying[u].new # readying[u].old
                                   THEN readying[u].new ELSE @]
  /\ readying' = [readying EXCEPT ![u] = None]
  /\ UNCHANGED <<status, members, score, tasks, starting, attempt, grading>>

\* start_room, up to its last check; only the room is locked.
BeginStart(chosen) ==
  /\ starting = None
  /\ status = "WAITING"
  /\ Cardinality(members) >= 2
  /\ \A u \in members : ready[u]
  /\ starting' = chosen
  /\ UNCHANGED <<status, members, ready, score, tasks, readying, attempt, grading>>

CommitStart ==
  /\ starting # None
  /\ tasks' = starting
  /\ status' = "RUNNING"
  /\ starting' = None
  /\ UNCHANGED <<members, ready, score, readying, attempt, grading>>

-----------------------------------------------------------------------------
(* Answers                                                                  *)

\* No grading of this user is in its final transaction.
FaultyUserFree(u) == TRUE
UserFree(u) == \A a \in Attempts : grading[a].pc # "idle" => attempt[a].user # u

\* create_attempt sees the room running ...
CheckAnswer(a, u, t) ==
  /\ attempt[a].state = "none"
  /\ status = "RUNNING"
  /\ u \in members /\ t \in tasks
  /\ attempt' = [attempt EXCEPT ![a] =
                   [state |-> "checked", user |-> u, task |-> t, correct |-> FALSE]]
  /\ UNCHANGED <<status, members, ready, score, tasks, starting, readying, grading>>

\* ... and inserts the attempt under the user lock, whatever the room is by then.
InsertAnswer(a) ==
  /\ attempt[a].state = "checked"
  /\ UserFree(attempt[a].user)
  /\ attempt' = [attempt EXCEPT ![a].state = "PENDING"]
  /\ UNCHANGED <<status, members, ready, score, tasks, starting, readying, grading>>

SameAnswer(a, b) == attempt[a].user = attempt[b].user /\ attempt[a].task = attempt[b].task

PreviousCorrect(a) ==
  \E b \in Attempts \ {a} : SameAnswer(a, b) /\ attempt[b].state = "COMPLETED" /\ attempt[b].correct

\* A worker enters _persist_result: it locks the attempt and the user, and
\* looks for an earlier correct answer.
CanGrade(a) ==
  /\ attempt[a].state = "PENDING"
  /\ grading[a].pc = "idle"
  /\ UserFree(attempt[a].user)
  /\ Cardinality({b \in Attempts : grading[b].pc # "idle"}) < Workers

Judge(a, correct) ==
  /\ CanGrade(a)
  /\ grading' = [grading EXCEPT ![a] =
       [pc |-> "judged", correct |-> correct, finish |-> FALSE,
        gain |-> IF correct /\ ~PreviousCorrect(a) THEN Score ELSE 0]]
  /\ UNCHANGED <<status, members, ready, score, tasks, starting, readying, attempt>>

\* The runner failed: the attempt leaves no trace in the battle.
JudgeFailed(a) ==
  /\ CanGrade(a)
  /\ attempt' = [attempt EXCEPT ![a].state = "FAILED"]
  /\ UNCHANGED <<status, members, ready, score, tasks, starting, readying, grading>>

\* The count without DISTINCT.
FaultySubmitted(a) == {b \in Attempts : attempt[b].state = "COMPLETED" \/ b = a}

\* The answers finish_if_complete counts: committed ones, and its own.
Submitted(a) ==
  {<<attempt[b].user, attempt[b].task>> :
     b \in {c \in Attempts : attempt[c].state = "COMPLETED" \/ c = a}}

CountAnswers(a) ==
  /\ grading[a].pc = "judged"
  /\ grading' = [grading EXCEPT
       ![a].pc = "counted",
       ![a].finish = /\ status = "RUNNING"
                     /\ Cardinality(Submitted(a)) >= Cardinality(members) * Cardinality(tasks)]
  /\ UNCHANGED <<status, members, ready, score, tasks, starting, readying, attempt>>

CommitGrade(a) ==
  /\ grading[a].pc = "counted"
  /\ attempt' = [attempt EXCEPT ![a].state = "COMPLETED", ![a].correct = grading[a].correct]
  /\ score' = [score EXCEPT ![attempt[a].user] = @ + grading[a].gain]
  /\ status' = IF grading[a].finish THEN "FINISHED" ELSE status
  /\ grading' = [grading EXCEPT ![a] = NotGrading]
  /\ UNCHANGED <<members, ready, tasks, starting, readying>>

\* The worker dies or its transaction fails; the attempt is leased again.
Rollback(a) ==
  /\ grading[a].pc # "idle"
  /\ grading' = [grading EXCEPT ![a] = NotGrading]
  /\ UNCHANGED <<status, members, ready, score, tasks, starting, readying, attempt>>

-----------------------------------------------------------------------------
Next ==
  \/ \E u \in Players : JoinRoom(u) \/ WriteReady(u)
  \/ \E u \in Players, flag \in BOOLEAN : ReadReady(u, flag)
  \/ \E chosen \in (SUBSET Tasks) \ {{}} : BeginStart(chosen)
  \/ CommitStart
  \/ \E a \in Attempts, u \in Players, t \in Tasks : CheckAnswer(a, u, t)
  \/ \E a \in Attempts, correct \in BOOLEAN : Judge(a, correct)
  \/ \E a \in Attempts :
       InsertAnswer(a) \/ JudgeFailed(a) \/ CountAnswers(a) \/ CommitGrade(a) \/ Rollback(a)

Spec == Init /\ [][Next]_vars

-----------------------------------------------------------------------------
(* Type invariant                                                           *)

AttemptType ==
  [state : {"checked", "PENDING", "COMPLETED", "FAILED"}, user : members, task : tasks,
   correct : BOOLEAN]
GradingType ==
  [pc : {"idle", "judged", "counted"}, correct : BOOLEAN, gain : {0, Score}, finish : BOOLEAN]

\* Every variable has its type; the room has no more members than seats, and
\* answers are its members' answers to its tasks.
TypeOK ==
  /\ status \in {"WAITING", "RUNNING", "FINISHED"}
  /\ members \subseteq Players /\ Cardinality(members) <= MaxParticipants
  /\ ready \in [Players -> BOOLEAN]
  /\ score \in [Players -> Nat]
  /\ tasks \subseteq Tasks
  /\ starting \in (SUBSET Tasks) \cup {None}
  /\ readying \in [Players -> [old : BOOLEAN, new : BOOLEAN] \cup {None}]
  /\ attempt \in [Attempts -> AttemptType \cup {NoAttempt}]
  /\ grading \in [Attempts -> GradingType]
  /\ \A a \in Attempts : grading[a].pc # "idle" => attempt[a].state = "PENDING"

-----------------------------------------------------------------------------
(* Scores                                                                   *)

Solved(u) ==
  {t \in Tasks : \E a \in Attempts : /\ attempt[a].state = "COMPLETED" /\ attempt[a].correct
                                     /\ attempt[a].user = u /\ attempt[a].task = t}

\* A member's score is that of the tasks solved, each counted once, however
\* many right answers to it are graded, retried or overlap
\* (docs/features/part2-integration-contract.md:751).
ScoreCountsTasksOnce == \A u \in Players : score[u] = Score * Cardinality(Solved(u))

-----------------------------------------------------------------------------
(* The end of the battle                                                    *)

Complete ==
  \A u \in members, t \in tasks :
    \E a \in Attempts : attempt[a].state = "COMPLETED" /\ attempt[a].user = u /\ attempt[a].task = t

\* A battle ends only when every member has a graded answer to every task.
FinishedIsComplete == status = "FINISHED" => Complete

\* It does end then: a complete battle on which no grading is at work is
\* finished (docs/features/part2-integration-contract.md:753).
CompleteIsFinished ==
  status # "WAITING" /\ Complete /\ (\A a \in Attempts : grading[a].pc = "idle")
    => status = "FINISHED"
=============================================================================
