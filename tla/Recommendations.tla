--------------------------- MODULE Recommendations ---------------------------
(***************************************************************************)
(* What learning/proficiency.py computes from a history of attempts: the   *)
(* level of a concept, the weak concepts, and the page of recommended      *)
(* tasks.  A history is a sequence of attempts, oldest first.  Hashes are  *)
(* abstracted to the orders they induce.  Operators named Faulty... are    *)
(* plausible bugs, used by no specification.                               *)
(***************************************************************************)
EXTENDS Integers, SequencesExt

CONSTANTS
  Tasks, ConceptOf, DifficultyOf,  \* rows of tasks; ids and concept ids are numbers
  ProblemOf,                       \* _task_problem_key: variants of one story share it
  TaskRank,                        \* _user_random_rank of the learner
  ConceptRank,                     \* _daily_random_rank, by day and concept
  Shift,                           \* user_id + concept_id
  PageSize, RecentTasks,           \* limit, and the 20 of recent_ids
  RecentAnswers, MinAnswers, WeakMax

Concepts == {ConceptOf[t] : t \in Tasks}
Difficulties == <<"BRONZE", "SILVER", "GOLD">>

ASSUME RecommendationsAssumption ==
  /\ Tasks \subseteq Nat /\ Concepts \subseteq Nat
  /\ DifficultyOf \in [Tasks -> Range(Difficulties)]
  /\ {PageSize, RecentTasks, RecentAnswers, MinAnswers} \subseteq Nat \ {0}
  /\ \A t \in Tasks : TaskRank[t] \in Nat /\ Shift[ConceptOf[t]] \in Nat
  /\ \A t, u \in Tasks :  \* no ties in a group
       ConceptOf[t] = ConceptOf[u] /\ DifficultyOf[t] = DifficultyOf[u] /\ TaskRank[t] = TaskRank[u] => t = u
  /\ \A day \in DOMAIN ConceptRank, c, d \in Concepts :
       ConceptRank[day][c] \in Nat /\ (ConceptRank[day][c] = ConceptRank[day][d] => c = d)
  /\ \A t, u \in Tasks : ProblemOf[t] = ProblemOf[u] =>
       ConceptOf[t] = ConceptOf[u] /\ DifficultyOf[t] = DifficultyOf[u]

\* S in a strict order: before[x] are the elements that come before x.  (The
\* library sorts with SortSeq of TLC, which the provers cannot unfold.)
Sorted(S, before) ==
  [n \in 1 .. Cardinality(S) |-> CHOOSE x \in S : Cardinality(before[x]) = n - 1]

LastOf(s, n) == SubSeq(s, IF Len(s) > n THEN Len(s) - n + 1 ELSE 1, Len(s))

-----------------------------------------------------------------------------
(* Weakness                                                                *)

\* round(): to the nearest, a half to the even neighbour.
Rounded(n, d) ==
  LET q == n \div d
      twice == 2 * (n % d)
  IN  IF twice > d \/ (twice = d /\ q % 2 = 1) THEN q + 1 ELSE q

Decided(a) == a.verdict \in {"right", "wrong"}
\* Where the history answers tasks of a concept, and the last of these places.
AnswersTo(c, history) ==
  {i \in DOMAIN history : Decided(history[i]) /\ ConceptOf[history[i].task] = c}
RecentAnswersTo(c, history) ==
  {i \in AnswersTo(c, history) :
     Cardinality({j \in AnswersTo(c, history) : j > i}) < RecentAnswers}

LevelOf(c, history) ==
  LET answers == RecentAnswersTo(c, history)
      right == {i \in answers : history[i].verdict = "right"}
  IN  IF answers = {} THEN 0 ELSE Rounded(100 * Cardinality(right), Cardinality(answers))

IsWeak(c, history) ==
  /\ Cardinality(RecentAnswersTo(c, history)) >= MinAnswers
  /\ LevelOf(c, history) <= WeakMax

\* Weakest first; the sort is stable, so equal levels stay in id order.
WeakConcepts(history) ==
  LET weak == {c \in Concepts : IsWeak(c, history)}
      level == [c \in weak |-> LevelOf(c, history)]
  IN  Sorted(weak, [c \in weak |->
        {d \in weak : level[d] < level[c] \/ (level[d] = level[c] /\ d < c)}])

-----------------------------------------------------------------------------
(* One list of candidates: _diversify_daily_tasks                          *)

\* The first of each problem.
OncePerProblem(s) ==
  LET first == {i \in DOMAIN s : \A j \in 1 .. i - 1 : ProblemOf[s[j]] # ProblemOf[s[i]]}
      places == Sorted(first, [i \in first |-> {j \in first : j < i}])
  IN  [n \in DOMAIN places |-> s[places[n]]]

\* _rotated_task_positions: each day another task of a group comes first.
Rotated(s, day, c) ==
  LET k == (day + Shift[c]) % Len(s) IN SubSeq(s, k + 1, Len(s)) \o SubSeq(s, 1, k)
Group(rows, c, difficulty, day) ==
  LET tasks == {t \in rows : ConceptOf[t] = c /\ DifficultyOf[t] = difficulty}
  IN  IF tasks = {} THEN <<>>
      ELSE Rotated(Sorted(tasks, [t \in tasks |-> {u \in tasks : TaskRank[u] < TaskRank[t]}]), day, c)
Queue(rows, c, day) ==
  OncePerProblem(FlattenSeq([i \in 1 .. 3 |-> Group(rows, c, Difficulties[i], day)]))

\* Weak concepts in their order, then the others in the order of the day.
ConceptBefore(c, d, weak, day) ==
  LET place(e) == IF e \in Range(weak) THEN CHOOSE i \in DOMAIN weak : weak[i] = e ELSE 999
  IN  \/ place(c) < place(d)
      \/ place(c) = place(d) /\ ConceptRank[day][c] < ConceptRank[day][d]

\* Concept by concept, one task of each a round.
Diversified(rows, weak, day) ==
  LET queue == [c \in Concepts |-> Queue(rows, c, day)]
      turns == UNION {{[round |-> i, task |-> queue[c][i]] : i \in DOMAIN queue[c]} : c \in Concepts}
      before(x, y) == \/ x.round < y.round
                      \/ /\ x.round = y.round
                         /\ ConceptBefore(ConceptOf[x.task], ConceptOf[y.task], weak, day)
      sorted == Sorted(turns, [y \in turns |-> {x \in turns : before(x, y)}])
  IN  [i \in DOMAIN sorted |-> sorted[i].task]

-----------------------------------------------------------------------------
(* The page: recommended_tasks                                             *)

Eligible(active, allowed) == {t \in active : DifficultyOf[t] \in allowed}
Recent(history) == {a.task : a \in Range(LastOf(history, RecentTasks))}

\* The four lists, each wider than the one before it in what it lets in; a
\* page is their first PageSize problems.
FaultyCandidates(rows, recent, weak) ==
  <<{t \in rows \ recent : ConceptOf[t] \in weak}, rows \ recent, {}, {}>>  \* no fallback
Candidates(rows, recent, weak) ==
  <<{t \in rows \ recent : ConceptOf[t] \in weak}, rows \ recent,
    {t \in rows : ConceptOf[t] \in weak}, rows>>

Page(history, active, allowed, day) ==
  LET weak == WeakConcepts(history)
      lists == Candidates(Eligible(active, allowed), Recent(history), Range(weak))
      all == OncePerProblem(FlattenSeq([i \in 1 .. 4 |-> Diversified(lists[i], weak, day)]))
  IN  SubSeq(all, 1, IF Len(all) < PageSize THEN Len(all) ELSE PageSize)

-----------------------------------------------------------------------------
(* What a page promises                                                    *)

Problems(tasks) == {ProblemOf[t] : t \in tasks}

\* As many tasks as asked for when there are that many problems, all of them
\* otherwise, and no problem twice.
Filled(page, rows) ==
  /\ Range(page) \subseteq rows
  /\ Cardinality(Problems(Range(page))) = Len(page)
  /\ Len(page) = Min({PageSize, Cardinality(Problems(rows))})

\* 1: new and weak, 2: new, 3: weak, 4: neither.
Class(t, recent, weak) ==
  IF t \in recent THEN (IF ConceptOf[t] \in weak THEN 3 ELSE 4)
  ELSE IF ConceptOf[t] \in weak THEN 1 ELSE 2

\* Nothing stands before something better, nor keeps it off the page; and among
\* new tasks no concept gives two while another one with tasks left gives none.
Ordered(page, rows, recent, weak) ==
  LET class(t) == Class(t, recent, weak)
      waiting == {t \in rows : ProblemOf[t] \notin Problems(Range(page))}
      taken(c, k) == Cardinality({i \in DOMAIN page : ConceptOf[page[i]] = c /\ class(page[i]) = k})
  IN  /\ \A i, j \in DOMAIN page : i < j => class(page[i]) <= class(page[j])
      /\ \A i \in DOMAIN page, t \in waiting : class(page[i]) <= class(t)
      /\ \A i, j \in DOMAIN page :
           i < j /\ class(page[i]) = class(page[j]) /\ class(page[i]) <= 2 /\ ConceptOf[page[i]] = ConceptOf[page[j]] =>
             \A t \in waiting : class(t) = class(page[i]) =>
               taken(ConceptOf[t], class(t)) >= 1
=============================================================================
