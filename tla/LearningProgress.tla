-------------------------- MODULE LearningProgress --------------------------
(*****************************************************************************)
(* A learner's way through the tasks of one domain: the tier                 *)
(* (learning/tier.py), the active presentation of a task                     *)
(* (learning/presentation.py), the stored level of a concept, submissions    *)
(* and the reset, with the pages of Recommendations read off the same        *)
(* history.                                                                  *)
(*                                                                           *)
(* Everything here takes the learner's row lock first, so it is one step.    *)
(* What is not in one step is an answer: it is submitted, and graded later   *)
(* by a worker, maybe after a reset or after the presentation it belongs to  *)
(* was closed.  The session has autoflush off: what the grading computes     *)
(* does not see the answer it is about, unless a tier row had to be          *)
(* inserted, which flushes.  An attempt that ends FAILED stays pending here. *)
(*****************************************************************************)
EXTENDS Recommendations, FiniteSets

CONSTANTS
  HasChoice,        \* tasks with options and a correct option
  Opened,           \* tasks the learner opens presentations of
  Retirable,        \* tasks the authors deactivate and activate
  Required,         \* PROMOTION_POLICY: right tasks, by tier
  Percent,          \* and the share of every concept
  MaxAttempts, MaxPresentations, LastDay,   \* bounds
  NoRow              \* no row

ASSUME LearningAssumption ==
  /\ HasChoice \subseteq Opened /\ Opened \subseteq Tasks /\ Retirable \subseteq Tasks
  /\ Required \in [{"BRONZE", "SILVER"} -> Nat] /\ Percent \in [{"BRONZE", "SILVER"} -> 0 .. 100]
  /\ IsFiniteSet(Tasks) /\ {MaxAttempts, MaxPresentations, LastDay} \subseteq Nat \ {0}
  /\ NoRow \notin Range(Difficulties) \cup {"CODE", "MULTIPLE_CHOICE"}
  /\ 1 .. LastDay \subseteq DOMAIN ConceptRank

VARIABLES
  attempts,   \* task_attempts, by attempted_at
  since,      \* attempts before learning_reset_at
  tier,       \* user_learning_tiers.current_tier
  level,      \* user_proficiency.proficiency_level by concept
  shown,      \* presentations by task: type of the active one, how many there were
  active,     \* tasks.is_active
  day         \* game_today()

learningVars == <<attempts, since, tier, level, shown, active, day>>

NothingShown == [type |-> NoRow, n |-> 0]

LearningInit ==
  /\ attempts = <<>>
  /\ since = 0
  /\ tier = NoRow
  /\ level = [c \in Concepts |-> NoRow]
  /\ shown = [t \in Opened |-> NothingShown]
  /\ active = Tasks
  /\ day = 1

-----------------------------------------------------------------------------
(* Tiers                                                                     *)

\* What counts: the history since the reset.
SinceReset(history) == SubSeq(history, since + 1, Len(history))

Solved(history) == {a.task : a \in {b \in Range(SinceReset(history)) : b.verdict = "right"}}
Share(c, d, tasks) == Cardinality({t \in tasks : ConceptOf[t] = c /\ DifficultyOf[t] = d})

\* tier_progress: enough right tasks, and the share of every concept,
\* rounded up, of the tasks active now.
Met(d, history) ==
  LET done == Solved(history) \cap active IN
  /\ Cardinality({t \in done : DifficultyOf[t] = d}) >= Required[d]
  /\ \A c \in Concepts : 100 * Share(c, d, done) >= Percent[d] * Share(c, d, active)

\* The loop of get_or_advance_tier.
Promoted(current, history) ==
  LET above(t) == IF t = "SILVER" /\ Met("SILVER", history) THEN "GOLD" ELSE t
  IN  IF current = "BRONZE" /\ Met("BRONZE", history) THEN above("SILVER") ELSE above(current)

\* A row that is there is returned as it is.
FaultyAdvanced(history) == IF tier = NoRow THEN Promoted("BRONZE", history) ELSE tier
\* get_or_advance_tier: a missing row is inserted first.
Advanced(history) == Promoted(IF tier = NoRow THEN "BRONZE" ELSE tier, history)
Unlocked(t) == {Difficulties[i] : i \in 1 .. (CHOOSE k \in 1 .. 3 : Difficulties[k] = t)}
IsUnlocked(t) == DifficultyOf[t] \in Unlocked(Advanced(attempts))

\* GET /learning/tier, /tasks, /recommendations and /proficiencies.
ReadTier ==
  /\ tier' = Advanced(attempts)
  /\ UNCHANGED <<attempts, since, level, shown, active, day>>

-----------------------------------------------------------------------------
(* Presentations                                                             *)

\* choose_presentation_type: chance or the learner's preference.
Types(t) == {"CODE"} \cup (IF t \in HasChoice THEN {"MULTIPLE_CHOICE"} ELSE {})

\* start_task_presentation.  An active one is returned as it is, and then the
\* tier is not committed either.
Start(t) ==
  /\ t \in active /\ IsUnlocked(t)
  /\ shown[t].type = NoRow /\ shown[t].n < MaxPresentations
  /\ \E type \in Types(t) : shown' = [shown EXCEPT ![t] = [type |-> type, n |-> @.n + 1]]
  /\ tier' = Advanced(attempts)
  /\ UNCHANGED <<attempts, since, level, active, day>>

\* run_code_test, which reads the tier as it is stored, and asks for a
\* presentation of a task that has options.
CanTry(t) ==
  /\ t \in active
  /\ DifficultyOf[t] \in Unlocked(IF tier = NoRow THEN "BRONZE" ELSE tier)
  /\ t \in HasChoice => t \in Opened /\ shown[t].n > 0

-----------------------------------------------------------------------------
(* Answers                                                                   *)

\* create_attempt: a task with options needs its active presentation.
Submit(t) ==
  LET pres == IF t \in Opened /\ shown[t].type # NoRow THEN shown[t].n ELSE 0 IN
  /\ Len(attempts) < MaxAttempts
  /\ t \in active /\ IsUnlocked(t)
  /\ t \in HasChoice => pres # 0
  /\ attempts' = Append(attempts, [task |-> t, verdict |-> "pending", pres |-> pres])
  /\ tier' = Advanced(attempts)
  /\ UNCHANGED <<since, level, shown, active, day>>

\* The presentation of the task, whichever is active.
FaultyClosed(a) == [shown EXCEPT ![a.task].type = NoRow]
\* The presentation the answer was given on.
Closed(a) == IF a.pres = shown[a.task].n THEN [shown EXCEPT ![a.task].type = NoRow] ELSE shown

\* _persist_result: what is computed sees the attempts as they were, or as
\* they are when inserting the tier flushed the session.
GradeAnswer(i, verdict) ==
  LET a == attempts[i]
      graded == [attempts EXCEPT ![i].verdict = verdict]
  IN  /\ a.verdict = "pending"
      /\ attempts' = graded
      /\ level' = IF i > since
                  THEN [level EXCEPT ![ConceptOf[a.task]] =
                          LevelOf(ConceptOf[a.task], SinceReset(attempts))]
                  ELSE level
      /\ tier' = IF i > since /\ verdict = "right"
                 THEN Advanced(IF tier = NoRow THEN graded ELSE attempts) ELSE tier
      /\ shown' = IF verdict = "right" /\ a.pres # 0 THEN Closed(a) ELSE shown
      /\ UNCHANGED <<since, active, day>>

\* A reset that forgets the tiers.
FaultyReset ==
  /\ since' = Len(attempts)
  /\ level' = [c \in Concepts |-> NoRow]
  /\ UNCHANGED <<attempts, tier, shown, active, day>>
\* reset_learning_progress; presentations stay.
Reset ==
  /\ since' = Len(attempts)
  /\ level' = [c \in Concepts |-> NoRow]
  /\ tier' = NoRow
  /\ UNCHANGED <<attempts, shown, active, day>>

-----------------------------------------------------------------------------
(* The catalogue and the calendar                                            *)

\* deactivate_task, and update_task with is_active.
Deactivate(t) ==
  /\ active' = active \ {t}
  /\ UNCHANGED <<attempts, since, tier, level, shown, day>>
Activate(t) ==
  /\ active' = active \cup {t}
  /\ UNCHANGED <<attempts, since, tier, level, shown, day>>

Tomorrow ==
  /\ day < LastDay
  /\ day' = day + 1
  /\ UNCHANGED <<attempts, since, tier, level, shown, active>>

LearningNext ==
  \/ ReadTier \/ Reset \/ Tomorrow
  \/ \E t \in Opened : Start(t)
  \/ \E t \in Tasks : Submit(t)
  \/ \E i \in DOMAIN attempts, verdict \in {"right", "wrong"} : GradeAnswer(i, verdict)
  \/ \E t \in Retirable : Deactivate(t) \/ Activate(t)

LearningSpec == LearningInit /\ [][LearningNext]_learningVars

-----------------------------------------------------------------------------
(* Properties                                                                *)

AttemptType == [task : Tasks, verdict : {"pending", "right", "wrong"}, pres : 0 .. MaxPresentations]

\* Every variable has its type, and an attempt was made on a presentation
\* that existed.
LearningTypeOK ==
  /\ attempts \in Seq(AttemptType)
  /\ since \in 0 .. Len(attempts)
  /\ tier \in Range(Difficulties) \cup {NoRow}
  /\ level \in [Concepts -> 0 .. 100 \cup {NoRow}]
  /\ shown \in [Opened -> [type : {NoRow, "CODE", "MULTIPLE_CHOICE"}, n : 0 .. MaxPresentations]]
  /\ active \in SUBSET Tasks
  /\ day \in 1 .. LastDay
  /\ \A i \in DOMAIN attempts : attempts[i].pres # 0 =>
       attempts[i].task \in Opened /\ attempts[i].pres <= shown[attempts[i].task].n

SolvedIn(d) == {t \in Solved(attempts) : DifficultyOf[t] = d}

\* What is stored of a learner stands on answers given since the reset,
\* whatever was graded late and whichever tasks came and went: the tier on tasks
\* solved (learning/tier.py:102), the level of a concept on all its answers but
\* the last one graded, which the session had not flushed
\* (learning/proficiency.py:95).
StandingIsEarned ==
  /\ tier \in {"SILVER", "GOLD"} => Cardinality(SolvedIn("BRONZE")) >= Required["BRONZE"]
  /\ tier = "GOLD" => Cardinality(SolvedIn("SILVER")) >= Required["SILVER"]
  /\ \A c \in Concepts : level[c] # NoRow =>
       \E i \in since + 1 .. Len(attempts) :
         /\ ConceptOf[attempts[i].task] = c /\ Decided(attempts[i])
         /\ level[c] = LevelOf(c, SinceReset([attempts EXCEPT ![i].verdict = "pending"]))

\* A promotion that a grading could not see, or that a deactivated task
\* brought about, is caught up on with the next submission: no step up is left
\* that has been earned (learning/tier.py:102).
SubmittingCatchesUp ==
  [][Len(attempts') > Len(attempts) =>
       \A d \in {"BRONZE", "SILVER"} : tier' = d => ~Met(d, attempts)]_learningVars

\* A presentation keeps its type, and only a right answer given on it closes
\* it, not one to an earlier presentation that is graded late
\* (docs/api/README.md:208); and its code can be tried out as soon as the task is
\* opened, by the tier that opened it (grading/service.py:346).
PresentationsAreUsable ==
  [][\A t \in Opened :
       /\ shown'[t].n > shown[t].n => CanTry(t)'
       /\ shown[t].type # NoRow /\ shown'[t] # shown[t] =>
            /\ shown'[t] = [type |-> NoRow, n |-> shown[t].n]
            /\ \E i \in DOMAIN attempts :
                 /\ attempts[i].task = t /\ attempts[i].pres = shown[t].n
                 /\ attempts[i].verdict = "pending" /\ attempts'[i].verdict = "right"]_learningVars

CurrentPage ==
  Page(SinceReset(attempts), active, Unlocked(Advanced(attempts)), day)
CurrentRows == Eligible(active, Unlocked(Advanced(attempts)))

\* The page asked for is filled whenever there are problems enough
\* (docs/api/README.md:211), weak concepts and new tasks come first, and concepts
\* take turns (docs/features/part2-integration-contract.md:502).
PageIsDue ==
  /\ Filled(CurrentPage, CurrentRows)
  /\ Ordered(CurrentPage, CurrentRows, Recent(SinceReset(attempts)),
             Range(WeakConcepts(SinceReset(attempts))))
=============================================================================
