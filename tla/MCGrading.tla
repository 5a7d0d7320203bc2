----------------------------- MODULE MCGrading -----------------------------
(* Instances of Grading for TLC.                                           *)
EXTENDS Grading, TLC

CONSTANTS r1, r2, u1, t1, w1, w2, h1, h2

MCReward == [t \in Tasks |-> 3]

Submission(u, c, o) == [user |-> u, task |-> t1, context |-> c, option |-> o]

\* An option graded inline and a daily task, which a reset takes back.
MixedPayloads == {Submission(u1, "LEARNING", "right"), Submission(u1, "DAILY", "none")}
DailyPayloads == {Submission(u1, "DAILY", "none")}
OptionPayloads == {Submission(u1, "LEARNING", "right")}

Symmetry == Permutations(Workers) \cup Permutations(Requests) \cup Permutations(Handlers)
=============================================================================
