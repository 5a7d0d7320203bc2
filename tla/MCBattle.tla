------------------------------ MODULE MCBattle ------------------------------
(* Instances of Battle for TLC.                                            *)
EXTENDS Battle, TLC

CONSTANTS p1, p2, p3, t1, a1, a2, a3

\* Answers are interchangeable, and so are the tasks.
Symmetry == Permutations(Attempts) \cup Permutations(Tasks)
=============================================================================
