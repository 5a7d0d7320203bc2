---------------------------- MODULE MCPlayerRow ----------------------------
(* Instances of PlayerRow for TLC.                                         *)
EXTENDS PlayerRow, TLC

CONSTANTS s1, s2, c1, c2, k1, k2

MCDailyCoins == [k \in DailyKeys \cup {"bonus"} |-> IF k = "bonus" THEN 4 ELSE 2]
MCDeltas == {-1, 1}
NoDeltas == {}

Symmetry == Permutations(Sessions) \cup Permutations(Cats) \cup Permutations(Keys)
=============================================================================
