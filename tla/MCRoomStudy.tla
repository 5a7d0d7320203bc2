---------------------------- MODULE MCRoomStudy ----------------------------
(* One instance each of Housing and LearningProgress for TLC.  They share  *)
(* no state, so a behaviour takes place in one of the two parts.           *)
EXTENDS Housing, LearningProgress

CONSTANTS p1, t1, f1, r1, r2, sofa, plant, paper, cat

\* A room of two cells by two.
MCWidth == (sofa :> 2) @@ (plant :> 1)
MCHeight == (sofa :> 1) @@ (plant :> 1)
At(x, y, turn) == [x |-> x, y |-> y, turn |-> turn]
MCPlaces == {At(0, 0, 0), At(1, 0, 1), At(1, 1, 0)}
MCStarterRow == t1 :> [item |-> sofa, at |-> At(0, 0, 0)]
MCStarterQuantity == (sofa :> 1) @@ (cat :> 1)
Symmetry == Permutations(Readers)

\* Four tasks of two concepts; two of them are variants of one problem.
MCTasks == 1 .. 4
MCConceptOf == <<1, 2, 1, 2>>
MCDifficultyOf == <<"BRONZE", "BRONZE", "SILVER", "BRONZE">>
MCProblemOf == <<1, 2, 3, 2>>
MCTaskRank == <<1, 2, 3, 1>>
MCConceptRank == <<<<1, 2>>, <<2, 1>>>>
MCShift == <<0, 1>>
MCRequired == [BRONZE |-> 1, SILVER |-> 1]
MCPercent == [BRONZE |-> 50, SILVER |-> 60]

VARIABLE part

Init == HousingInit /\ LearningInit /\ part \in {"room", "study"}
Next ==
  \/ part = "room" /\ HousingNext /\ UNCHANGED <<learningVars, part>>
  \/ part = "study" /\ LearningNext /\ UNCHANGED <<housingVars, part>>
Spec == Init /\ [][Next]_<<housingVars, learningVars, part>>
=============================================================================
