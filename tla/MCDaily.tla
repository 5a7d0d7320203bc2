------------------------------ MODULE MCDaily ------------------------------
(* Instance of DailyMission for TLC: two requests over three days.         *)
EXTENDS DailyMission

Spec == DailySpec /\ DailyFairness
=============================================================================
