----------------------------- MODULE MCRequests -----------------------------
(* One instance each of CatMemory and RateLimit for TLC.  They share no    *)
(* state, so a behaviour takes place in one of the two parts.              *)
EXTENDS CatMemory, RateLimit

MCSummaryOf == [k \in Remembered |-> k]
MCOld ==
  {[summary |-> "CODING", born |-> 1], [summary |-> "GOAL", born |-> 2],
   [summary |-> "CODING", born |-> 3], [summary |-> "COMPANION", born |-> 4]}

VARIABLE part

Init ==
  /\ CatInit /\ RateInit
  /\ part \in {"cat", "login"}
  /\ part # "cat" => memories = {}
Next ==
  \/ part = "cat" /\ CatNext /\ UNCHANGED <<rateVars, part>>
  \/ part = "login" /\ RateNext /\ UNCHANGED <<catVars, part>>
Spec == Init /\ [][Next]_<<catVars, rateVars, part>> /\ CatFairness /\ RateFairness

\* Every chat and login that begins ends, whatever the provider does and
\* whoever has the buckets.
EveryRequestEnds == EveryChatEnds /\ EveryLoginEnds
=============================================================================
