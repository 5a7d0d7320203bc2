--------------------------- MODULE MCPlayerMixed ---------------------------
(* One instance each of PlayerRow and BrowserSessions (a browser with a      *)
(* cookie of the host system, or one without) for TLC.  They share no state, *)
(* so a behaviour takes place in one of the parts.                           *)
EXTENDS MCPlayerRow, BrowserSessions

VARIABLE part

MixedInit ==
  /\ Init /\ SessionsInit /\ part \in {"row"} \cup Browsers
  /\ part # "row" => \A k \in Keys : row.settings[k] = 0
MixedNext ==
  \/ part = "row" /\ Next /\ UNCHANGED <<sessionVars, part>>
  \/ /\ part \in Browsers /\ SessionsNext
     /\ \A c \in Calls : call'[c].browser \in {part, NoCookie}
     /\ UNCHANGED <<vars, part>>
MixedSpec == MixedInit /\ [][MixedNext]_<<vars, sessionVars, part>>
=============================================================================
