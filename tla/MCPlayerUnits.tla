--------------------------- MODULE MCPlayerUnits ---------------------------
(* One instance each of PlayerRow (commands that lock, change and commit in *)
(* one step), Accounts and Sandbox for TLC.  They share no state, so a      *)
(* behaviour takes place in one of the three parts.                         *)
EXTENDS MCPlayerRow, Accounts, Sandbox

MCOwnEmail == [h \in Hosts |-> h]

VARIABLE part

UnitInit ==
  /\ Init /\ AccountsInit /\ SandboxInit
  /\ part \in {"row", "accounts", "sandbox"}
  /\ part # "row" => \A k \in Keys : row.settings[k] = 0
UnitNext ==
  \/ part = "row" /\ NextUnit /\ UNCHANGED <<accountVars, sandboxVars, part>>
  \/ part = "accounts" /\ AccountsNext /\ UNCHANGED <<vars, sandboxVars, part>>
  \/ part = "sandbox" /\ SandboxNext /\ UNCHANGED <<vars, accountVars, part>>
UnitSpec ==
  /\ UnitInit /\ [][UnitNext]_<<vars, accountVars, sandboxVars, part>>
  /\ AccountsFairness /\ SandboxFairness

\* Every registration, sign-in and grading that begins ends, whatever it waits
\* for: a bucket, an e-mail, a slot, a lock of the submission.
EveryRequestEnds == EveryAccountRequestEnds /\ EveryGradeEnds
=============================================================================
