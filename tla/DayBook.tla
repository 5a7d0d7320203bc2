------------------------------ MODULE DayBook ------------------------------
(***************************************************************************)
(* What the attendances of a player promise: every day has one page, which *)
(* is opened with tasks and paid later, or paid outright by the attendance *)
(* command, and coins come with the payment only.                          *)
(***************************************************************************)
EXTENDS Integers, FiniteSets

CONSTANTS Days

VARIABLES page, payments

bookVars == <<page, payments>>

BookInit ==
  /\ page = [d \in Days |-> "blank"]
  /\ payments = 0

Open(d) ==
  /\ page[d] = "blank"
  /\ page' = [page EXCEPT ![d] = "open"]
  /\ UNCHANGED payments

Pay(d) ==
  /\ page[d] # "paid"
  /\ page' = [page EXCEPT ![d] = "paid"]
  /\ payments' = payments + 1

BookNext == \E d \in Days : Open(d) \/ Pay(d)

BookSpec == BookInit /\ [][BookNext]_bookVars
=============================================================================
