---------------------------- MODULE MCExecutions ----------------------------
(* Instances of Executions for TLC.                                        *)
EXTENDS Executions, TLC

CONSTANTS u1, u2, h1, h2, r1, r2, ink, forest, sofa, snack

MCPrice == [i \in Items |-> IF i = forest THEN 2 ELSE 1]
\* One reward for one coin, or two rewards for two.
MCDrawCost == <<1, 2>>
MCStartQuantity == [i \in Items |-> IF i = snack THEN 1 ELSE 0]

Buy(i) == [op |-> "buy", item |-> i, n |-> 1]
Use(i, c) == [op |-> "use", item |-> i, cat |-> c]
Draw(n) == [op |-> "draw", n |-> n]

AllCommands == {Buy(forest), Buy(snack), Use(snack, ink), Draw(1), Draw(2)}

Symmetry == Permutations(Handlers) \cup Permutations(Requests) \cup Permutations(Users)
=============================================================================
