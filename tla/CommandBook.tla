----------------------------- MODULE CommandBook -----------------------------
(***************************************************************************)
(* What the commands of the economy promise, with no locks, transactions   *)
(* or retries.  There is one page for each request_id.  It is written at   *)
(* most once, in one step with what the command changes for its player and *)
(* with the first answer; from then on it can only be told again, to the   *)
(* player who asked, for the command asked for.                            *)
(***************************************************************************)
EXTENDS Integers

CONSTANTS
  Requests, Users, Commands, Items,
  Cost,           \* what each command costs
  StartBalance, StartQuantity,
  Blank           \* a page nobody has written on

VARIABLES
  page,           \* the player, the command and the result, by request_id
  told,           \* the answers given
  balance, quantity, cats

bookVars == <<page, told, balance, quantity, cats>>

BookInit ==
  /\ page = [r \in Requests |-> Blank]
  /\ told = {}
  /\ balance = [u \in Users |-> StartBalance]
  /\ quantity = [u \in Users |-> StartQuantity]
  /\ cats = [u \in Users |-> {}]

AnswerOn(r) ==
  [req |-> r, user |-> page[r].user, cmd |-> page[r].cmd, result |-> page[r].result]

\* The player can pay for it, has what it takes away, and has none of the
\* cats it gives.
Bears(u, effect) ==
  /\ effect.cost <= balance[u]
  /\ effect.coins >= 0
  /\ \A i \in Items : quantity[u][i] + effect.items[i] >= 0
  /\ effect.cats \cap cats[u] = {}

Write(r) ==
  LET u == page'[r].user
      effect == page'[r].result.effect
  IN  /\ page[r] = Blank /\ page'[r] # Blank
      /\ page' = [page EXCEPT ![r] = page'[r]]
      /\ u \in Users /\ page'[r].cmd \in Commands
      /\ effect.cost = Cost[page'[r].cmd]
      /\ Bears(u, effect)
      /\ balance' = [balance EXCEPT ![u] = @ - effect.cost + effect.coins]
      /\ quantity' = [quantity EXCEPT ![u] = [i \in Items |-> @[i] + effect.items[i]]]
      /\ cats' = [cats EXCEPT ![u] = @ \cup effect.cats]
      /\ page'[r].result.balance = balance'[u]
      /\ told' = told \cup {AnswerOn(r)'}

Tell(r) ==
  /\ page[r] # Blank
  /\ told' = told \cup {AnswerOn(r)}
  /\ UNCHANGED <<page, balance, quantity, cats>>

BookNext == \E r \in Requests : Write(r) \/ Tell(r)

BookSpec == BookInit /\ [][BookNext]_bookVars
=============================================================================
