--------------------------- MODULE AttemptLedger ---------------------------
(***************************************************************************)
(* What the grading component promises to the rest of the game, with no    *)
(* leases, tokens, workers or retries: an attempt is accepted once and     *)
(* decided once, and the step that decides it right pays the user at once, *)
(* if it is the first right answer of its game day and was given after the *)
(* user's last reset (docs/features/authoritative-learning-rewards.md).    *)
(***************************************************************************)
EXTENDS Integers

CONSTANTS Requests, Users, Tasks, Payloads, Reward, DayLength, Times, None

VARIABLES
  entry,    \* what became of each request
  paid,     \* <<user, task, day>> already rewarded
  balance,  \* coins of each user
  boundary  \* when each user last reset, -1 for never

vars == <<entry, paid, balance, boundary>>

NoEntry == [phase |-> "absent", payload |-> None, at |-> -1]

Day(t) == t \div DayLength
EntryKey(e) == <<e.payload.user, e.payload.task, Day(e.at)>>

Init ==
  /\ entry = [r \in Requests |-> NoEntry]
  /\ paid = {}
  /\ balance = [u \in Users |-> 0]
  /\ boundary = [u \in Users |-> -1]

Accept(r) ==
  /\ entry[r].phase = "absent"
  /\ \E p \in Payloads, t \in Times :
       entry' = [entry EXCEPT ![r] = [phase |-> "open", payload |-> p, at |-> t]]
  /\ UNCHANGED <<paid, balance, boundary>>

DecideTo(r, phase) ==
  /\ entry[r].phase = "open"
  /\ entry' = [entry EXCEPT ![r].phase = phase]

\* A wrong answer, or one that could not be judged, changes nothing else.
DecideUnpaid(r) ==
  /\ \E phase \in {"wrong", "void"} : DecideTo(r, phase)
  /\ UNCHANGED <<paid, balance, boundary>>

Earns(e) == e.at >= boundary[e.payload.user] /\ EntryKey(e) \notin paid

DecideRight(r) ==
  LET e == entry[r] IN
  /\ DecideTo(r, "right")
  /\ \/ /\ Earns(e)
        /\ paid' = paid \cup {EntryKey(e)}
        /\ balance' = [balance EXCEPT ![e.payload.user] = @ + Reward[e.payload.task]]
     \/ ~Earns(e) /\ UNCHANGED <<paid, balance>>
  /\ UNCHANGED boundary

Forget(u) ==
  /\ \E t \in Times : t >= boundary[u] /\ boundary' = [boundary EXCEPT ![u] = t]
  /\ UNCHANGED <<entry, paid, balance>>

Next ==
  \/ \E r \in Requests : Accept(r) \/ DecideUnpaid(r) \/ DecideRight(r)
  \/ \E u \in Users : Forget(u)

Spec == Init /\ [][Next]_vars
=============================================================================
