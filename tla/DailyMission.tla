---------------------------- MODULE DailyMission ----------------------------
(*****************************************************************************)
(* The attendances of one player (daily_mission/service.py and               *)
(* claim_attendance in game/commands.py): two features that write the same   *)
(* table.  GET /daily/today inserts the day's row and assigns tasks,         *)
(* POST /daily/{id}/reward pays for the finished tasks, and the attendance   *)
(* command inserts the day's row already paid.                               *)
(*                                                                           *)
(* A transaction keeps the day it began on.  It waits for the player's row   *)
(* (FOR UPDATE, or KEY SHARE by the foreign key of an inserted row), for an  *)
(* attendance row, and for an uncommitted insert of the same day.  Grading   *)
(* and the reset of learning are steps, taken when the player's row is free. *)
(* Two players share none of these, so one is enough.  Operators named       *)
(* Faulty... are plausible bugs, used by no specification.                   *)
(*****************************************************************************)
EXTENDS Integers, FiniteSets

CONSTANTS
  Sessions,     \* request slots
  LastDate,      \* bound: days are 1 .. LastDate
  TaskCount,    \* settings.daily_task_count
  NoSheet       \* no row

ASSUME DailyAssumption ==
  /\ LastDate \in Nat \ {0}
  /\ TaskCount \in Nat \ {0}
  /\ NoSheet \notin [streak : Nat, claimed : BOOLEAN, tasks : Nat, left : Nat]

Dates == 1 .. LastDate

VARIABLES
  sheet,   \* attendances with the tasks assigned and not completed, by date
  today,   \* game_today()
  coins,   \* payments ever made
  tx       \* open transactions

dailyVars == <<sheet, today, coins, tx>>

NotOpen == [kind |-> "none", pc |-> "idle", day |-> 0, streak |-> 0, row |-> 0]

DailyInit ==
  /\ sheet = [d \in Dates |-> NoSheet]
  /\ today = 1
  /\ coins = 0
  /\ tx = [s \in Sessions |-> NotOpen]

-----------------------------------------------------------------------------
(* Locks                                                                     *)

HoldsPlayer(s) == tx[s].kind = "attend" /\ tx[s].pc \in {"latest", "insert"}
SharesPlayer(s) == tx[s].kind = "open" /\ tx[s].pc = "upgrade"
HoldsRow(s) == tx[s].row # 0
HoldsDay(s) == tx[s].kind = "open" /\ tx[s].pc \in {"share", "upgrade"}

\* The date whose row s asks for: the latest one, or the one it was sent for.
Latest == IF \E d \in Dates : sheet[d] # NoSheet
          THEN CHOOSE d \in Dates : sheet[d] # NoSheet /\ \A e \in Dates : sheet[e] # NoSheet => e <= d
          ELSE 0
WantedRow(s) ==
  CASE tx[s].pc = "latest" -> Latest
    [] tx[s].pc = "row" -> tx[s].day
    [] OTHER -> 0

\* The sessions that s waits for.
WaitsFor(s) ==
  {t \in Sessions \ {s} :
     \/ tx[s].pc \in {"lock", "share", "upgrade", "pay"} /\ HoldsPlayer(t)
     \/ tx[s].pc \in {"lock", "upgrade", "pay"} /\ SharesPlayer(t)
     \/ WantedRow(s) # 0 /\ tx[t].row = WantedRow(s)
     \/ tx[s].pc = "insert" /\ HoldsDay(t) /\ tx[t].day = tx[s].day}

Stuck(waiting) == \A s \in waiting : WaitsFor(s) \cap waiting # {}

GoTo(s, pc) == tx' = [tx EXCEPT ![s].pc = pc]
End(s) == tx' = [tx EXCEPT ![s] = NotOpen]

-----------------------------------------------------------------------------
(* GET /daily/today: get_or_create_daily                                     *)

BeginOpen(s) ==
  /\ tx[s] = NotOpen
  /\ tx' = [tx EXCEPT ![s] = [NotOpen EXCEPT !.kind = "open", !.pc = "read", !.day = today]]
  /\ UNCHANGED <<sheet, today, coins>>

\* The day's row is returned, whoever inserted it; else yesterday's streak
\* is read and the insert follows.
FindSheet(s) ==
  LET d == tx[s].day IN
  /\ tx[s].pc = "read"
  /\ IF sheet[d] # NoSheet
     THEN End(s)
     ELSE tx' = [tx EXCEPT ![s].pc = "insert",
                           ![s].streak = IF d > 1 /\ sheet[d - 1] # NoSheet
                                         THEN sheet[d - 1].streak + 1 ELSE 1]
  /\ UNCHANGED <<sheet, today, coins>>

\* The unique key: a day committed meanwhile aborts the transaction.
InsertSheet(s) ==
  /\ tx[s].kind = "open" /\ tx[s].pc = "insert"
  /\ WaitsFor(s) = {}
  /\ IF sheet[tx[s].day] # NoSheet THEN End(s) ELSE GoTo(s, "share")
  /\ UNCHANGED <<sheet, today, coins>>

SharePlayer(s) ==
  /\ tx[s].pc = "share"
  /\ WaitsFor(s) = {}
  /\ GoTo(s, "upgrade")
  /\ UNCHANGED <<sheet, today, coins>>

NewSheet(s, claimed, tasks) ==
  [streak |-> tx[s].streak, claimed |-> claimed, tasks |-> tasks, left |-> tasks]

\* The lock of get_or_advance_tier, then the tasks: with fewer than
\* TaskCount the row is rolled back and the answer is 409.
FaultyAssignTasks(s) ==
  /\ tx[s].pc = "upgrade"
  /\ WaitsFor(s) = {}
  /\ \E n \in {0, TaskCount} : sheet' = [sheet EXCEPT ![tx[s].day] = NewSheet(s, FALSE, n)]
  /\ End(s)
  /\ UNCHANGED <<today, coins>>
AssignTasks(s) ==
  /\ tx[s].pc = "upgrade"
  /\ WaitsFor(s) = {}
  /\ \/ sheet' = [sheet EXCEPT ![tx[s].day] = NewSheet(s, FALSE, TaskCount)]
     \/ UNCHANGED sheet
  /\ End(s)
  /\ UNCHANGED <<today, coins>>

-----------------------------------------------------------------------------
(* POST /game/attendance: claim_attendance                                   *)

BeginAttend(s) ==
  /\ tx[s] = NotOpen
  /\ tx' = [tx EXCEPT ![s] = [NotOpen EXCEPT !.kind = "attend", !.pc = "lock", !.day = today]]
  /\ UNCHANGED <<sheet, today, coins>>

\* The player's row, at which attendance commands queue.
LockPlayer(s) ==
  /\ tx[s].pc = "lock"
  /\ WaitsFor(s) = {}
  /\ GoTo(s, "latest")
  /\ UNCHANGED <<sheet, today, coins>>

\* A streak that counts on from the latest row, however old.
FaultyStreakAfter(d, latest) == IF latest # 0 THEN sheet[latest].streak + 1 ELSE 1
StreakAfter(d, latest) == IF latest # 0 /\ latest = d - 1 THEN sheet[latest].streak + 1 ELSE 1

\* The latest row, locked: the day's own row refuses the claim.
LockLatest(s) ==
  LET d == tx[s].day IN
  /\ tx[s].pc = "latest"
  /\ WaitsFor(s) = {}
  /\ IF Latest = d
     THEN End(s)
     ELSE tx' = [tx EXCEPT ![s].pc = "insert", ![s].row = Latest,
                           ![s].streak = StreakAfter(d, Latest)]
  /\ UNCHANGED <<sheet, today, coins>>

\* The row comes with its payment, or the unique key aborts it.
FaultyAttend(s) ==
  /\ tx[s].kind = "attend" /\ tx[s].pc = "insert"
  /\ WaitsFor(s) = {}
  /\ sheet' = [sheet EXCEPT ![tx[s].day] = NewSheet(s, TRUE, 0)]
  /\ coins' = coins + 1
  /\ End(s)
  /\ UNCHANGED today
Attend(s) ==
  LET d == tx[s].day IN
  /\ tx[s].kind = "attend" /\ tx[s].pc = "insert"
  /\ WaitsFor(s) = {}
  /\ IF sheet[d] = NoSheet
     THEN /\ sheet' = [sheet EXCEPT ![d] = NewSheet(s, TRUE, 0)]
          /\ coins' = coins + 1
     ELSE UNCHANGED <<sheet, coins>>
  /\ End(s)
  /\ UNCHANGED today

-----------------------------------------------------------------------------
(* POST /daily/{id}/reward: claim_reward                                     *)

BeginReward(s, d) ==
  /\ tx[s] = NotOpen
  /\ sheet[d] # NoSheet
  /\ tx' = [tx EXCEPT ![s] = [NotOpen EXCEPT !.kind = "reward", !.pc = "row", !.day = d]]
  /\ UNCHANGED <<sheet, today, coins>>

Finished(d) == sheet[d].tasks > 0 /\ sheet[d].left = 0

\* With its row locked: a paid sheet is returned, an unfinished one refused.
CheckSheet(s) ==
  LET d == tx[s].day IN
  /\ tx[s].pc = "row"
  /\ WaitsFor(s) = {}
  /\ IF sheet[d].claimed \/ ~Finished(d)
     THEN End(s)
     ELSE tx' = [tx EXCEPT ![s].pc = "pay", ![s].row = d]
  /\ UNCHANGED <<sheet, today, coins>>

\* The player's lock, then the payment; the tasks are not looked at again.
PaySheet(s) ==
  /\ tx[s].pc = "pay"
  /\ WaitsFor(s) = {}
  /\ sheet' = [sheet EXCEPT ![tx[s].day].claimed = TRUE]
  /\ coins' = coins + 1
  /\ End(s)
  /\ UNCHANGED today

-----------------------------------------------------------------------------
(* The rest of the system                                                    *)

PlayerIsFree == \A s \in Sessions : ~HoldsPlayer(s) /\ ~SharesPlayer(s)

\* A correct daily attempt (_persist_result of grading/service.py).
CompleteTask(d) ==
  /\ PlayerIsFree
  /\ sheet[d] # NoSheet /\ sheet[d].left > 0
  /\ sheet' = [sheet EXCEPT ![d].left = @ - 1]
  /\ UNCHANGED <<today, coins, tx>>

\* reset_learning_progress: the tasks of every sheet are open again.
ReopenTasks ==
  /\ PlayerIsFree
  /\ sheet' = [d \in Dates |-> IF sheet[d] = NoSheet THEN NoSheet
                               ELSE [sheet[d] EXCEPT !.left = sheet[d].tasks]]
  /\ UNCHANGED <<today, coins, tx>>

Midnight ==
  /\ today < LastDate
  /\ today' = today + 1
  /\ UNCHANGED <<sheet, coins, tx>>

\* The connection breaks, or PostgreSQL aborts one session of a cycle.
AbortDaily(s) ==
  /\ tx[s] # NotOpen
  /\ End(s)
  /\ UNCHANGED <<sheet, today, coins>>
FaultyResolve(s) == FALSE  \* nobody looks for cycles
Resolve(s) ==
  /\ \E waiting \in SUBSET Sessions : s \in waiting /\ Stuck(waiting)
  /\ AbortDaily(s)

-----------------------------------------------------------------------------
DailyStep(s) ==
  \/ FindSheet(s) \/ InsertSheet(s) \/ SharePlayer(s) \/ AssignTasks(s)
  \/ LockPlayer(s) \/ LockLatest(s) \/ Attend(s)
  \/ CheckSheet(s) \/ PaySheet(s)

DailyNext ==
  \/ \E s \in Sessions :
       \/ BeginOpen(s) \/ BeginAttend(s) \/ \E d \in Dates : BeginReward(s, d)
       \/ DailyStep(s) \/ AbortDaily(s) \/ Resolve(s)
  \/ \E d \in Dates : CompleteTask(d)
  \/ ReopenTasks
  \/ Midnight

DailySpec == DailyInit /\ [][DailyNext]_dailyVars

\* The database queues those who wait for a row and breaks cycles.
DailyFairness == \A s \in Sessions : SF_dailyVars(DailyStep(s)) /\ WF_dailyVars(Resolve(s))

-----------------------------------------------------------------------------
(* Type invariant                                                            *)

SheetType == [streak : Nat \ {0}, claimed : BOOLEAN, tasks : Nat, left : Nat]
TxType ==
  [kind : {"open", "attend", "reward"},
   pc : {"read", "insert", "share", "upgrade", "lock", "latest", "row", "pay"},
   day : Dates, streak : Nat, row : Dates \cup {0}]

\* Every variable has its type, one session holds the player, a row or the
\* key of a day, and a day whose row is being inserted has no row.
DailyTypeOK ==
  /\ sheet \in [Dates -> SheetType \cup {NoSheet}]
  /\ today \in Dates
  /\ coins \in Nat
  /\ tx \in [Sessions -> TxType \cup {NotOpen}]
  /\ \A s \in Sessions : HoldsDay(s) => sheet[tx[s].day] = NoSheet
  /\ \A s, t \in Sessions : s # t =>
       /\ ~(HoldsPlayer(s) /\ HoldsPlayer(t))
       /\ ~(HoldsPlayer(s) /\ SharesPlayer(t))
       /\ ~(HoldsRow(s) /\ tx[s].row = tx[t].row)
       /\ ~(HoldsDay(s) /\ HoldsDay(t) /\ tx[s].day = tx[t].day)

-----------------------------------------------------------------------------
(* Properties                                                                *)

\* A day has all of its tasks or, when the attendance command wrote it, none,
\* and then it was paid at once: no sheet is left that can never be paid,
\* whichever feature comes first (daily_mission/service.py:48).
SheetsCanBePaid ==
  \A d \in Dates : sheet[d] # NoSheet =>
    /\ sheet[d].tasks = TaskCount \/ (sheet[d].tasks = 0 /\ sheet[d].claimed)
    /\ sheet[d].left <= sheet[d].tasks

\* A streak of n stands on a row of n - 1 the day before: racing features and
\* requests of yesterday may cut a streak but never lengthen it.
StreakNeverInflated ==
  \A d \in Dates : sheet[d] # NoSheet /\ sheet[d].streak > 1 =>
    d > 1 /\ sheet[d - 1] # NoSheet /\ sheet[d - 1].streak = sheet[d].streak - 1

\* Every request ends, whatever it waits for.
EveryDailyRequestEnds == \A s \in Sessions : tx[s] # NotOpen ~> tx[s] = NotOpen

\* The attendances implement the day book: one page a day, opened at most
\* once, and one payment a page, by whichever feature.
PageOn(d) ==
  IF sheet[d] = NoSheet THEN "blank" ELSE IF sheet[d].claimed THEN "paid" ELSE "open"
Book == INSTANCE DayBook WITH Days <- Dates, page <- [d \in Dates |-> PageOn(d)], payments <- coins
OnePaymentADay == Book!BookSpec
=============================================================================
