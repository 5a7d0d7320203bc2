----------------------------- MODULE PlayerRow -----------------------------
(****************************************************************************)
(* One player's USERS row under concurrent requests                         *)
(* (src/app/modules/game/commands.py, daily_mission/service.py,             *)
(* db/repositories.py).                                                     *)
(*                                                                          *)
(* A request first loads the row to authenticate (api/dependencies.py) and  *)
(* locks it later, with SELECT ... FOR UPDATE.  Two families of commands    *)
(* see different rows under that lock:                                      *)
(*   - unit-of-work commands refresh their copy (populate_existing);        *)
(*   - direct commands keep the copy loaded for authentication, because     *)
(*     the session's identity map already holds the row.                    *)
(* Either way the UPDATE names only the columns that differ from the copy   *)
(* (SQLAlchemy's net changes), with absolute values.                        *)
(*                                                                          *)
(* What the commands do to rows of their own (assets, executions, tasks)    *)
(* is left to other modules.  Operators named Faulty... are plausible bugs, *)
(* used by no specification; PROJECT.json names what rejects each one.      *)
(****************************************************************************)
EXTENDS Integers, FiniteSets

CONSTANTS
  Sessions,        \* requests in flight
  Cats,            \* owned cats
  Keys, Values,    \* game_settings
  DailyKeys,       \* daily rewards other than "bonus"
  AttendanceCoins, \* attendance reward of the day
  DailyCoins,      \* coins of each daily reward, and of "bonus"
  MissionCoins,    \* settings.daily_reward_balance
  Deltas,          \* what unit-of-work commands add to the balance
  StartBalance,
  MaxVersion,      \* bound: no request locks the row to pass this version
  MaxFlow,         \* bound: no request locks the row after this many coins
  None             \* no copy

ASSUME PlayerAssumption ==
  /\ Deltas \subseteq Int
  /\ StartBalance \in Nat /\ AttendanceCoins \in Nat /\ MissionCoins \in Nat
  /\ DailyCoins \in [DailyKeys \cup {"bonus"} -> Nat]
  /\ DailyKeys \cap {"attendance", "mission", "bonus"} = {}

VARIABLES
  row,      \* the USERS row
  home,     \* assets.is_home of the cats
  sheet,    \* today's attendances row: "none", "tasks" or "claimed"
  claimed,  \* daily_reward_claims of the day
  ledger,   \* coins recorded in reward ledgers and executions: [in, out]
  session   \* what each request has loaded, and whether it holds the lock

vars == <<row, home, sheet, claimed, ledger, session>>

Columns == {"balance", "version", "settings", "active"}
RowType == [balance : Int, version : Int, settings : [Keys -> Values], active : Cats]
Idle == [pc |-> "idle", copy |-> None]

Init ==
  /\ \E c \in Cats, v \in Values :
       /\ row = [balance |-> StartBalance, version |-> 1,
                 settings |-> [k \in Keys |-> v], active |-> c]
       /\ home = {c}
  /\ sheet = "none"
  /\ claimed = {}
  /\ ledger = [in |-> 0, out |-> 0]
  /\ session = [s \in Sessions |-> Idle]

-----------------------------------------------------------------------------
(* Sessions                                                                 *)

\* get_current_user reads the row without a lock.
Load(s) ==
  /\ session[s].pc = "idle"
  /\ session' = [session EXCEPT ![s] = [pc |-> "loaded", copy |-> row]]
  /\ UNCHANGED <<row, home, sheet, claimed, ledger>>

\* No request waits for the lock of another.
Unlocked == \A s \in Sessions : session[s].pc \notin {"unit", "direct"}

\* What get_for_update of the unit of work finds: the row under the lock.
FaultyRefreshed(s) == session[s].copy  \* no populate_existing
Refreshed(s) == row

\* The lock of a unit-of-work command, and that of a direct command.
LockFor(s, family, seen) ==
  /\ session[s].pc = "loaded"
  /\ Unlocked
  /\ seen.version < MaxVersion /\ ledger.in + ledger.out < MaxFlow
  /\ session' = [session EXCEPT ![s] = [pc |-> family, copy |-> seen]]
  /\ UNCHANGED <<row, home, sheet, claimed, ledger>>
LockUnit(s) == LockFor(s, "unit", Refreshed(s))

\* The identity map answers with the copy it holds.
LockDirect(s) == LockFor(s, "direct", session[s].copy)

Close(s) == session' = [session EXCEPT ![s] = Idle]

\* A read-only request, or a command that was refused and rolled back.
Leave(s) ==
  /\ session[s].pc # "idle"
  /\ Close(s)
  /\ UNCHANGED <<row, home, sheet, claimed, ledger>>

\* The UPDATE of a session whose copy was old and is now new.
FaultyFlush(old, new) == row' = new  \* writes every column back
Flush(old, new) ==
  row' = [c \in Columns |-> IF new[c] # old[c] THEN new[c] ELSE row[c]]

Advance(r) == [r EXCEPT !.version = @ + 1]
Paid(r, coins) == [r EXCEPT !.balance = @ + coins]

\* A direct command holding the lock leaves its copy as new and commits.
Commit(s, new) ==
  /\ Flush(session[s].copy, new)
  /\ Close(s)

-----------------------------------------------------------------------------
(* Unit-of-work commands: purchases, draws, consumption, housing, grading   *)

\* A command that forgets the version.
FaultyUnitOfWork(s, d) ==
  LET seen == session[s].copy IN
  /\ session[s].pc = "unit"
  /\ seen.balance + d >= 0
  /\ Flush(seen, Paid(seen, d))
  /\ ledger' = IF d >= 0 THEN [ledger EXCEPT !.in = @ + d] ELSE [ledger EXCEPT !.out = @ - d]
  /\ Close(s)
  /\ UNCHANGED <<home, sheet, claimed>>

UnitOfWork(s, d) ==
  LET seen == session[s].copy IN
  /\ session[s].pc = "unit"
  /\ seen.balance + d >= 0
  /\ Flush(seen, Advance(Paid(seen, d)))
  /\ ledger' = IF d >= 0 THEN [ledger EXCEPT !.in = @ + d] ELSE [ledger EXCEPT !.out = @ - d]
  /\ Close(s)
  /\ UNCHANGED <<home, sheet, claimed>>

-----------------------------------------------------------------------------
(* Direct commands; copy is what they loaded before the lock                *)

\* reset_learning_progress, clear_cat_memories and create_attempt.
OtherCommand(s) ==
  /\ Commit(s, Advance(session[s].copy))
  /\ UNCHANGED <<home, sheet, claimed, ledger>>

SelectActiveCat(s, c) ==
  /\ Commit(s, Advance([session[s].copy EXCEPT !.active = c]))
  /\ home' = home \cup {c}
  /\ UNCHANGED <<sheet, claimed, ledger>>

\* Hiding the cat that the copy has as active activates another one at home.
FaultyReplacements(s, c) == {}  \* forgets the active cat
Replacements(s, c) == IF session[s].copy.active = c THEN home \ {c} ELSE {}

SetCatHome(s, c, visible) ==
  LET copy == session[s].copy IN
  /\ home' = IF visible THEN home \cup {c} ELSE home \ {c}
  /\ IF visible \/ Replacements(s, c) = {}
     THEN Commit(s, Advance(copy))
     ELSE \E r \in Replacements(s, c) : Commit(s, Advance([copy EXCEPT !.active = r]))
  /\ UNCHANGED <<sheet, claimed, ledger>>

FaultyMerged(settings, k, v) == [j \in Keys |-> v]  \* the patch replaces all
Merged(settings, k, v) == [settings EXCEPT ![k] = v]

UpdateGameSettings(s, k, v) ==
  /\ Commit(s, Advance([session[s].copy EXCEPT !.settings = Merged(@, k, v)]))
  /\ UNCHANGED <<home, sheet, claimed, ledger>>

\* The attendances row is looked up under the lock: one a day, whoever made it.
ClaimAttendance(s) ==
  /\ sheet = "none"
  /\ sheet' = "claimed"
  /\ Commit(s, Advance(Paid(session[s].copy, AttendanceCoins)))
  /\ ledger' = [ledger EXCEPT !.in = @ + AttendanceCoins]
  /\ UNCHANGED <<home, claimed>>

\* Pays again for a reward whose ledger row exists.
FaultyClaimDailyReward(s, k) ==
  /\ claimed' = claimed \cup {k}
  /\ Commit(s, Advance(Paid(session[s].copy, DailyCoins[k])))
  /\ ledger' = IF k \in claimed THEN ledger ELSE [ledger EXCEPT !.in = @ + DailyCoins[k]]
  /\ UNCHANGED <<home, sheet>>

\* Ledger rows are looked up under the lock; the bonus needs all the others.
ClaimDailyReward(s, k) ==
  /\ k \notin claimed
  /\ k = "bonus" => claimed = DailyKeys
  /\ claimed' = claimed \cup {k}
  /\ Commit(s, Advance(Paid(session[s].copy, DailyCoins[k])))
  /\ ledger' = [ledger EXCEPT !.in = @ + DailyCoins[k]]
  /\ UNCHANGED <<home, sheet>>

\* get_or_create_daily opens the day's sheet without locking the player;
\* claim_reward pays a complete one, and leaves the state version alone.
OpenDaily(s) ==
  /\ session[s].pc = "loaded"
  /\ sheet = "none"
  /\ sheet' = "tasks"
  /\ Close(s)
  /\ UNCHANGED <<row, home, claimed, ledger>>

ClaimMissionReward(s) ==
  /\ sheet = "tasks"
  /\ sheet' = "claimed"
  /\ Commit(s, Paid(session[s].copy, MissionCoins))
  /\ ledger' = [ledger EXCEPT !.in = @ + MissionCoins]
  /\ UNCHANGED <<home, claimed>>

-----------------------------------------------------------------------------
DirectCommand(s) ==
  /\ session[s].pc = "direct"
  /\ \/ OtherCommand(s)
     \/ \E c \in Cats : SelectActiveCat(s, c)
     \/ \E c \in Cats, visible \in BOOLEAN : SetCatHome(s, c, visible)
     \/ \E k \in Keys, v \in Values : UpdateGameSettings(s, k, v)
     \/ ClaimAttendance(s)
     \/ \E k \in DailyKeys \cup {"bonus"} : ClaimDailyReward(s, k)
     \/ ClaimMissionReward(s)

\* The unit-of-work commands alone, and all commands.
NextUnit ==
  \E s \in Sessions : Load(s) \/ Leave(s) \/ LockUnit(s) \/ \E d \in Deltas : UnitOfWork(s, d)
Next == NextUnit \/ \E s \in Sessions : LockDirect(s) \/ DirectCommand(s) \/ OpenDaily(s)

Spec == Init /\ [][Next]_vars
SpecUnit == Init /\ [][NextUnit]_vars

-----------------------------------------------------------------------------
(* Type invariant                                                           *)

\* Every variable has its type, a request in flight has a copy, and at most
\* one of them holds the lock.
TypeOK ==
  /\ row \in RowType
  /\ home \subseteq Cats
  /\ sheet \in {"none", "tasks", "claimed"}
  /\ claimed \subseteq DailyKeys \cup {"bonus"}
  /\ ledger \in [in : Nat, out : Nat]
  /\ \A s \in Sessions :
       \/ session[s] = Idle
       \/ session[s] \in [pc : {"loaded", "unit", "direct"}, copy : RowType]
  /\ session \in [Sessions -> [pc : {"idle", "loaded", "unit", "direct"},
                               copy : RowType \cup {None}]]
  /\ \A s, t \in Sessions :
       session[s].pc \in {"unit", "direct"} /\ session[t].pc \in {"unit", "direct"} => s = t

-----------------------------------------------------------------------------
(* Coins                                                                    *)

\* The player has exactly the coins the reward ledgers and the executions
\* record (docs/features/authoritative-learning-rewards.md:5-7).
BalanceIsExact == row.balance = StartBalance + ledger.in - ledger.out

\* However stale the copies that requests write back, a player never has more
\* coins than every recorded reward together, and never fewer than none.
BalanceNeverInflated ==
  /\ row.balance >= 0
  /\ row.balance <= StartBalance + ledger.in

-----------------------------------------------------------------------------
(* State version                                                            *)

\* Whatever changes the player's state changes the version with it, so that a
\* client can order two answers (docs/architecture/overview.md:9).
VersionAdvances == [][row' # row => row'.version > row.version]_vars

\* A stale copy does harm in one place only: a step changes the coins, the
\* settings or the active cat of the row, never two of them, so a claim that
\* forgets coins spent meanwhile still keeps the settings saved meanwhile.
OneColumnAtATime ==
  [][\A a, b \in {"balance", "settings", "active"} :
       row'[a] # row[a] /\ row'[b] # row[b] => a = b]_vars

-----------------------------------------------------------------------------
(* What commands do when their copy is the row they locked                  *)

FreshWriters == \A s \in Sessions : session[s].pc = "direct" => session[s].copy = row

\* A patch of one key leaves the value of every other key alone
\* (commands.py:88, "merge").
SettingsMerge ==
  [][FreshWriters => \A j, k \in Keys :
       row'.settings[j] # row.settings[j] /\ row'.settings[k] # row.settings[k] => j = k]_vars

\* Hiding the active cat leaves another cat at home active, if there is one
\* (commands.py:54, "keep the active selection valid").
HiddenCatIsReplaced ==
  [][FreshWriters /\ row.active \in home \ home' /\ home' # {} => row'.active \in home']_vars
=============================================================================
