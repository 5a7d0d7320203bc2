-------------------------- MODULE PlayerRowProofs --------------------------
(****************************************************************************)
(* Proofs about PlayerRow: the type invariant, the coins, the state version *)
(* of unit-of-work commands, and how far a stale copy can reach.            *)
(****************************************************************************)
EXTENDS PlayerRow, TLAPS

\* What a session in flight looks like; Idle is the only other shape.
InFlight == [pc : {"loaded", "unit", "direct"}, copy : RowType]
Holds(s) == session[s].pc \in {"unit", "direct"}

SessionsOK ==
  /\ \A s \in Sessions : session[s] = Idle \/ session[s] \in InFlight
  /\ session \in [Sessions -> [pc : {"idle", "loaded", "unit", "direct"},
                               copy : RowType \cup {None}]]
  /\ \A s, t \in Sessions : Holds(s) /\ Holds(t) => s = t

LEMMA TypeHasSessions == TypeOK => SessionsOK
BY DEF TypeOK, SessionsOK, InFlight, Holds

\* A command that writes the difference of two rows leaves a row, each column
\* of which is the new row's or its own.
LEMMA FlushType ==
  ASSUME row \in RowType, NEW old \in RowType, NEW new \in RowType, Flush(old, new)
  PROVE  /\ row' \in RowType
         /\ \A c \in Columns : row'[c] = IF new[c] # old[c] THEN new[c] ELSE row[c]
<1>1. \A c \in Columns : row'[c] = IF new[c] # old[c] THEN new[c] ELSE row[c]
  BY DEF Flush
<1>2. /\ row'["balance"] \in Int
      /\ row'["version"] \in Int
      /\ row'["settings"] \in [Keys -> Values]
      /\ row'["active"] \in Cats
  BY <1>1 DEF Columns, RowType
<1>3. row' = [balance |-> row'["balance"], version |-> row'["version"],
              settings |-> row'["settings"], active |-> row'["active"]]
  BY DEF Flush, Columns
<1>4. row' \in RowType
  BY <1>2, <1>3 DEF RowType
<1> QED BY <1>1, <1>4

\* A session that ends leaves the others as they were.
LEMMA CloseKeepsSessions ==
  ASSUME SessionsOK, NEW s \in Sessions, Close(s)
  PROVE  SessionsOK'
<1>1. \A t \in Sessions : session'[t] = IF t = s THEN Idle ELSE session[t]
  BY DEF SessionsOK, Close
<1>2. \A t \in Sessions : session'[t] = Idle \/ session'[t] \in InFlight
  BY <1>1 DEF SessionsOK
<1>3. session' \in [Sessions -> [pc : {"idle", "loaded", "unit", "direct"},
                                 copy : RowType \cup {None}]]
  BY DEF SessionsOK, Close, Idle
<1>4. \A t \in Sessions : Holds(t)' => Holds(t) /\ t # s
  BY <1>1 DEF Holds, Idle
<1> QED BY <1>2, <1>3, <1>4 DEF SessionsOK

\* The rows a command makes of its copy.
LEMMA CopyTypes ==
  ASSUME NEW r \in RowType
  PROVE  /\ Advance(r) \in RowType
         /\ Advance(r).version = r.version + 1
         /\ Advance(r).balance = r.balance
         /\ Advance(r).settings = r.settings
         /\ Advance(r).active = r.active
         /\ \A c \in Cats : [r EXCEPT !.active = c] \in RowType
         /\ \A k \in Keys, v \in Values :
              [r EXCEPT !.settings = Merged(@, k, v)] \in RowType
BY DEF Advance, Merged, RowType

LEMMA PaidTypes ==
  ASSUME NEW r \in RowType, NEW d \in Int
  PROVE  /\ Paid(r, d) \in RowType
         /\ Paid(r, d).balance = r.balance + d
         /\ Paid(r, d).version = r.version
         /\ Paid(r, d).settings = r.settings
         /\ Paid(r, d).active = r.active
         /\ Advance(Paid(r, d)) \in RowType
         /\ Advance(Paid(r, d)).balance = r.balance + d
         /\ Advance(Paid(r, d)).version = r.version + 1
         /\ Advance(Paid(r, d)).settings = r.settings
         /\ Advance(Paid(r, d)).active = r.active
<1>1. /\ Paid(r, d) \in RowType
      /\ Paid(r, d).balance = r.balance + d
      /\ Paid(r, d).version = r.version
      /\ Paid(r, d).settings = r.settings
      /\ Paid(r, d).active = r.active
  BY DEF Paid, RowType
<1>2. /\ Advance(Paid(r, d)) \in RowType
      /\ Advance(Paid(r, d)).balance = Paid(r, d).balance
      /\ Advance(Paid(r, d)).version = Paid(r, d).version + 1
      /\ Advance(Paid(r, d)).settings = Paid(r, d).settings
      /\ Advance(Paid(r, d)).active = Paid(r, d).active
  BY <1>1, CopyTypes
<1> QED BY <1>1, <1>2

\* Everything a locked direct command may write back, and what it earns.
CommandRow(s, new, coins) ==
  \/ coins = 0 /\ new = Advance(session[s].copy)
  \/ coins = 0 /\ \E c \in Cats : new = Advance([session[s].copy EXCEPT !.active = c])
  \/ coins = 0 /\ \E k \in Keys, v \in Values :
        new = Advance([session[s].copy EXCEPT !.settings = Merged(@, k, v)])
  \/ new = Advance(Paid(session[s].copy, coins))
  \/ new = Paid(session[s].copy, coins)

\* Each direct command commits one such row and records what it earned.
DirectEffect(s) ==
  /\ home' \subseteq Cats
  /\ sheet' \in {"none", "tasks", "claimed"}
  /\ claimed' \subseteq DailyKeys \cup {"bonus"}
  /\ \E new \in RowType, coins \in Nat :
       /\ CommandRow(s, new, coins)
       /\ Commit(s, new)
       /\ ledger' = [ledger EXCEPT !.in = @ + coins]

LEMMA DirectCommands ==
  ASSUME TypeOK, NEW s \in Sessions, DirectCommand(s)
  PROVE  session[s].copy \in RowType /\ session[s].pc = "direct" /\ DirectEffect(s)
<1> DEFINE copy == session[s].copy
<1>1. copy \in RowType /\ session[s].pc = "direct"
  BY DEF TypeOK, DirectCommand, Idle
<1>2. ledger = [ledger EXCEPT !.in = @ + 0]
  BY DEF TypeOK
<1> HIDE DEF copy
<1> SUFFICES DirectEffect(s)
  BY <1>1 DEF copy
<1>a. CASE OtherCommand(s)
  <2>1. Commit(s, Advance(copy))
    BY <1>a DEF OtherCommand, copy
  <2>2. Advance(copy) \in RowType /\ CommandRow(s, Advance(copy), 0)
    BY <1>1, CopyTypes DEF CommandRow, copy
  <2> QED BY <1>a, <1>2, <2>1, <2>2 DEF DirectEffect, OtherCommand, TypeOK
<1>b. ASSUME NEW c \in Cats, SelectActiveCat(s, c)
      PROVE  DirectEffect(s)
  <2> DEFINE new == Advance([copy EXCEPT !.active = c])
  <2>1. Commit(s, new)
    BY <1>b DEF SelectActiveCat, copy
  <2>2. new \in RowType /\ CommandRow(s, new, 0)
    BY <1>1, CopyTypes DEF CommandRow, copy
  <2> HIDE DEF new
  <2> QED BY <1>b, <1>2, <2>1, <2>2 DEF DirectEffect, SelectActiveCat, TypeOK
<1>c. ASSUME NEW c \in Cats, NEW visible \in BOOLEAN, SetCatHome(s, c, visible)
      PROVE  DirectEffect(s)
  <2>1. /\ home' \subseteq Cats
        /\ sheet' = sheet /\ claimed' = claimed /\ ledger' = ledger
    BY <1>c DEF SetCatHome, TypeOK
  <2>2. CASE visible \/ Replacements(s, c) = {}
    <3>1. Commit(s, Advance(copy))
      BY <1>c, <2>2 DEF SetCatHome, copy
    <3>2. Advance(copy) \in RowType /\ CommandRow(s, Advance(copy), 0)
      BY <1>1, CopyTypes DEF CommandRow, copy
    <3> QED BY <1>2, <2>1, <3>1, <3>2 DEF DirectEffect, TypeOK
  <2>3. CASE ~(visible \/ Replacements(s, c) = {})
    <3>1. PICK r \in Replacements(s, c) : Commit(s, Advance([copy EXCEPT !.active = r]))
      BY <1>c, <2>3 DEF SetCatHome, copy
    <3>2. r \in Cats
      BY <3>1 DEF Replacements, TypeOK
    <3> DEFINE new == Advance([copy EXCEPT !.active = r])
    <3>3. new \in RowType /\ CommandRow(s, new, 0)
      BY <1>1, <3>2, CopyTypes DEF CommandRow, copy
    <3>4. Commit(s, new)
      BY <3>1
    <3> HIDE DEF new
    <3> QED BY <1>2, <2>1, <3>3, <3>4 DEF DirectEffect, TypeOK
  <2> QED BY <2>2, <2>3
<1>d. ASSUME NEW k \in Keys, NEW v \in Values, UpdateGameSettings(s, k, v)
      PROVE  DirectEffect(s)
  <2> DEFINE new == Advance([copy EXCEPT !.settings = Merged(@, k, v)])
  <2>1. Commit(s, new)
    BY <1>d DEF UpdateGameSettings, copy
  <2>2. new \in RowType /\ CommandRow(s, new, 0)
    BY <1>1, CopyTypes DEF CommandRow, copy
  <2> HIDE DEF new
  <2> QED BY <1>d, <1>2, <2>1, <2>2 DEF DirectEffect, UpdateGameSettings, TypeOK
<1>e. CASE ClaimAttendance(s)
  <2> DEFINE new == Advance(Paid(copy, AttendanceCoins))
  <2>1. Commit(s, new)
    BY <1>e DEF ClaimAttendance, copy
  <2>2. new \in RowType /\ CommandRow(s, new, AttendanceCoins)
    <3>1. AttendanceCoins \in Int
      BY PlayerAssumption
    <3>2. Paid(copy, AttendanceCoins) \in RowType
      BY <1>1, <3>1, PaidTypes
    <3>3. new \in RowType
      BY <3>2, CopyTypes
    <3>4. CommandRow(s, new, AttendanceCoins)
      BY DEF CommandRow, copy
    <3> QED BY <3>3, <3>4
  <2> HIDE DEF new
  <2> QED BY <1>e, <2>1, <2>2, PlayerAssumption DEF DirectEffect, ClaimAttendance, TypeOK
<1>f. ASSUME NEW k \in DailyKeys \cup {"bonus"}, ClaimDailyReward(s, k)
      PROVE  DirectEffect(s)
  <2> DEFINE new == Advance(Paid(copy, DailyCoins[k]))
  <2>1. Commit(s, new)
    BY <1>f DEF ClaimDailyReward, copy
  <2>2. DailyCoins[k] \in Nat
    BY PlayerAssumption
  <2>3. new \in RowType /\ CommandRow(s, new, DailyCoins[k])
    <3>1. DailyCoins[k] \in Int
      BY <2>2
    <3>2. Paid(copy, DailyCoins[k]) \in RowType
      BY <1>1, <3>1, PaidTypes
    <3>3. new \in RowType
      BY <3>2, CopyTypes
    <3>4. CommandRow(s, new, DailyCoins[k])
      BY DEF CommandRow, copy
    <3> QED BY <3>3, <3>4
  <2> HIDE DEF new
  <2> QED BY <1>f, <2>1, <2>2, <2>3 DEF DirectEffect, ClaimDailyReward, TypeOK
<1>g. CASE ClaimMissionReward(s)
  <2> DEFINE new == Paid(copy, MissionCoins)
  <2>1. Commit(s, new)
    BY <1>g DEF ClaimMissionReward, copy
  <2>2. new \in RowType /\ CommandRow(s, new, MissionCoins)
    BY <1>1, PaidTypes, PlayerAssumption DEF CommandRow, copy
  <2> HIDE DEF new
  <2> QED BY <1>g, <2>1, <2>2, PlayerAssumption DEF DirectEffect, ClaimMissionReward, TypeOK
<1> QED BY <1>a, <1>b, <1>c, <1>d, <1>e, <1>f, <1>g DEF DirectCommand

-----------------------------------------------------------------------------
(* Types                                                                    *)

LEMMA InitType == Init => TypeOK
<1> SUFFICES ASSUME Init PROVE TypeOK
  OBVIOUS
<1>1. PICK c \in Cats, v \in Values :
        /\ row = [balance |-> StartBalance, version |-> 1,
                  settings |-> [k \in Keys |-> v], active |-> c]
        /\ home = {c}
  BY DEF Init
<1>2. row \in RowType
  BY <1>1, PlayerAssumption DEF RowType
<1> QED BY <1>1, <1>2 DEF Init, TypeOK, Idle

\* The sessions stay well formed when one loads, locks or ends.
LEMMA OpenKeepsSessions ==
  ASSUME SessionsOK, NEW s \in Sessions, NEW new \in InFlight,
         new.pc = "loaded" \/ \A t \in Sessions : ~Holds(t),
         session' = [session EXCEPT ![s] = new]
  PROVE  SessionsOK'
<1>1. \A t \in Sessions : session'[t] = IF t = s THEN new ELSE session[t]
  BY DEF SessionsOK
<1>2. \A t \in Sessions : session'[t] = Idle \/ session'[t] \in InFlight
  BY <1>1 DEF SessionsOK
<1>3. session' \in [Sessions -> [pc : {"idle", "loaded", "unit", "direct"},
                                 copy : RowType \cup {None}]]
  BY DEF SessionsOK, InFlight
<1>4. \A t, u \in Sessions : Holds(t)' /\ Holds(u)' => t = u
  BY <1>1 DEF Holds, SessionsOK
<1> QED BY <1>2, <1>3, <1>4 DEF SessionsOK

\* Locking hands the session a copy that is a row.
LEMMA LockKeepsSessions ==
  ASSUME TypeOK, NEW s \in Sessions, NEW family \in {"unit", "direct"}, NEW seen \in RowType,
         LockFor(s, family, seen)
  PROVE  SessionsOK'
<1> DEFINE new == [pc |-> family, copy |-> seen]
<1>1. new \in InFlight
  BY DEF InFlight
<1>2. session' = [session EXCEPT ![s] = new] /\ \A t \in Sessions : ~Holds(t)
  BY DEF LockFor, Unlocked, Holds
<1> HIDE DEF new
<1> QED BY <1>1, <1>2, TypeHasSessions, OpenKeepsSessions

LEMMA LoadKeepsSessions ==
  ASSUME TypeOK, NEW s \in Sessions, Load(s)
  PROVE  SessionsOK'
<1> DEFINE new == [pc |-> "loaded", copy |-> row]
<1>1. new \in InFlight /\ new.pc = "loaded"
  BY DEF InFlight, TypeOK
<1>2. session' = [session EXCEPT ![s] = new]
  BY DEF Load
<1> HIDE DEF new
<1> QED BY <1>1, <1>2, TypeHasSessions, OpenKeepsSessions

\* A command of the unit of work: what it writes, earns or spends.
LEMMA UnitCommands ==
  ASSUME TypeOK, NEW s \in Sessions, NEW d \in Deltas, UnitOfWork(s, d)
  PROVE  /\ session[s].copy \in RowType
         /\ d \in Int
         /\ Advance(Paid(session[s].copy, d)) \in RowType
         /\ ledger' \in [in : Nat, out : Nat]
         /\ ledger'.in - ledger'.out = ledger.in - ledger.out + d
         /\ ledger'.in >= ledger.in
         /\ d >= 0 => ledger'.in = ledger.in + d
<1>1. session[s].copy \in RowType
  BY DEF TypeOK, UnitOfWork, Idle
<1>2. d \in Int
  BY PlayerAssumption
<1>3. Advance(Paid(session[s].copy, d)) \in RowType
  BY <1>1, <1>2, PaidTypes
<1>4. CASE d >= 0
  <2>1. ledger' = [in |-> ledger.in + d, out |-> ledger.out]
    BY <1>4 DEF UnitOfWork, TypeOK
  <2> QED BY <1>1, <1>2, <1>3, <1>4, <2>1 DEF TypeOK
<1>5. CASE ~(d >= 0)
  <2>1. ledger' = [in |-> ledger.in, out |-> ledger.out - d]
    BY <1>5 DEF UnitOfWork, TypeOK
  <2> QED BY <1>1, <1>2, <1>3, <1>5, <2>1 DEF TypeOK
<1> QED BY <1>4, <1>5

LEMMA NextType == TypeOK /\ [Next]_vars => TypeOK'
<1> SUFFICES ASSUME TypeOK, [Next]_vars PROVE TypeOK'
  OBVIOUS
<1> USE TypeHasSessions
<1>0. ASSUME SessionsOK', row' \in RowType, home' \subseteq Cats,
             sheet' \in {"none", "tasks", "claimed"},
             claimed' \subseteq DailyKeys \cup {"bonus"}, ledger' \in [in : Nat, out : Nat]
      PROVE  TypeOK'
  BY <1>0 DEF TypeOK, SessionsOK, Holds, InFlight
<1>1. ASSUME NEW s \in Sessions, Load(s) PROVE TypeOK'
  BY <1>0, <1>1, LoadKeepsSessions DEF TypeOK, Load
<1>2. ASSUME NEW s \in Sessions, Leave(s) PROVE TypeOK'
  BY <1>0, <1>2, CloseKeepsSessions DEF TypeOK, Leave
<1>3. ASSUME NEW s \in Sessions, LockUnit(s) PROVE TypeOK'
  <2>1. LockFor(s, "unit", row) /\ row \in RowType
    BY <1>3 DEF LockUnit, Refreshed, TypeOK
  <2> QED BY <1>0, <2>1, LockKeepsSessions DEF TypeOK, LockFor
<1>4. ASSUME NEW s \in Sessions, NEW d \in Deltas, UnitOfWork(s, d) PROVE TypeOK'
  <2>1. row' \in RowType
    BY <1>4, UnitCommands, FlushType DEF UnitOfWork, TypeOK
  <2>2. ledger' \in [in : Nat, out : Nat]
    BY <1>4, UnitCommands
  <2> QED BY <1>0, <1>4, <2>1, <2>2, CloseKeepsSessions DEF TypeOK, UnitOfWork
<1>5. ASSUME NEW s \in Sessions, LockDirect(s) PROVE TypeOK'
  <2>1. LockFor(s, "direct", session[s].copy) /\ session[s].copy \in RowType
    BY <1>5 DEF LockDirect, LockFor, TypeOK, Idle
  <2> QED BY <1>0, <2>1, LockKeepsSessions DEF TypeOK, LockFor
<1>6. ASSUME NEW s \in Sessions, DirectCommand(s) PROVE TypeOK'
  <2>1. session[s].copy \in RowType /\ DirectEffect(s)
    BY <1>6, DirectCommands
  <2>2. PICK new \in RowType, coins \in Nat :
          Commit(s, new) /\ ledger' = [ledger EXCEPT !.in = @ + coins]
    BY <2>1 DEF DirectEffect
  <2>3. row' \in RowType
    BY <2>1, <2>2, FlushType DEF Commit, TypeOK
  <2>4. ledger' \in [in : Nat, out : Nat]
    BY <2>2 DEF TypeOK
  <2> QED BY <1>0, <2>1, <2>2, <2>3, <2>4, CloseKeepsSessions DEF DirectEffect, Commit
<1>7. ASSUME NEW s \in Sessions, OpenDaily(s) PROVE TypeOK'
  BY <1>0, <1>7, CloseKeepsSessions DEF TypeOK, OpenDaily
<1>8. CASE UNCHANGED vars
  BY <1>8 DEF vars, TypeOK
<1> QED BY <1>1, <1>2, <1>3, <1>4, <1>5, <1>6, <1>7, <1>8 DEF Next, NextUnit

\* Every request in flight has a copy of the row, and one at most its lock.
THEOREM TypeCorrect == Spec => []TypeOK
BY InitType, NextType, PTL DEF Spec

-----------------------------------------------------------------------------
(* Coins                                                                    *)

\* The copies that will be written back obey the bound as the row does.
CoinInv ==
  /\ BalanceNeverInflated
  /\ \A s \in Sessions : session[s].pc # "idle" =>
       session[s].copy.balance >= 0 /\ session[s].copy.balance <= StartBalance + ledger.in

LEMMA InitCoins == Init => CoinInv
BY PlayerAssumption DEF Init, CoinInv, BalanceNeverInflated, Idle

\* A step that writes a row within the bound, and copies from rows within it.
LEMMA CoinsKept ==
  ASSUME TypeOK, TypeOK', CoinInv, ledger'.in >= ledger.in,
         row'.balance >= 0, row'.balance <= StartBalance + ledger'.in,
         \A s \in Sessions : session'[s].pc # "idle" =>
            \/ session[s].pc # "idle" /\ session'[s].copy = session[s].copy
            \/ session'[s].copy = row
  PROVE  CoinInv'
<1>1. \A s \in Sessions : session[s].pc # "idle" => session[s].copy.balance \in Int
  BY DEF TypeOK, Idle, RowType
<1>2. /\ row.balance \in Int /\ row'.balance \in Int
      /\ ledger.in \in Int /\ ledger'.in \in Int /\ StartBalance \in Int
  BY PlayerAssumption DEF TypeOK, RowType
<1>3. ASSUME NEW s \in Sessions, session'[s].pc # "idle"
      PROVE  session'[s].copy.balance >= 0 /\ session'[s].copy.balance <= StartBalance + ledger'.in
  BY <1>1, <1>2, <1>3 DEF CoinInv, BalanceNeverInflated
<1> QED BY <1>3 DEF CoinInv, BalanceNeverInflated

\* The other sessions keep their copies when one ends.
LEMMA CloseKeepsCopies ==
  ASSUME TypeOK, NEW s \in Sessions, Close(s)
  PROVE  \A t \in Sessions : session'[t].pc # "idle" =>
            session[t].pc # "idle" /\ session'[t].copy = session[t].copy
BY DEF TypeOK, Close, Idle

\* What a direct command adds to its copy's coins, and that it changes one
\* other column at most.
LEMMA CommandRowCoins ==
  ASSUME NEW s \in Sessions, session[s].copy \in RowType, NEW new, NEW coins \in Nat,
         CommandRow(s, new, coins)
  PROVE  new.balance = session[s].copy.balance + coins
<1> DEFINE copy == session[s].copy
<1>0. copy \in RowType /\ copy.balance \in Int
  BY DEF RowType
<1>1. CASE coins = 0 /\ new = Advance(copy)
  BY <1>0, <1>1, CopyTypes
<1>2. ASSUME NEW c \in Cats, coins = 0, new = Advance([copy EXCEPT !.active = c])
      PROVE  new.balance = copy.balance + coins
  <2> DEFINE r == [copy EXCEPT !.active = c]
  <2>1. r \in RowType /\ r.balance = copy.balance
    BY <1>0 DEF RowType
  <2>2. Advance(r).balance = r.balance
    BY <2>1, CopyTypes
  <2> HIDE DEF r
  <2> QED BY <1>0, <1>2, <2>1, <2>2 DEF r
<1>3. ASSUME NEW k \in Keys, NEW v \in Values, coins = 0,
             new = Advance([copy EXCEPT !.settings = Merged(@, k, v)])
      PROVE  new.balance = copy.balance + coins
  <2> DEFINE r == [copy EXCEPT !.settings = Merged(@, k, v)]
  <2>1. r \in RowType
    BY <1>0, CopyTypes
  <2>2. r.balance = copy.balance
    BY <1>0 DEF RowType
  <2>3. Advance(r).balance = r.balance
    BY <2>1, CopyTypes
  <2> HIDE DEF r
  <2> QED BY <1>0, <1>3, <2>2, <2>3 DEF r
<1>4. CASE new = Advance(Paid(copy, coins)) \/ new = Paid(copy, coins)
  <2> HIDE DEF copy
  <2>0. coins \in Int
    OBVIOUS
  <2>1. /\ Advance(Paid(copy, coins)).balance = copy.balance + coins
        /\ Paid(copy, coins).balance = copy.balance + coins
    BY <1>0, <2>0, PaidTypes
  <2> QED BY <1>4, <2>1 DEF copy
<1> QED BY <1>1, <1>2, <1>3, <1>4 DEF CommandRow

LEMMA NextCoins == TypeOK /\ TypeOK' /\ CoinInv /\ [Next]_vars => CoinInv'
<1> SUFFICES ASSUME TypeOK, TypeOK', CoinInv, [Next]_vars PROVE CoinInv'
  OBVIOUS
<1>0. /\ ledger.in \in Int /\ row.balance >= 0 /\ row.balance <= StartBalance + ledger.in
      /\ ledger.in >= ledger.in
  BY DEF TypeOK, CoinInv, BalanceNeverInflated
<1>1. ASSUME NEW s \in Sessions, Load(s) PROVE CoinInv'
  <2>1. \A t \in Sessions : session'[t].pc # "idle" =>
           \/ session[t].pc # "idle" /\ session'[t].copy = session[t].copy
           \/ session'[t].copy = row
    BY <1>1 DEF Load, TypeOK
  <2> QED BY <1>0, <1>1, <2>1, CoinsKept DEF Load
<1>2. ASSUME NEW s \in Sessions, Leave(s) PROVE CoinInv'
  BY <1>0, <1>2, CloseKeepsCopies, CoinsKept DEF Leave
<1>3. ASSUME NEW s \in Sessions, LockUnit(s) \/ LockDirect(s) PROVE CoinInv'
  <2>1. \A t \in Sessions : session'[t].pc # "idle" =>
           \/ session[t].pc # "idle" /\ session'[t].copy = session[t].copy
           \/ session'[t].copy = row
    BY <1>3 DEF LockUnit, LockDirect, LockFor, Refreshed, TypeOK
  <2> QED BY <1>0, <1>3, <2>1, CoinsKept DEF LockUnit, LockDirect, LockFor
<1>4. ASSUME NEW s \in Sessions, NEW d \in Deltas, UnitOfWork(s, d) PROVE CoinInv'
  <2> DEFINE copy == session[s].copy
             new == Advance(Paid(copy, d))
  <2>1. /\ copy \in RowType /\ d \in Int /\ new \in RowType
        /\ ledger'.in >= ledger.in /\ (d >= 0 => ledger'.in = ledger.in + d)
        /\ ledger'.in \in Int
    BY <1>4, UnitCommands
  <2>2. new.balance = copy.balance + d
    BY <2>1, PaidTypes
  <2>3. copy.balance >= 0 /\ copy.balance <= StartBalance + ledger.in
    BY <1>4 DEF UnitOfWork, CoinInv
  <2>4. /\ copy.balance \in Int /\ row.balance \in Int
        /\ ledger.in \in Int /\ StartBalance \in Int
    BY <2>1, PlayerAssumption DEF TypeOK, RowType
  <2>5. new.balance >= 0 /\ new.balance <= StartBalance + ledger'.in
    BY <1>4, <2>1, <2>2, <2>3, <2>4 DEF UnitOfWork
  <2>6. row'.balance = new.balance \/ row'.balance = row.balance
    BY <1>4, <2>1, FlushType DEF UnitOfWork, TypeOK, Columns
  <2> HIDE DEF new, copy
  <2>7. row'.balance >= 0 /\ row'.balance <= StartBalance + ledger'.in
    BY <1>0, <2>1, <2>4, <2>5, <2>6
  <2> QED BY <1>4, <2>1, <2>7, CloseKeepsCopies, CoinsKept DEF UnitOfWork
<1>5. ASSUME NEW s \in Sessions, DirectCommand(s) PROVE CoinInv'
  <2> DEFINE copy == session[s].copy
  <2>1. copy \in RowType /\ session[s].pc = "direct" /\ DirectEffect(s)
    BY <1>5, DirectCommands
  <2>2. PICK new \in RowType, coins \in Nat :
          /\ CommandRow(s, new, coins)
          /\ Commit(s, new)
          /\ ledger' = [ledger EXCEPT !.in = @ + coins]
    BY <2>1 DEF DirectEffect
  <2>3. new.balance = copy.balance + coins
    BY <2>1, <2>2, CommandRowCoins
  <2>4. copy.balance >= 0 /\ copy.balance <= StartBalance + ledger.in
    BY <2>1 DEF CoinInv
  <2>5. ledger'.in = ledger.in + coins
    BY <2>2 DEF TypeOK
  <2>6. row'.balance = new.balance \/ row'.balance = row.balance
    BY <2>1, <2>2, FlushType DEF Commit, TypeOK, Columns
  <2>7. /\ copy.balance \in Int /\ row.balance \in Int
        /\ ledger.in \in Int /\ StartBalance \in Int
    BY <2>1, PlayerAssumption DEF TypeOK, RowType
  <2> HIDE DEF copy
  <2>8. /\ row'.balance >= 0 /\ row'.balance <= StartBalance + ledger'.in
        /\ ledger'.in >= ledger.in
    BY <1>0, <2>2, <2>3, <2>4, <2>5, <2>6, <2>7
  <2> QED BY <2>2, <2>8, CloseKeepsCopies, CoinsKept DEF Commit
<1>6. ASSUME NEW s \in Sessions, OpenDaily(s) PROVE CoinInv'
  BY <1>0, <1>6, CloseKeepsCopies, CoinsKept DEF OpenDaily
<1>7. CASE UNCHANGED vars
  BY <1>7 DEF vars, CoinInv, BalanceNeverInflated
<1> QED BY <1>1, <1>2, <1>3, <1>4, <1>5, <1>6, <1>7 DEF Next, NextUnit

\* Stale copies may lose coins or bring spent ones back, but never make a
\* player richer than every reward recorded, nor the balance negative.
THEOREM CoinsAreBounded == Spec => []BalanceNeverInflated
<1>1. TypeOK /\ CoinInv /\ [Next]_vars => (TypeOK /\ CoinInv)'
  BY NextType, NextCoins
<1>2. CoinInv => BalanceNeverInflated
  BY DEF CoinInv
<1> QED BY <1>1, <1>2, InitType, InitCoins, PTL DEF Spec

-----------------------------------------------------------------------------
(* Unit-of-work commands                                                    *)

\* The copy refreshed under the lock stays the row until the lock is given up.
FreshInv ==
  /\ BalanceIsExact
  /\ \A s \in Sessions : session[s].pc = "unit" => session[s].copy = row

LEMMA NextFresh ==
  ASSUME TypeOK, TypeOK', FreshInv, [NextUnit]_vars
  PROVE  FreshInv' /\ (row' # row => row'.version > row.version)
<1> DEFINE Goal == FreshInv' /\ (row' # row => row'.version > row.version)
<1>1. ASSUME NEW s \in Sessions, Load(s) \/ Leave(s) \/ LockUnit(s) PROVE Goal
  <2>1. row' = row /\ ledger' = ledger
    BY <1>1 DEF Load, Leave, LockUnit, LockFor
  <2>2. \A t \in Sessions : session'[t].pc = "unit" => session'[t].copy = row
    BY <1>1 DEF Load, Leave, LockUnit, LockFor, Refreshed, Close, Idle, TypeOK, FreshInv
  <2> QED BY <2>1, <2>2 DEF FreshInv, BalanceIsExact
<1>2. ASSUME NEW s \in Sessions, NEW d \in Deltas, UnitOfWork(s, d) PROVE Goal
  <2> DEFINE new == Advance(Paid(row, d))
  <2>1. session[s].copy = row /\ session[s].pc = "unit"
    BY <1>2 DEF UnitOfWork, FreshInv
  <2>2. /\ row \in RowType /\ d \in Int /\ new \in RowType
        /\ ledger'.in - ledger'.out = ledger.in - ledger.out + d
    BY <1>2, <2>1, UnitCommands
  <2>3. new.balance = row.balance + d /\ new.version = row.version + 1
    BY <2>2, PaidTypes
  <2>4. Flush(row, new)
    BY <1>2, <2>1 DEF UnitOfWork
  <2>5. row'.balance = new.balance /\ row'.version = new.version
    BY <2>2, <2>4, FlushType DEF Columns
  <2>6. \A t \in Sessions : session'[t].pc # "unit"
    BY <1>2, <2>1 DEF UnitOfWork, Close, Idle, TypeOK
  <2>7. row.balance \in Int /\ row.version \in Int /\ StartBalance \in Int
    BY <2>2, PlayerAssumption DEF RowType
  <2>8. /\ ledger.in \in Int /\ ledger.out \in Int
        /\ ledger'.in \in Int /\ ledger'.out \in Int
    BY DEF TypeOK
  <2> HIDE DEF new
  <2>9. row.balance = StartBalance + ledger.in - ledger.out
    BY DEF FreshInv, BalanceIsExact
  <2>10. row'.balance = StartBalance + ledger'.in - ledger'.out
    BY <2>2, <2>3, <2>5, <2>7, <2>8, <2>9
  <2> QED BY <2>3, <2>5, <2>6, <2>7, <2>10 DEF FreshInv, BalanceIsExact
<1>3. CASE UNCHANGED vars
  BY <1>3 DEF vars, FreshInv, BalanceIsExact
<1> QED BY <1>1, <1>2, <1>3 DEF NextUnit

LEMMA UnitInvariant == SpecUnit => [](TypeOK /\ FreshInv)
<1>1. Init => TypeOK /\ FreshInv
  <2> SUFFICES ASSUME Init PROVE FreshInv
    BY InitType
  <2>1. row.balance = StartBalance /\ ledger.in = 0 /\ ledger.out = 0
    BY DEF Init
  <2>2. BalanceIsExact
    BY <2>1, PlayerAssumption DEF BalanceIsExact
  <2> QED BY <2>2 DEF Init, FreshInv, Idle
<1>2. [NextUnit]_vars => [Next]_vars
  BY DEF Next
<1>3. TypeOK /\ FreshInv /\ [NextUnit]_vars => (TypeOK /\ FreshInv)'
  BY <1>2, NextType, NextFresh
<1> QED BY <1>1, <1>3, PTL DEF SpecUnit

\* Unit-of-work commands alone keep the balance equal to the ledgers, however
\* they interleave.
THEOREM UnitsKeepBalance == SpecUnit => []BalanceIsExact
<1>1. FreshInv => BalanceIsExact
  BY DEF FreshInv
<1> QED BY <1>1, UnitInvariant, PTL

\* Every change a unit-of-work command makes raises the state version.
THEOREM UnitsAdvanceVersion == SpecUnit => VersionAdvances
<1>1. [NextUnit]_vars => [Next]_vars
  BY DEF Next
<1>2. TypeOK /\ FreshInv /\ [NextUnit]_vars => [row' # row => row'.version > row.version]_vars
  BY <1>1, NextType, NextFresh
<1> QED BY <1>2, UnitInvariant, PTL DEF SpecUnit, VersionAdvances

-----------------------------------------------------------------------------
(* The reach of a stale copy                                                *)

\* The columns other than the version that differ between two rows.
OneColumn(old, new) ==
  \A a, b \in {"balance", "settings", "active"} :
    new[a] # old[a] /\ new[b] # old[b] => a = b

LEMMA FlushOneColumn ==
  ASSUME row \in RowType, NEW old \in RowType, NEW new \in RowType, Flush(old, new),
         OneColumn(old, new)
  PROVE  OneColumn(row, row')
<1>1. \A a \in {"balance", "settings", "active"} : row'[a] # row[a] => new[a] # old[a]
  BY FlushType DEF Columns
<1> QED BY <1>1 DEF OneColumn

LEMMA CommandRowColumn ==
  ASSUME NEW s \in Sessions, session[s].copy \in RowType, NEW new, NEW coins \in Nat,
         CommandRow(s, new, coins)
  PROVE  OneColumn(session[s].copy, new)
<1> DEFINE copy == session[s].copy
<1>0. copy \in RowType
  OBVIOUS
<1>1. CASE coins = 0 /\ new = Advance(copy)
  BY <1>0, <1>1, CopyTypes DEF OneColumn
<1>2. ASSUME NEW c \in Cats, new = Advance([copy EXCEPT !.active = c])
      PROVE  OneColumn(copy, new)
  <2> DEFINE r == [copy EXCEPT !.active = c]
  <2>1. r \in RowType /\ r.balance = copy.balance /\ r.settings = copy.settings
    BY <1>0 DEF RowType
  <2> HIDE DEF r
  <2>2. new.balance = copy.balance /\ new.settings = copy.settings
    BY <1>2, <2>1, CopyTypes DEF r
  <2> QED BY <2>2 DEF OneColumn
<1>3. ASSUME NEW k \in Keys, NEW v \in Values,
             new = Advance([copy EXCEPT !.settings = Merged(@, k, v)])
      PROVE  OneColumn(copy, new)
  <2> DEFINE r == [copy EXCEPT !.settings = Merged(@, k, v)]
  <2>1. r \in RowType
    BY <1>0, CopyTypes
  <2>2. r.balance = copy.balance /\ r.active = copy.active
    BY <1>0 DEF RowType
  <2>3. Advance(r).balance = r.balance /\ Advance(r).active = r.active
    BY <2>1, CopyTypes
  <2> HIDE DEF r
  <2>4. new.balance = copy.balance /\ new.active = copy.active
    BY <1>3, <2>2, <2>3 DEF r
  <2> QED BY <2>4 DEF OneColumn
<1>4. CASE new = Advance(Paid(copy, coins)) \/ new = Paid(copy, coins)
  <2>1. /\ Paid(copy, coins).settings = copy.settings
        /\ Paid(copy, coins).active = copy.active
        /\ Advance(Paid(copy, coins)).settings = copy.settings
        /\ Advance(Paid(copy, coins)).active = copy.active
    BY <1>0, PaidTypes
  <2>2. new.settings = copy.settings /\ new.active = copy.active
    BY <1>4, <2>1
  <2> QED BY <2>2 DEF OneColumn
<1> QED BY <1>1, <1>2, <1>3, <1>4 DEF CommandRow

LEMMA NextOneColumn == TypeOK /\ [Next]_vars => OneColumn(row, row') \/ UNCHANGED vars
<1> SUFFICES ASSUME TypeOK, Next PROVE OneColumn(row, row')
  OBVIOUS
<1>1. ASSUME row' = row PROVE OneColumn(row, row')
  BY <1>1 DEF OneColumn
<1>2. ASSUME NEW s \in Sessions, NEW d \in Deltas, UnitOfWork(s, d)
      PROVE  OneColumn(row, row')
  <2> DEFINE copy == session[s].copy
             new == Advance(Paid(copy, d))
  <2>1. copy \in RowType /\ d \in Int /\ new \in RowType
    BY <1>2, UnitCommands
  <2>2. new.settings = copy.settings /\ new.active = copy.active
    BY <2>1, PaidTypes
  <2>3. OneColumn(copy, new)
    BY <2>2 DEF OneColumn
  <2>4. Flush(copy, new)
    BY <1>2 DEF UnitOfWork
  <2> HIDE DEF new, copy
  <2> QED BY <2>1, <2>3, <2>4, FlushOneColumn DEF TypeOK
<1>3. ASSUME NEW s \in Sessions, DirectCommand(s) PROVE OneColumn(row, row')
  <2>1. session[s].copy \in RowType /\ DirectEffect(s)
    BY <1>3, DirectCommands
  <2>2. PICK new \in RowType, coins \in Nat : CommandRow(s, new, coins) /\ Commit(s, new)
    BY <2>1 DEF DirectEffect
  <2>3. OneColumn(session[s].copy, new)
    BY <2>1, <2>2, CommandRowColumn
  <2> QED BY <2>1, <2>2, <2>3, FlushOneColumn DEF Commit, TypeOK
<1> QED BY <1>1, <1>2, <1>3
     DEF Next, NextUnit, Load, Leave, LockUnit, LockDirect, LockFor, OpenDaily

\* However stale its copy, a request reaches one column besides the version.
THEOREM StaleCopiesReachOneColumn == Spec => OneColumnAtATime
<1>1. TypeOK /\ [Next]_vars =>
        [\A a, b \in {"balance", "settings", "active"} :
           row'[a] # row[a] /\ row'[b] # row[b] => a = b]_vars
  BY NextOneColumn DEF OneColumn
<1> QED BY <1>1, TypeCorrect, PTL DEF Spec, OneColumnAtATime

-----------------------------------------------------------------------------
(* What a command does with a fresh copy                                    *)

\* A command that keeps its copy's settings keeps the row's.
LEMMA FlushSettings ==
  ASSUME row \in RowType, NEW old \in RowType, NEW new \in RowType, Flush(old, new),
         new.settings = old.settings
  PROVE  row'.settings = row.settings
BY FlushType DEF Columns

LEMMA NextSettings ==
  ASSUME TypeOK, FreshWriters, [Next]_vars
  PROVE  \/ row'.settings = row.settings
         \/ \E k \in Keys, v \in Values : row'.settings = [row.settings EXCEPT ![k] = v]
<1> DEFINE Goal == \/ row'.settings = row.settings
                   \/ \E k \in Keys, v \in Values : row'.settings = [row.settings EXCEPT ![k] = v]
<1>1. ASSUME row' = row PROVE Goal
  BY <1>1
<1>2. ASSUME NEW s \in Sessions, NEW d \in Deltas, UnitOfWork(s, d) PROVE Goal
  <2>1. PICK copy, new : copy = session[s].copy /\ new = Advance(Paid(copy, d))
    OBVIOUS
  <2>2. copy \in RowType /\ d \in Int /\ new \in RowType
    BY <1>2, <2>1, UnitCommands
  <2>3. new.settings = copy.settings
    BY <2>1, <2>2, PaidTypes
  <2>4. Flush(copy, new)
    BY <1>2, <2>1 DEF UnitOfWork
  <2>5. row'.settings = row.settings
    BY <2>2, <2>3, <2>4, FlushSettings DEF TypeOK
  <2> QED BY <2>5
<1>3. ASSUME NEW s \in Sessions, DirectCommand(s) PROVE Goal
  <2>1. session[s].copy = row /\ row \in RowType /\ DirectEffect(s)
    BY <1>3, DirectCommands DEF FreshWriters
  <2>2. PICK new \in RowType, coins \in Nat : CommandRow(s, new, coins) /\ Flush(row, new)
    BY <2>1 DEF DirectEffect, Commit
  <2>3. CASE new = Advance(row) \/ new = Advance(Paid(row, coins)) \/ new = Paid(row, coins)
    <3>1. Advance(row).settings = row.settings
      BY <2>1, CopyTypes
    <3>2. /\ Advance(Paid(row, coins)).settings = row.settings
          /\ Paid(row, coins).settings = row.settings
      BY <2>1, PaidTypes
    <3>3. new.settings = row.settings
      BY <2>3, <3>1, <3>2
    <3> QED BY <2>1, <2>2, <3>3, FlushSettings
  <2>4. ASSUME NEW c \in Cats, new = Advance([row EXCEPT !.active = c]) PROVE Goal
    <3>1. PICK r : r = [row EXCEPT !.active = c]
      OBVIOUS
    <3>2. r \in RowType /\ r.settings = row.settings
      BY <2>1, <3>1 DEF RowType
    <3>3. new.settings = row.settings
      BY <2>4, <3>1, <3>2, CopyTypes
    <3> QED BY <2>1, <2>2, <3>3, FlushSettings
  <2>5. ASSUME NEW k \in Keys, NEW v \in Values,
               new = Advance([row EXCEPT !.settings = Merged(@, k, v)])
        PROVE  Goal
    <3>1. PICK r : r = [row EXCEPT !.settings = Merged(@, k, v)]
      OBVIOUS
    <3>2. r \in RowType /\ r.settings = [row.settings EXCEPT ![k] = v]
      BY <2>1, <3>1, CopyTypes DEF RowType, Merged
    <3>3. new.settings = [row.settings EXCEPT ![k] = v]
      BY <2>5, <3>1, <3>2, CopyTypes
    <3>4. row'.settings = new.settings \/ row'.settings = row.settings
      BY <2>1, <2>2, FlushType DEF Columns
    <3> QED BY <3>3, <3>4
  <2> QED BY <2>1, <2>2, <2>3, <2>4, <2>5 DEF CommandRow
<1> QED BY <1>1, <1>2, <1>3
     DEF Next, NextUnit, Load, Leave, LockUnit, LockDirect, LockFor, OpenDaily, vars

\* A patch saved from a fresh copy changes one setting.
THEOREM FreshPatchesMerge == Spec => SettingsMerge
<1>1. ASSUME TypeOK, [Next]_vars, FreshWriters, NEW j \in Keys, NEW k \in Keys,
             row'.settings[j] # row.settings[j], row'.settings[k] # row.settings[k]
      PROVE  j = k
  <2>1. row.settings \in [Keys -> Values]
    BY <1>1 DEF TypeOK, RowType
  <2>2. PICK i \in Keys, v \in Values : row'.settings = [row.settings EXCEPT ![i] = v]
    BY <1>1, NextSettings
  <2> QED BY <1>1, <2>1, <2>2
<1>2. TypeOK /\ [Next]_vars =>
        [FreshWriters => \A j, k \in Keys :
           row'.settings[j] # row.settings[j] /\ row'.settings[k] # row.settings[k] => j = k]_vars
  BY <1>1
<1> QED BY <1>2, TypeCorrect, PTL DEF Spec, SettingsMerge

\* Only the command that hides a cat takes one from home.
LEMMA NextHome ==
  ASSUME [Next]_vars
  PROVE  \/ home \subseteq home'
         \/ \E s \in Sessions, c \in Cats : session[s].pc = "direct" /\ SetCatHome(s, c, FALSE)
<1>1. ASSUME NEW s \in Sessions, DirectCommand(s)
      PROVE  \/ home \subseteq home'
             \/ \E c \in Cats : session[s].pc = "direct" /\ SetCatHome(s, c, FALSE)
  <2>1. ASSUME NEW c \in Cats, SetCatHome(s, c, TRUE) PROVE home \subseteq home'
    BY <2>1 DEF SetCatHome
  <2> QED BY <1>1, <2>1 DEF DirectCommand, OtherCommand, SelectActiveCat, UpdateGameSettings,
                            ClaimAttendance, ClaimDailyReward, ClaimMissionReward
<1> QED BY <1>1
     DEF Next, NextUnit, Load, Leave, LockUnit, LockDirect, LockFor, OpenDaily, UnitOfWork, vars

\* When the active cat is hidden from a fresh copy, another one at home
\* becomes active if there is one.
THEOREM ActiveCatIsReplaced == Spec => HiddenCatIsReplaced
<1>1. ASSUME TypeOK, [Next]_vars, FreshWriters, row.active \in home \ home', home' # {}
      PROVE  row'.active \in home'
  <2>1. PICK s \in Sessions, c \in Cats : session[s].pc = "direct" /\ SetCatHome(s, c, FALSE)
    BY <1>1, NextHome
  <2>2. home' = home \ {c} /\ row.active = c /\ session[s].copy = row /\ row \in RowType
    BY <1>1, <2>1 DEF SetCatHome, FreshWriters, TypeOK
  <2>3. Replacements(s, c) = home'
    BY <2>2 DEF Replacements
  <2>4. PICK q \in home' : Commit(s, Advance([row EXCEPT !.active = q]))
    BY <1>1, <2>1, <2>2, <2>3 DEF SetCatHome
  <2>5. PICK r, new : r = [row EXCEPT !.active = q] /\ new = Advance(r)
    OBVIOUS
  <2>6. r \in RowType /\ r.active = q
    BY <1>1, <2>2, <2>4, <2>5 DEF RowType, TypeOK
  <2>7. new \in RowType /\ new.active = q
    BY <2>5, <2>6, CopyTypes
  <2>8. Flush(row, new)
    BY <2>2, <2>4, <2>5 DEF Commit
  <2>9. row'.active = IF new.active # row.active THEN new.active ELSE row.active
    BY <2>2, <2>7, <2>8, FlushType DEF Columns
  <2> QED BY <2>2, <2>7, <2>9
<1>2. TypeOK /\ [Next]_vars =>
        [FreshWriters /\ row.active \in home \ home' /\ home' # {} => row'.active \in home']_vars
  BY <1>1
<1> QED BY <1>2, TypeCorrect, PTL DEF Spec, HiddenCatIsReplaced
=============================================================================
