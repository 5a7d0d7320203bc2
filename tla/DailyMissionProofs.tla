------------------------- MODULE DailyMissionProofs -------------------------
(*****************************************************************************)
(* Proofs about DailyMission: the type invariant with its locks, sheets that *)
(* can be paid, streaks that are never inflated, and the day book that the   *)
(* attendances implement.                                                    *)
(*****************************************************************************)
EXTENDS DailyMission, WellFoundedInduction, TLAPS

\* The records of a request in flight.
Tx == TxType \cup {NotOpen}

\* How far a request of each kind may be, and what it may count on by then: a
\* row it has locked is there, and one it is about to pay is not paid.
PhaseOK(s) ==
  /\ tx[s].kind = "none" => tx[s] = NotOpen
  /\ tx[s].kind = "open" => tx[s].row = 0 /\ tx[s].pc \in {"read", "insert", "share", "upgrade"}
  /\ tx[s].kind = "attend" => tx[s].pc \in {"lock", "latest", "insert"}
  /\ tx[s].kind = "reward" => tx[s].pc \in {"row", "pay"} /\ sheet[tx[s].day] # NoSheet
  /\ tx[s].row # 0 => sheet[tx[s].row] # NoSheet
  /\ tx[s].pc = "pay" => tx[s].row = tx[s].day /\ ~sheet[tx[s].day].claimed

\* A streak of n about to be written at day d stands on the row before it.
Stands(d, n) == n > 1 => d > 1 /\ sheet[d - 1] # NoSheet /\ sheet[d - 1].streak = n - 1

\* The streak a request is about to write.
StreakOK(s) ==
  tx[s].pc \in {"insert", "share", "upgrade"} =>
    tx[s].streak > 0 /\ Stands(tx[s].day, tx[s].streak)

-----------------------------------------------------------------------------
(* Sheets                                                                    *)

LEMMA NoSheetIsNone == NoSheet \notin SheetType
BY DailyAssumption DEF SheetType

\* A new sheet is a sheet.
LEMMA NewSheetType ==
  ASSUME NEW s \in Sessions, tx[s].streak \in Nat, tx[s].streak > 0,
         NEW claimed \in BOOLEAN, NEW n \in Nat
  PROVE  NewSheet(s, claimed, n) \in SheetType
BY DEF NewSheet, SheetType

\* The latest row exists if any row does.
LEMMA LatestIsThere ==
  /\ Latest \in Dates \cup {0}
  /\ Latest # 0 => sheet[Latest] # NoSheet
<1> DEFINE After == {LastDate - d : d \in {e \in Dates : sheet[e] # NoSheet}}
           Less == {p \in Nat \X Nat : p[1] < p[2]}
<1>1. CASE \A d \in Dates : sheet[d] = NoSheet
  BY <1>1 DEF Latest
<1>2. CASE \E d \in Dates : sheet[d] # NoSheet
  <2>1. After \subseteq Nat /\ After # {}
    BY <1>2, DailyAssumption DEF Dates
  <2>2. IsWellFoundedOn(Less, Nat)
    BY NatLessThanWellFounded DEF OpToRel
  <2>3. PICK n \in After : \A m \in After : <<m, n>> \notin Less
    <3> HIDE DEF After, Less
    <3> QED BY <2>1, <2>2, WFMin
  <2>4. PICK d \in Dates : sheet[d] # NoSheet /\ n = LastDate - d
    OBVIOUS
  <2>5. \A e \in Dates : sheet[e] # NoSheet => e <= d
    <3> SUFFICES ASSUME NEW e \in Dates, sheet[e] # NoSheet
                 PROVE  e <= d
      OBVIOUS
    <3>1. LastDate - e \in After /\ <<LastDate - e, n>> \notin Less
      BY <2>3
    <3> QED BY <3>1, <2>1, <2>4, DailyAssumption DEF Dates
  <2> QED BY <2>4, <2>5 DEF Latest
<1> QED BY <1>1, <1>2

-----------------------------------------------------------------------------
(* Requests                                                                  *)

\* Two requests never hold the same lock.
Apart(s, t) ==
  /\ ~(HoldsPlayer(s) /\ HoldsPlayer(t))
  /\ ~(HoldsPlayer(s) /\ SharesPlayer(t))
  /\ ~(HoldsRow(s) /\ tx[s].row = tx[t].row)
  /\ ~(HoldsDay(s) /\ HoldsDay(t) /\ tx[s].day = tx[t].day)

\* What is said of a request alone.
RequestOK(s) ==
  /\ tx[s] \in Tx
  /\ PhaseOK(s)
  /\ StreakOK(s)
  /\ HoldsDay(s) => sheet[tx[s].day] = NoSheet

\* The inductive invariant: what is said of each request, of two of them and
\* of the sheets.
DailyInv ==
  /\ sheet \in [Dates -> SheetType \cup {NoSheet}]
  /\ today \in Dates
  /\ coins \in Nat
  /\ tx \in [Sessions -> Tx]
  /\ \A s \in Sessions : RequestOK(s)
  /\ \A s, t \in Sessions : s # t => Apart(s, t)
  /\ SheetsCanBePaid
  /\ StreakNeverInflated

LEMMA InvImpliesTypeOK == DailyInv => DailyTypeOK
BY DEF DailyInv, DailyTypeOK, Tx, RequestOK, Apart

\* The record of a request that begins.
Begun(k, p, d) == [NotOpen EXCEPT !.kind = k, !.pc = p, !.day = d]

LEMMA BeginRecord ==
  ASSUME NEW k \in {"open", "attend", "reward"}, NEW p \in {"read", "lock", "row"}, NEW d \in Dates
  PROVE  /\ Begun(k, p, d) \in TxType
         /\ Begun(k, p, d).kind = k /\ Begun(k, p, d).pc = p /\ Begun(k, p, d).day = d
         /\ Begun(k, p, d).streak = 0 /\ Begun(k, p, d).row = 0
BY DEF Begun, NotOpen, TxType

\* The fields of a record in flight have their types, whoever it is.
LEMMA TxFields ==
  ASSUME NEW r \in Tx
  PROVE  /\ r.kind \in {"none", "open", "attend", "reward"}
         /\ r.streak \in Nat
         /\ r.row \in Dates \cup {0}
         /\ r.kind = "none" <=> r = NotOpen
         /\ r.kind # "none" => r \in TxType /\ r.day \in Dates
         /\ r = NotOpen => r.pc = "idle" /\ r.row = 0 /\ r.kind = "none"
BY DEF Tx, TxType, NotOpen

\* A step of one request that leaves the sheets alone keeps the invariant if
\* its own record is right and holds no lock that another one holds.
LEMMA MoveKeepsInv ==
  ASSUME DailyInv, NEW s \in Sessions, NEW r \in Tx,
         tx' = [tx EXCEPT ![s] = r], UNCHANGED <<sheet, today, coins>>,
         RequestOK(s)',
         \A t \in Sessions \ {s} : Apart(s, t)' /\ Apart(t, s)'
  PROVE  DailyInv'
<1>1. tx \in [Sessions -> Tx] /\ tx' \in [Sessions -> Tx]
  BY DEF DailyInv
<1>2. \A t \in Sessions \ {s} : tx'[t] = tx[t]
  BY <1>1
<1>3. \A t \in Sessions : RequestOK(t)'
  <2> SUFFICES ASSUME NEW t \in Sessions \ {s}
               PROVE  RequestOK(t)'
    OBVIOUS
  <2>1. RequestOK(t)
    BY DEF DailyInv
  <2> QED BY <2>1, <1>2 DEF RequestOK, PhaseOK, StreakOK, Stands, HoldsDay
<1>4. \A t, u \in Sessions : t # u => Apart(t, u)'
  <2> SUFFICES ASSUME NEW t \in Sessions \ {s}, NEW u \in Sessions \ {s}, t # u
               PROVE  Apart(t, u)'
    OBVIOUS
  <2>1. Apart(t, u)
    BY DEF DailyInv
  <2> QED BY <2>1, <1>2 DEF Apart, HoldsPlayer, SharesPlayer, HoldsRow, HoldsDay
<1>5. SheetsCanBePaid' /\ StreakNeverInflated'
  BY DEF DailyInv, SheetsCanBePaid, StreakNeverInflated
<1> QED BY <1>1, <1>3, <1>4, <1>5 DEF DailyInv

\* A request that ends gives its locks back.
LEMMA ClosedIsOK ==
  ASSUME DailyInv, NEW s \in Sessions, End(s)
  PROVE  /\ RequestOK(s)'
         /\ \A t \in Sessions \ {s} : Apart(s, t)' /\ Apart(t, s)'
<1>1. tx \in [Sessions -> Tx]
  BY DEF DailyInv
<1>2. tx'[s] = NotOpen /\ \A t \in Sessions \ {s} : tx'[t] = tx[t]
  BY <1>1 DEF End
<1>3. RequestOK(s)'
  BY <1>2 DEF RequestOK, PhaseOK, StreakOK, HoldsDay, NotOpen, Tx
<1> QED BY <1>2, <1>3 DEF Apart, HoldsPlayer, SharesPlayer, HoldsRow, HoldsDay, NotOpen

LEMMA EndKeepsInv ==
  ASSUME DailyInv, NEW s \in Sessions, End(s), UNCHANGED <<sheet, today, coins>>
  PROVE  DailyInv'
BY ClosedIsOK, MoveKeepsInv DEF End, Tx

\* A request that moves on without a lock it did not have.
Acquires(s) ==
  \/ HoldsPlayer(s)' /\ ~HoldsPlayer(s)
  \/ SharesPlayer(s)' /\ ~SharesPlayer(s)
  \/ HoldsRow(s)' /\ tx'[s].row # tx[s].row
  \/ HoldsDay(s)' /\ ~(HoldsDay(s) /\ tx'[s].day = tx[s].day)

LEMMA NothingAcquired ==
  ASSUME DailyInv, NEW s \in Sessions, ~Acquires(s),
         \A t \in Sessions \ {s} : tx'[t] = tx[t]
  PROVE  \A t \in Sessions \ {s} : Apart(s, t)' /\ Apart(t, s)'
<1> SUFFICES ASSUME NEW t \in Sessions \ {s}
             PROVE  Apart(s, t)' /\ Apart(t, s)'
  OBVIOUS
<1>1. Apart(s, t) /\ Apart(t, s)
  BY DEF DailyInv
<1> QED BY <1>1 DEF Acquires, Apart, HoldsPlayer, SharesPlayer, HoldsRow, HoldsDay

\* The steps that take no lock.
LEMMA FreeStepsKeepInv ==
  ASSUME DailyInv, NEW s \in Sessions,
         \/ BeginOpen(s) \/ BeginAttend(s) \/ \E d \in Dates : BeginReward(s, d)
         \/ FindSheet(s)
  PROVE  DailyInv'
<1>1. tx \in [Sessions -> Tx] /\ RequestOK(s) /\ today \in Dates
      /\ sheet \in [Dates -> SheetType \cup {NoSheet}]
  BY DEF DailyInv
<1>2. CASE BeginOpen(s)
  <2> DEFINE r == Begun("open", "read", today)
  <2>1. tx' = [tx EXCEPT ![s] = r] /\ UNCHANGED <<sheet, today, coins>>
    BY <1>2 DEF BeginOpen, Begun
  <2>2. r \in TxType /\ r.kind = "open" /\ r.pc = "read" /\ r.row = 0 /\ r.day = today
    BY <1>1, BeginRecord
  <2> HIDE DEF r
  <2>3. RequestOK(s)'
    BY <1>1, <2>1, <2>2 DEF RequestOK, PhaseOK, StreakOK, HoldsDay, Tx
  <2>4. ~Acquires(s)
    BY <1>1, <2>1, <2>2 DEF Acquires, HoldsPlayer, SharesPlayer, HoldsRow, HoldsDay
  <2> QED BY <1>1, <2>1, <2>2, <2>3, <2>4, NothingAcquired, MoveKeepsInv DEF Tx
<1>3. CASE BeginAttend(s)
  <2> DEFINE r == Begun("attend", "lock", today)
  <2>1. tx' = [tx EXCEPT ![s] = r] /\ UNCHANGED <<sheet, today, coins>>
    BY <1>3 DEF BeginAttend, Begun
  <2>2. r \in TxType /\ r.kind = "attend" /\ r.pc = "lock" /\ r.row = 0 /\ r.day = today
    BY <1>1, BeginRecord
  <2> HIDE DEF r
  <2>3. RequestOK(s)'
    BY <1>1, <2>1, <2>2 DEF RequestOK, PhaseOK, StreakOK, HoldsDay, Tx
  <2>4. ~Acquires(s)
    BY <1>1, <2>1, <2>2 DEF Acquires, HoldsPlayer, SharesPlayer, HoldsRow, HoldsDay
  <2> QED BY <1>1, <2>1, <2>2, <2>3, <2>4, NothingAcquired, MoveKeepsInv DEF Tx
<1>4. ASSUME NEW d \in Dates, BeginReward(s, d)
      PROVE  DailyInv'
  <2> DEFINE r == Begun("reward", "row", d)
  <2>1. tx' = [tx EXCEPT ![s] = r] /\ UNCHANGED <<sheet, today, coins>> /\ sheet[d] # NoSheet
    BY <1>4 DEF BeginReward, Begun
  <2>2. r \in TxType /\ r.kind = "reward" /\ r.pc = "row" /\ r.row = 0 /\ r.day = d
    BY <1>1, BeginRecord
  <2> HIDE DEF r
  <2>3. RequestOK(s)'
    BY <1>1, <2>1, <2>2 DEF RequestOK, PhaseOK, StreakOK, HoldsDay, Tx
  <2>4. ~Acquires(s)
    BY <1>1, <2>1, <2>2 DEF Acquires, HoldsPlayer, SharesPlayer, HoldsRow, HoldsDay
  <2> QED BY <1>1, <2>1, <2>2, <2>3, <2>4, NothingAcquired, MoveKeepsInv DEF Tx
<1>5. CASE FindSheet(s)
  <2> DEFINE d == tx[s].day
             n == IF d > 1 /\ sheet[d - 1] # NoSheet THEN sheet[d - 1].streak + 1 ELSE 1
             r == [tx[s] EXCEPT !.pc = "insert", !.streak = n]
  <2>1. CASE sheet[d] # NoSheet
    BY <1>5, <2>1, EndKeepsInv DEF FindSheet
  <2>2. CASE sheet[d] = NoSheet
    <3>1. tx[s] \in TxType /\ tx[s].kind = "open" /\ tx[s].row = 0 /\ d \in Dates
      BY <1>1, <1>5, TxFields DEF FindSheet, RequestOK, PhaseOK
    <3>2. n \in Nat /\ n > 0 /\ Stands(d, n)
      BY <1>1, <3>1, NoSheetIsNone, DailyAssumption DEF Stands, Dates, SheetType
    <3>3. tx' = [tx EXCEPT ![s] = r]
      BY <1>1, <1>5, <2>2 DEF FindSheet
    <3>4. r \in TxType /\ r.kind = "open" /\ r.pc = "insert" /\ r.row = 0 /\ r.day = d /\ r.streak = n
      BY <3>1, <3>2 DEF TxType
    <3>5. UNCHANGED <<sheet, today, coins>>
      BY <1>5 DEF FindSheet
    <3> HIDE DEF n, r
    <3>6. RequestOK(s)'
      BY <1>1, <3>2, <3>3, <3>4, <3>5 DEF RequestOK, PhaseOK, StreakOK, Stands, HoldsDay, Tx
    <3>7. ~Acquires(s)
      BY <1>1, <3>3, <3>4 DEF Acquires, HoldsPlayer, SharesPlayer, HoldsRow, HoldsDay
    <3> QED BY <1>1, <3>3, <3>4, <3>5, <3>6, <3>7, NothingAcquired, MoveKeepsInv DEF Tx
  <2> QED BY <2>1, <2>2
<1> QED BY <1>2, <1>3, <1>4, <1>5

-----------------------------------------------------------------------------
(* Steps that take a lock                                                    *)

\* What a request need not wait for is held by nobody else.
LEMMA NotWaiting ==
  ASSUME NEW s \in Sessions, WaitsFor(s) = {}, NEW t \in Sessions \ {s}
  PROVE  /\ tx[s].pc \in {"lock", "share", "upgrade", "pay"} => ~HoldsPlayer(t)
         /\ tx[s].pc \in {"lock", "upgrade", "pay"} => ~SharesPlayer(t)
         /\ WantedRow(s) # 0 => tx[t].row # WantedRow(s)
         /\ tx[s].pc = "insert" => ~(HoldsDay(t) /\ tx[t].day = tx[s].day)
BY DEF WaitsFor

\* A request that goes on with another stage keeps the rest of its record.
Moved(s, pc) == [tx[s] EXCEPT !.pc = pc]

LEMMA MovedRecord ==
  ASSUME NEW s \in Sessions, tx[s] \in TxType,
         NEW p \in {"read", "insert", "share", "upgrade", "lock", "latest", "row", "pay"}
  PROVE  /\ Moved(s, p) \in TxType
         /\ Moved(s, p).kind = tx[s].kind /\ Moved(s, p).pc = p /\ Moved(s, p).day = tx[s].day
         /\ Moved(s, p).streak = tx[s].streak /\ Moved(s, p).row = tx[s].row
BY DEF Moved, TxType

\* The unique key, the shared lock and the player's lock.
LEMMA StageStepsKeepInv ==
  ASSUME DailyInv, NEW s \in Sessions, InsertSheet(s) \/ SharePlayer(s) \/ LockPlayer(s)
  PROVE  DailyInv'
<1>1. tx \in [Sessions -> Tx] /\ RequestOK(s) /\ tx[s] \in Tx /\ PhaseOK(s) /\ StreakOK(s)
  BY DEF DailyInv, RequestOK
<1>2. CASE InsertSheet(s)
  <2>1. CASE sheet[tx[s].day] # NoSheet
    BY <1>2, <2>1, EndKeepsInv DEF InsertSheet
  <2>2. CASE sheet[tx[s].day] = NoSheet
    <3> DEFINE r == Moved(s, "share")
    <3>1. tx' = [tx EXCEPT ![s] = r] /\ UNCHANGED <<sheet, today, coins>>
      BY <1>1, <1>2, <2>2 DEF InsertSheet, GoTo, Moved
    <3>2. tx[s].kind = "open" /\ tx[s].pc = "insert" /\ WaitsFor(s) = {}
      BY <1>2 DEF InsertSheet
    <3>3. /\ r \in TxType /\ r.kind = "open" /\ r.pc = "share" /\ r.row = 0
          /\ r.day = tx[s].day /\ r.streak = tx[s].streak
      BY <1>1, <3>2, MovedRecord, TxFields DEF PhaseOK
    <3> HIDE DEF r
    <3>4. RequestOK(s)'
      BY <1>1, <2>2, <3>1, <3>2, <3>3 DEF RequestOK, PhaseOK, StreakOK, Stands, HoldsDay, Tx
    <3>5. ASSUME NEW t \in Sessions \ {s}
          PROVE  Apart(s, t)' /\ Apart(t, s)'
      <4>1. ~(HoldsDay(t) /\ tx[t].day = tx[s].day) /\ Apart(t, s)
        BY <3>2, NotWaiting DEF DailyInv
      <4> QED BY <1>1, <3>1, <3>2, <3>3, <4>1
              DEF Apart, HoldsPlayer, SharesPlayer, HoldsRow, HoldsDay
    <3> QED BY <3>1, <3>3, <3>4, <3>5, MoveKeepsInv DEF Tx
  <2> QED BY <2>1, <2>2
<1>3. CASE SharePlayer(s)
  <2> DEFINE r == Moved(s, "upgrade")
  <2>1. tx' = [tx EXCEPT ![s] = r] /\ UNCHANGED <<sheet, today, coins>>
    BY <1>1, <1>3 DEF SharePlayer, GoTo, Moved
  <2>2. tx[s].kind = "open" /\ tx[s].pc = "share" /\ WaitsFor(s) = {}
    BY <1>1, <1>3, TxFields DEF SharePlayer, PhaseOK
  <2>3. /\ r \in TxType /\ r.kind = "open" /\ r.pc = "upgrade" /\ r.row = 0
        /\ r.day = tx[s].day /\ r.streak = tx[s].streak
    BY <1>1, <2>2, MovedRecord, TxFields DEF PhaseOK
  <2> HIDE DEF r
  <2>4. RequestOK(s)'
    BY <1>1, <2>1, <2>2, <2>3 DEF RequestOK, PhaseOK, StreakOK, Stands, HoldsDay, Tx
  <2>5. ASSUME NEW t \in Sessions \ {s}
        PROVE  Apart(s, t)' /\ Apart(t, s)'
    <3>1. ~HoldsPlayer(t) /\ Apart(t, s) /\ Apart(s, t)
      BY <2>2, NotWaiting DEF DailyInv
    <3> QED BY <1>1, <2>1, <2>2, <2>3, <3>1
            DEF Apart, HoldsPlayer, SharesPlayer, HoldsRow, HoldsDay
  <2> QED BY <2>1, <2>3, <2>4, <2>5, MoveKeepsInv DEF Tx
<1>4. CASE LockPlayer(s)
  <2> DEFINE r == Moved(s, "latest")
  <2>1. tx' = [tx EXCEPT ![s] = r] /\ UNCHANGED <<sheet, today, coins>>
    BY <1>1, <1>4 DEF LockPlayer, GoTo, Moved
  <2>2. tx[s].kind = "attend" /\ tx[s].pc = "lock" /\ WaitsFor(s) = {}
    BY <1>1, <1>4, TxFields DEF LockPlayer, PhaseOK
  <2>3. /\ r \in TxType /\ r.kind = "attend" /\ r.pc = "latest" /\ r.row = tx[s].row
        /\ r.day = tx[s].day
    BY <1>1, <2>2, MovedRecord, TxFields
  <2> HIDE DEF r
  <2>4. RequestOK(s)'
    BY <1>1, <2>1, <2>2, <2>3 DEF RequestOK, PhaseOK, StreakOK, HoldsDay, Tx
  <2>5. ASSUME NEW t \in Sessions \ {s}
        PROVE  Apart(s, t)' /\ Apart(t, s)'
    <3>1. ~HoldsPlayer(t) /\ ~SharesPlayer(t) /\ Apart(t, s) /\ Apart(s, t)
      BY <2>2, NotWaiting DEF DailyInv
    <3> QED BY <1>1, <2>1, <2>2, <2>3, <3>1
            DEF Apart, HoldsPlayer, SharesPlayer, HoldsRow, HoldsDay
  <2> QED BY <2>1, <2>3, <2>4, <2>5, MoveKeepsInv DEF Tx
<1> QED BY <1>2, <1>3, <1>4

\* The latest row: the streak that is written stands on it.
LEMMA LockLatestKeepsInv ==
  ASSUME DailyInv, NEW s \in Sessions, LockLatest(s)
  PROVE  DailyInv'
<1> DEFINE d == tx[s].day
           n == StreakAfter(d, Latest)
           r == [tx[s] EXCEPT !.pc = "insert", !.row = Latest, !.streak = n]
<1>1. tx \in [Sessions -> Tx] /\ tx[s] \in Tx /\ sheet \in [Dates -> SheetType \cup {NoSheet}]
  BY DEF DailyInv
<1>2. tx[s].pc = "latest" /\ WaitsFor(s) = {} /\ UNCHANGED <<sheet, today, coins>>
  BY DEF LockLatest
<1>3. tx[s] \in TxType /\ tx[s].kind = "attend" /\ d \in Dates
  BY <1>1, <1>2, TxFields DEF DailyInv, RequestOK, PhaseOK
<1>4. CASE Latest = d
  BY <1>2, <1>4, EndKeepsInv DEF LockLatest
<1>5. CASE Latest # d
  <2>1. n \in Nat /\ n > 0 /\ Stands(d, n)
    <3>1. CASE Latest # 0 /\ Latest = d - 1
      <4>1. sheet[d - 1] \in SheetType /\ n = sheet[d - 1].streak + 1
        BY <1>1, <3>1, LatestIsThere DEF StreakAfter
      <4>2. d > 1 /\ sheet[d - 1] # NoSheet
        BY <1>3, <3>1, LatestIsThere, DailyAssumption DEF Dates
      <4> QED BY <4>1, <4>2 DEF SheetType, Stands
    <3>2. CASE ~(Latest # 0 /\ Latest = d - 1)
      BY <3>2 DEF StreakAfter, Stands
    <3> QED BY <3>1, <3>2
  <2>2. tx' = [tx EXCEPT ![s] = r]
    BY <1>1, <1>5 DEF LockLatest
  <2>3. /\ r \in TxType /\ r.kind = "attend" /\ r.pc = "insert" /\ r.row = Latest
        /\ r.day = d /\ r.streak = n
    <3> HIDE DEF n
    <3> QED BY <1>3, <2>1, LatestIsThere DEF TxType
  <2> HIDE DEF n, r
  <2>4. RequestOK(s)'
    BY <1>1, <1>2, <2>1, <2>2, <2>3, LatestIsThere DEF RequestOK, PhaseOK, StreakOK, Stands, HoldsDay, Tx
  <2>5. ASSUME NEW t \in Sessions \ {s}
        PROVE  Apart(s, t)' /\ Apart(t, s)'
    <3>1. Apart(t, s) /\ Apart(s, t) /\ (Latest # 0 => tx[t].row # Latest)
      BY <1>2, NotWaiting DEF DailyInv, WantedRow
    <3> QED BY <1>1, <1>2, <1>3, <2>2, <2>3, <3>1
            DEF Apart, HoldsPlayer, SharesPlayer, HoldsRow, HoldsDay
  <2> QED BY <1>2, <2>2, <2>3, <2>4, <2>5, MoveKeepsInv DEF Tx
<1> QED BY <1>4, <1>5

\* The sheet to be paid: there, finished and not paid.
LEMMA CheckSheetKeepsInv ==
  ASSUME DailyInv, NEW s \in Sessions, CheckSheet(s)
  PROVE  DailyInv'
<1> DEFINE d == tx[s].day
           r == [tx[s] EXCEPT !.pc = "pay", !.row = d]
<1>1. tx \in [Sessions -> Tx] /\ tx[s] \in Tx /\ sheet \in [Dates -> SheetType \cup {NoSheet}]
  BY DEF DailyInv
<1>2. tx[s].pc = "row" /\ WaitsFor(s) = {} /\ UNCHANGED <<sheet, today, coins>>
  BY DEF CheckSheet
<1>3. tx[s] \in TxType /\ tx[s].kind = "reward" /\ d \in Dates /\ sheet[d] # NoSheet
  BY <1>1, <1>2, TxFields DEF DailyInv, RequestOK, PhaseOK
<1>4. CASE sheet[d].claimed \/ ~Finished(d)
  BY <1>2, <1>4, EndKeepsInv DEF CheckSheet
<1>5. CASE ~(sheet[d].claimed \/ ~Finished(d))
  <2>1. tx' = [tx EXCEPT ![s] = r] /\ ~sheet[d].claimed
    BY <1>1, <1>5 DEF CheckSheet
  <2>2. r \in TxType /\ r.kind = "reward" /\ r.pc = "pay" /\ r.row = d /\ r.day = d
    BY <1>3 DEF TxType
  <2> HIDE DEF r
  <2>3. RequestOK(s)'
    BY <1>1, <1>2, <1>3, <2>1, <2>2 DEF RequestOK, PhaseOK, StreakOK, HoldsDay, Tx
  <2>4. ASSUME NEW t \in Sessions \ {s}
        PROVE  Apart(s, t)' /\ Apart(t, s)'
    <3>1. Apart(t, s) /\ Apart(s, t) /\ (d # 0 => tx[t].row # d)
      BY <1>2, NotWaiting DEF DailyInv, WantedRow
    <3>2. d # 0
      BY <1>3 DEF Dates
    <3> QED BY <1>1, <1>2, <1>3, <2>1, <2>2, <3>1, <3>2
            DEF Apart, HoldsPlayer, SharesPlayer, HoldsRow, HoldsDay
  <2> QED BY <1>2, <2>1, <2>2, <2>3, <2>4, MoveKeepsInv DEF Tx
<1> QED BY <1>4, <1>5

-----------------------------------------------------------------------------
(* Steps that write sheets                                                   *)

\* No row is ever deleted, and its streak never changes.
SheetsStay ==
  \A d \in Dates : sheet[d] # NoSheet => sheet'[d] # NoSheet /\ sheet'[d].streak = sheet[d].streak

\* What others do to the sheets leaves a request's own facts alone, as long as
\* they keep off the days it inserts and the sheets it pays.
LEMMA OthersKeepRequestOK ==
  ASSUME DailyInv, NEW t \in Sessions, tx'[t] = tx[t], SheetsStay,
         HoldsDay(t) => sheet'[tx[t].day] = NoSheet,
         tx[t].pc = "pay" => ~sheet'[tx[t].day].claimed
  PROVE  RequestOK(t)'
<1>1. tx[t] \in Tx /\ RequestOK(t)
  BY DEF DailyInv
<1>2. CASE tx[t] = NotOpen
  BY <1>2 DEF RequestOK, PhaseOK, StreakOK, HoldsDay, NotOpen, Tx
<1>3. CASE tx[t] # NotOpen
  <2>1. tx[t] \in TxType /\ tx[t].day \in Dates /\ tx[t].row \in Dates \cup {0} /\ tx[t].streak \in Nat
    BY <1>1, <1>3, TxFields
  <2>2. StreakOK(t)'
    <3>1. tx[t].day > 1 => tx[t].day - 1 \in Dates
      BY <2>1, DailyAssumption DEF Dates
    <3> QED BY <1>1, <2>1, <3>1 DEF RequestOK, StreakOK, Stands, SheetsStay
  <2>3. PhaseOK(t)'
    BY <1>1, <1>3, <2>1 DEF RequestOK, PhaseOK, SheetsStay
  <2> QED BY <1>1, <2>2, <2>3 DEF RequestOK, HoldsDay
<1> QED BY <1>2, <1>3

\* Streaks stay true when a row is written that stands on the one before it.
LEMMA StreaksStayTrue ==
  ASSUME DailyInv, SheetsStay,
         \A d \in Dates : sheet[d] = NoSheet /\ sheet'[d] # NoSheet => Stands(d, sheet'[d].streak)
  PROVE  StreakNeverInflated'
<1> SUFFICES ASSUME NEW d \in Dates, sheet'[d] # NoSheet, sheet'[d].streak > 1
             PROVE  d > 1 /\ sheet'[d - 1] # NoSheet /\ sheet'[d - 1].streak = sheet'[d].streak - 1
  BY DEF StreakNeverInflated
<1>1. d > 1 /\ sheet[d - 1] # NoSheet /\ sheet[d - 1].streak = sheet'[d].streak - 1
  BY DEF DailyInv, StreakNeverInflated, Stands, SheetsStay
<1>2. d - 1 \in Dates
  BY <1>1, DailyAssumption DEF Dates
<1> QED BY <1>1, <1>2 DEF SheetsStay

\* A request that writes a row for a day without one, and ends.
LEMMA WriteKeepsInv ==
  ASSUME DailyInv, NEW s \in Sessions, NEW d \in Dates, NEW v \in SheetType,
         sheet[d] = NoSheet, sheet' = [sheet EXCEPT ![d] = v], End(s),
         today' = today, coins' \in Nat,
         \A t \in Sessions \ {s} : ~(HoldsDay(t) /\ tx[t].day = d),
         Stands(d, v.streak),
         v.tasks = TaskCount \/ (v.tasks = 0 /\ v.claimed), v.left <= v.tasks
  PROVE  DailyInv'
<1>1. tx \in [Sessions -> Tx] /\ sheet \in [Dates -> SheetType \cup {NoSheet}]
  BY DEF DailyInv
<1>2. /\ sheet' \in [Dates -> SheetType \cup {NoSheet}]
      /\ tx' \in [Sessions -> Tx]
      /\ today' \in Dates
  BY <1>1 DEF End, Tx, DailyInv
<1>3. SheetsStay
  BY <1>1 DEF SheetsStay
<1>4. \A t \in Sessions : RequestOK(t)'
  <2> SUFFICES ASSUME NEW t \in Sessions \ {s}
               PROVE  RequestOK(t)'
    BY ClosedIsOK
  <2>1. tx'[t] = tx[t] /\ RequestOK(t)
    BY <1>1 DEF End, DailyInv
  <2>2. HoldsDay(t) => sheet'[tx[t].day] = NoSheet
    <3> SUFFICES ASSUME HoldsDay(t)
                 PROVE  sheet'[tx[t].day] = NoSheet
      OBVIOUS
    <3>1. tx[t].day \in Dates /\ tx[t].day # d /\ sheet[tx[t].day] = NoSheet
      BY <2>1, TxFields DEF RequestOK, HoldsDay
    <3> QED BY <1>1, <3>1
  <2>3. tx[t].pc = "pay" => ~sheet'[tx[t].day].claimed
    <3> SUFFICES ASSUME tx[t].pc = "pay"
                 PROVE  ~sheet'[tx[t].day].claimed
      OBVIOUS
    <3>1. tx[t].kind = "reward"
      BY <2>1, TxFields DEF RequestOK, PhaseOK
    <3>2. tx[t].day \in Dates /\ tx[t].day # d /\ ~sheet[tx[t].day].claimed
      BY <2>1, <3>1, TxFields DEF RequestOK, PhaseOK
    <3> QED BY <1>1, <3>2
  <2> QED BY <1>3, <2>1, <2>2, <2>3, OthersKeepRequestOK
<1>5. \A t, u \in Sessions : t # u => Apart(t, u)'
  <2> SUFFICES ASSUME NEW t \in Sessions \ {s}, NEW u \in Sessions \ {s}, t # u
               PROVE  Apart(t, u)'
    BY ClosedIsOK
  <2>1. Apart(t, u) /\ tx'[t] = tx[t] /\ tx'[u] = tx[u]
    BY <1>1 DEF End, DailyInv
  <2> QED BY <2>1 DEF Apart, HoldsPlayer, SharesPlayer, HoldsRow, HoldsDay
<1>6. SheetsCanBePaid'
  BY <1>1 DEF DailyInv, SheetsCanBePaid
<1>7. StreakNeverInflated'
  BY <1>1, <1>3, StreaksStayTrue
<1> QED BY <1>2, <1>4, <1>5, <1>6, <1>7 DEF DailyInv

\* The tasks of the day.
LEMMA AssignTasksKeepsInv ==
  ASSUME DailyInv, NEW s \in Sessions, AssignTasks(s)
  PROVE  DailyInv'
<1> DEFINE d == tx[s].day
           v == NewSheet(s, FALSE, TaskCount)
<1>1. tx[s].kind = "open" /\ tx[s].pc = "upgrade" /\ RequestOK(s) /\ HoldsDay(s)
  BY TxFields DEF DailyInv, AssignTasks, RequestOK, PhaseOK, HoldsDay
<1>2. /\ d \in Dates /\ sheet[d] = NoSheet
      /\ tx[s].streak \in Nat /\ tx[s].streak > 0 /\ Stands(d, tx[s].streak)
  BY <1>1, TxFields DEF RequestOK, StreakOK
<1>3. End(s) /\ UNCHANGED <<today, coins>>
  BY DEF AssignTasks
<1>4. CASE UNCHANGED sheet
  BY <1>3, <1>4, EndKeepsInv
<1>5. CASE sheet' = [sheet EXCEPT ![d] = v]
  <2>1. v \in SheetType
    BY <1>2, NewSheetType, DailyAssumption
  <2>2. v.streak = tx[s].streak /\ v.tasks = TaskCount /\ v.left = TaskCount
    BY DEF NewSheet
  <2>3. \A t \in Sessions \ {s} : ~(HoldsDay(t) /\ tx[t].day = d)
    BY <1>1 DEF DailyInv, Apart
  <2>4. coins' \in Nat
    BY <1>3 DEF DailyInv
  <2> HIDE DEF v
  <2>5. v.left <= v.tasks
    BY <2>2, DailyAssumption
  <2> QED BY <1>2, <1>3, <1>5, <2>1, <2>2, <2>3, <2>4, <2>5, WriteKeepsInv
<1> QED BY <1>4, <1>5 DEF AssignTasks

\* The attendance and its payment.
LEMMA AttendKeepsInv ==
  ASSUME DailyInv, NEW s \in Sessions, Attend(s)
  PROVE  DailyInv'
<1> DEFINE d == tx[s].day
           v == NewSheet(s, TRUE, 0)
<1>1. /\ tx[s].kind = "attend" /\ tx[s].pc = "insert" /\ RequestOK(s)
      /\ WaitsFor(s) = {} /\ End(s) /\ today' = today
  BY DEF DailyInv, Attend
<1>2. d \in Dates /\ tx[s].streak \in Nat /\ tx[s].streak > 0 /\ Stands(d, tx[s].streak)
  BY <1>1, TxFields DEF RequestOK, StreakOK
<1>3. CASE sheet[d] # NoSheet
  BY <1>1, <1>3, EndKeepsInv DEF Attend
<1>4. CASE sheet[d] = NoSheet
  <2>1. sheet' = [sheet EXCEPT ![d] = v] /\ coins' = coins + 1
    BY <1>4 DEF Attend
  <2>2. v \in SheetType
    BY <1>2, NewSheetType
  <2>3. v.streak = tx[s].streak /\ v.tasks = 0 /\ v.left = 0 /\ v.claimed
    BY DEF NewSheet
  <2>4. \A t \in Sessions \ {s} : ~(HoldsDay(t) /\ tx[t].day = d)
    BY <1>1, NotWaiting
  <2>5. coins' \in Nat
    BY <2>1 DEF DailyInv
  <2> HIDE DEF v
  <2>6. v.left <= v.tasks
    BY <2>3
  <2> QED BY <1>1, <1>2, <1>4, <2>1, <2>2, <2>3, <2>4, <2>5, <2>6, WriteKeepsInv
<1> QED BY <1>3, <1>4

\* The payment of a sheet: nobody else is about to pay it, for its row is
\* locked.
LEMMA PaySheetKeepsInv ==
  ASSUME DailyInv, NEW s \in Sessions, PaySheet(s)
  PROVE  DailyInv'
<1> DEFINE d == tx[s].day
<1>1. tx \in [Sessions -> Tx] /\ sheet \in [Dates -> SheetType \cup {NoSheet}] /\ RequestOK(s)
  BY DEF DailyInv
<1>2. tx[s].kind = "reward" /\ tx[s].pc = "pay"
  BY <1>1, TxFields DEF PaySheet, RequestOK, PhaseOK
<1>3. d \in Dates /\ d # 0 /\ tx[s].row = d /\ sheet[d] \in SheetType /\ sheet[d] # NoSheet
  BY <1>1, <1>2, TxFields DEF RequestOK, PhaseOK, Dates
<1>4. /\ sheet' = [sheet EXCEPT ![d].claimed = TRUE] /\ coins' = coins + 1
      /\ End(s) /\ today' = today
  BY DEF PaySheet
<1>5. sheet'[d] \in SheetType /\ sheet'[d] # NoSheet
      /\ \A f \in {"streak", "tasks", "left"} : sheet'[d][f] = sheet[d][f]
  BY <1>1, <1>3, <1>4, NoSheetIsNone DEF SheetType
<1>6. \A e \in Dates \ {d} : sheet'[e] = sheet[e]
  BY <1>1, <1>4
<1>7. sheet' \in [Dates -> SheetType \cup {NoSheet}]
      /\ tx' \in [Sessions -> Tx] /\ today' \in Dates /\ coins' \in Nat
  <2>1. sheet' \in [Dates -> SheetType \cup {NoSheet}]
    BY <1>1, <1>4, <1>5, <1>6
  <2>2. tx' \in [Sessions -> Tx]
    BY <1>1, <1>4 DEF End, Tx
  <2>3. today' \in Dates /\ coins' \in Nat
    BY <1>4 DEF DailyInv
  <2> QED BY <2>1, <2>2, <2>3
<1>8. SheetsStay
  BY <1>5, <1>6 DEF SheetsStay
<1>9. \A t \in Sessions : RequestOK(t)'
  <2> SUFFICES ASSUME NEW t \in Sessions \ {s}
               PROVE  RequestOK(t)'
    BY <1>4, ClosedIsOK
  <2>1. tx'[t] = tx[t] /\ RequestOK(t) /\ Apart(s, t)
    BY <1>1, <1>4 DEF End, DailyInv
  <2>2. HoldsDay(t) => sheet'[tx[t].day] = NoSheet
    <3> SUFFICES ASSUME HoldsDay(t)
                 PROVE  sheet'[tx[t].day] = NoSheet
      OBVIOUS
    <3>1. tx[t].day \in Dates /\ sheet[tx[t].day] = NoSheet
      BY <2>1, TxFields DEF RequestOK, HoldsDay
    <3> QED BY <1>3, <1>6, <3>1
  <2>3. tx[t].pc = "pay" => ~sheet'[tx[t].day].claimed
    <3> SUFFICES ASSUME tx[t].pc = "pay"
                 PROVE  ~sheet'[tx[t].day].claimed
      OBVIOUS
    <3>1. tx[t].kind = "reward"
      BY <2>1, TxFields DEF RequestOK, PhaseOK
    <3>2. tx[t].day \in Dates /\ ~sheet[tx[t].day].claimed /\ tx[t].row = tx[t].day
      BY <2>1, <3>1, TxFields DEF RequestOK, PhaseOK
    <3>3. tx[t].day # d
      BY <1>3, <2>1, <3>2 DEF Apart, HoldsRow
    <3> QED BY <1>6, <3>2, <3>3
  <2> QED BY <1>8, <2>1, <2>2, <2>3, OthersKeepRequestOK
<1>10. \A t, u \in Sessions : t # u => Apart(t, u)'
  <2> SUFFICES ASSUME NEW t \in Sessions \ {s}, NEW u \in Sessions \ {s}, t # u
               PROVE  Apart(t, u)'
    BY <1>4, ClosedIsOK
  <2>1. Apart(t, u) /\ tx'[t] = tx[t] /\ tx'[u] = tx[u]
    BY <1>1, <1>4 DEF End, DailyInv
  <2> QED BY <2>1 DEF Apart, HoldsPlayer, SharesPlayer, HoldsRow, HoldsDay
<1>11. SheetsCanBePaid'
  <2>1. sheet'[d].claimed
    BY <1>1, <1>3, <1>4 DEF SheetType
  <2> QED BY <1>3, <1>5, <1>6, <2>1 DEF DailyInv, SheetsCanBePaid
<1>12. StreakNeverInflated'
  BY <1>3, <1>6, <1>8, StreaksStayTrue
<1> QED BY <1>7, <1>9, <1>10, <1>11, <1>12 DEF DailyInv

\* Grading and the reset of learning: only open tasks change, of sheets that
\* are there.
OnlyTasksChange ==
  /\ sheet' \in [Dates -> SheetType \cup {NoSheet}]
  /\ \A d \in Dates :
       \/ sheet'[d] = sheet[d]
       \/ /\ sheet[d] # NoSheet /\ sheet'[d] \in SheetType
          /\ \A f \in {"streak", "claimed", "tasks"} : sheet'[d][f] = sheet[d][f]
          /\ sheet'[d].left <= sheet'[d].tasks

LEMMA TasksChangeOnly ==
  ASSUME DailyInv, (\E d \in Dates : CompleteTask(d)) \/ ReopenTasks
  PROVE  OnlyTasksChange
<1>0. sheet \in [Dates -> SheetType \cup {NoSheet}]
  BY DEF DailyInv
<1>1. ASSUME NEW d \in Dates, CompleteTask(d)
      PROVE  OnlyTasksChange
  <2>1. sheet[d] \in SheetType /\ sheet[d] # NoSheet /\ sheet[d].left > 0
        /\ sheet[d].left <= sheet[d].tasks
    BY <1>0, <1>1 DEF CompleteTask, DailyInv, SheetsCanBePaid
  <2>2. sheet' = [sheet EXCEPT ![d].left = sheet[d].left - 1]
    BY <1>1 DEF CompleteTask
  <2>3. sheet'[d] = [sheet[d] EXCEPT !.left = sheet[d].left - 1]
    BY <1>0, <2>2
  <2>4. /\ sheet'[d] \in SheetType /\ sheet'[d].left <= sheet'[d].tasks
        /\ \A f \in {"streak", "claimed", "tasks"} : sheet'[d][f] = sheet[d][f]
    BY <2>1, <2>3 DEF SheetType
  <2>5. \A e \in Dates \ {d} : sheet'[e] = sheet[e]
    BY <1>0, <2>2
  <2>6. sheet' \in [Dates -> SheetType \cup {NoSheet}]
    BY <1>0, <2>2, <2>4, <2>5
  <2> QED BY <2>1, <2>4, <2>5, <2>6 DEF OnlyTasksChange
<1>2. CASE ReopenTasks
  <2>1. sheet' = [d \in Dates |-> IF sheet[d] = NoSheet THEN NoSheet
                                  ELSE [sheet[d] EXCEPT !.left = sheet[d].tasks]]
    BY <1>2 DEF ReopenTasks
  <2>2. ASSUME NEW d \in Dates
        PROVE  \/ sheet'[d] = sheet[d] /\ sheet[d] = NoSheet
               \/ /\ sheet[d] # NoSheet /\ sheet'[d] \in SheetType
                  /\ \A f \in {"streak", "claimed", "tasks"} : sheet'[d][f] = sheet[d][f]
                  /\ sheet'[d].left <= sheet'[d].tasks
    <3>1. CASE sheet[d] = NoSheet
      BY <2>1, <3>1
    <3>2. CASE sheet[d] # NoSheet
      <4>1. sheet'[d] = [sheet[d] EXCEPT !.left = sheet[d].tasks] /\ sheet[d] \in SheetType
        BY <1>0, <2>1, <3>2
      <4> QED BY <3>2, <4>1 DEF SheetType
    <3> QED BY <3>1, <3>2
  <2>3. sheet' \in [Dates -> SheetType \cup {NoSheet}]
    BY <2>1, <2>2
  <2> QED BY <2>2, <2>3 DEF OnlyTasksChange
<1> QED BY <1>1, <1>2

\* Which keeps the invariant.
LEMMA TasksKeepInv ==
  ASSUME DailyInv, (\E d \in Dates : CompleteTask(d)) \/ ReopenTasks
  PROVE  DailyInv'
<1>1. sheet \in [Dates -> SheetType \cup {NoSheet}]
  BY DEF DailyInv
<1>2. UNCHANGED <<today, coins, tx>>
  BY DEF CompleteTask, ReopenTasks
<1>3. OnlyTasksChange
  BY TasksChangeOnly
<1>4. SheetsStay
  BY <1>3, NoSheetIsNone DEF SheetsStay, OnlyTasksChange
<1>5. \A t \in Sessions : RequestOK(t)'
  <2> SUFFICES ASSUME NEW t \in Sessions
               PROVE  RequestOK(t)'
    OBVIOUS
  <2>1. RequestOK(t)
    BY DEF DailyInv
  <2>2. HoldsDay(t) => sheet'[tx[t].day] = NoSheet
    BY <1>3, <2>1, TxFields DEF RequestOK, HoldsDay, OnlyTasksChange
  <2>3. tx[t].pc = "pay" => ~sheet'[tx[t].day].claimed
    BY <1>3, <2>1, TxFields DEF RequestOK, PhaseOK, OnlyTasksChange
  <2> QED BY <1>2, <1>4, <2>2, <2>3, OthersKeepRequestOK
<1>6. \A t, u \in Sessions : t # u => Apart(t, u)'
  BY <1>2 DEF DailyInv, Apart, HoldsPlayer, SharesPlayer, HoldsRow, HoldsDay
<1>7. SheetsCanBePaid'
  BY <1>3 DEF DailyInv, SheetsCanBePaid, OnlyTasksChange
<1>8. StreakNeverInflated'
  BY <1>3, <1>4, StreaksStayTrue DEF OnlyTasksChange
<1> QED BY <1>2, <1>3, <1>5, <1>6, <1>7, <1>8 DEF DailyInv, OnlyTasksChange

\* Midnight touches nothing but the clock.
LEMMA MidnightKeepsInv == DailyInv /\ Midnight => DailyInv'
<1> SUFFICES ASSUME DailyInv, Midnight
             PROVE  DailyInv'
  OBVIOUS
<1>1. today' \in Dates /\ UNCHANGED <<sheet, coins, tx>>
  BY DailyAssumption DEF DailyInv, Midnight, Dates
<1> QED BY <1>1
        DEF DailyInv, RequestOK, PhaseOK, StreakOK, Stands, Apart, HoldsPlayer, SharesPlayer,
            HoldsRow, HoldsDay, SheetsCanBePaid, StreakNeverInflated

-----------------------------------------------------------------------------
(* The invariant of the specification                                        *)

LEMMA InitHasInv == DailyInit => DailyInv
<1> SUFFICES ASSUME DailyInit
             PROVE  DailyInv
  OBVIOUS
<1>1. \A s \in Sessions : tx[s] = NotOpen
  BY DEF DailyInit
<1>2. /\ sheet \in [Dates -> SheetType \cup {NoSheet}] /\ today \in Dates /\ coins \in Nat
      /\ tx \in [Sessions -> Tx]
  BY DailyAssumption DEF DailyInit, Dates, Tx
<1>3. \A s \in Sessions : RequestOK(s)
  BY <1>1 DEF RequestOK, PhaseOK, StreakOK, HoldsDay, NotOpen, Tx
<1>4. \A s, t \in Sessions : s # t => Apart(s, t)
  BY <1>1 DEF Apart, HoldsPlayer, SharesPlayer, HoldsRow, HoldsDay, NotOpen
<1>5. SheetsCanBePaid /\ StreakNeverInflated
  BY DEF DailyInit, SheetsCanBePaid, StreakNeverInflated
<1> QED BY <1>2, <1>3, <1>4, <1>5 DEF DailyInv

LEMMA NextKeepsInv == DailyInv /\ [DailyNext]_dailyVars => DailyInv'
<1> SUFFICES ASSUME DailyInv, [DailyNext]_dailyVars
             PROVE  DailyInv'
  OBVIOUS
<1>1. ASSUME NEW s \in Sessions,
             \/ BeginOpen(s) \/ BeginAttend(s) \/ \E d \in Dates : BeginReward(s, d)
             \/ DailyStep(s) \/ AbortDaily(s) \/ Resolve(s)
      PROVE  DailyInv'
  <2>1. CASE AbortDaily(s) \/ Resolve(s)
    BY <2>1, EndKeepsInv DEF AbortDaily, Resolve
  <2>2. CASE DailyStep(s)
    BY <2>2, FreeStepsKeepInv, StageStepsKeepInv, LockLatestKeepsInv, CheckSheetKeepsInv,
       AssignTasksKeepsInv, AttendKeepsInv, PaySheetKeepsInv DEF DailyStep
  <2> QED BY <1>1, <2>1, <2>2, FreeStepsKeepInv
<1>2. CASE UNCHANGED dailyVars
  BY <1>2 DEF dailyVars, DailyInv, RequestOK, PhaseOK, StreakOK, Stands, Apart, HoldsPlayer,
              SharesPlayer, HoldsRow, HoldsDay, SheetsCanBePaid, StreakNeverInflated
<1> QED BY <1>1, <1>2, TasksKeepInv, MidnightKeepsInv DEF DailyNext

LEMMA InvHolds == DailySpec => []DailyInv
BY InitHasInv, NextKeepsInv, PTL DEF DailySpec

\* The type invariant: no two requests hold a lock that excludes them, and a
\* day whose row is being inserted has none.
THEOREM TypeCorrect == DailySpec => []DailyTypeOK
BY InvHolds, InvImpliesTypeOK, PTL

\* No sheet is left that can never be paid, whichever feature wrote it.
THEOREM EverySheetCanBePaid == DailySpec => []SheetsCanBePaid
<1>1. DailyInv => SheetsCanBePaid
  BY DEF DailyInv
<1> QED BY <1>1, InvHolds, PTL

\* No race of requests and no late one lengthens a streak.
THEOREM StreaksAreNeverInflated == DailySpec => []StreakNeverInflated
<1>1. DailyInv => StreakNeverInflated
  BY DEF DailyInv
<1> QED BY <1>1, InvHolds, PTL

-----------------------------------------------------------------------------
(* The day book                                                              *)

Pages == [d \in Dates |-> PageOn(d)]

\* Pages change when a row appears or is paid, and with the payment only.
LEMMA BookStutter ==
  ASSUME coins' = coins, \A d \in Dates : PageOn(d)' = PageOn(d)
  PROVE  UNCHANGED Book!bookVars
BY DEF Book!bookVars

\* A row that appears opens its page, or pays it.
LEMMA BookWrite ==
  ASSUME DailyInv, NEW d \in Dates, NEW v \in SheetType, sheet[d] = NoSheet,
         sheet' = [sheet EXCEPT ![d] = v]
  PROVE  /\ Pages[d] = "blank"
         /\ v.claimed => Pages' = [Pages EXCEPT ![d] = "paid"]
         /\ ~v.claimed => Pages' = [Pages EXCEPT ![d] = "open"]
<1>1. sheet' \in [Dates -> SheetType \cup {NoSheet}] /\ sheet'[d] = v /\ v # NoSheet
  BY NoSheetIsNone DEF DailyInv
<1>2. \A e \in Dates \ {d} : sheet'[e] = sheet[e]
  BY DEF DailyInv
<1> QED BY <1>1, <1>2 DEF Pages, PageOn

LEMMA StepIsABookStep ==
  DailyInv /\ [DailyNext]_dailyVars => [Book!BookNext]_(Book!bookVars)
<1> SUFFICES ASSUME DailyInv, [DailyNext]_dailyVars
             PROVE  Book!BookNext \/ UNCHANGED Book!bookVars
  OBVIOUS
<1>1. CASE UNCHANGED <<sheet, coins>>
  BY <1>1, BookStutter DEF PageOn
<1>2. CASE (\E d \in Dates : CompleteTask(d)) \/ ReopenTasks
  <2>1. coins' = coins
    BY <1>2 DEF CompleteTask, ReopenTasks
  <2>2. \A d \in Dates : PageOn(d)' = PageOn(d)
    BY <1>2, TasksChangeOnly, NoSheetIsNone DEF OnlyTasksChange, PageOn
  <2> QED BY <2>1, <2>2, BookStutter
<1>3. ASSUME NEW s \in Sessions, AssignTasks(s)
      PROVE  Book!BookNext \/ UNCHANGED Book!bookVars
  <2> DEFINE d == tx[s].day
  <2>1. RequestOK(s) /\ tx[s].kind = "open" /\ HoldsDay(s)
    BY <1>3, TxFields DEF DailyInv, AssignTasks, RequestOK, PhaseOK, HoldsDay
  <2>2. d \in Dates /\ sheet[d] = NoSheet /\ NewSheet(s, FALSE, TaskCount) \in SheetType
    BY <2>1, TxFields, NewSheetType, DailyAssumption DEF RequestOK, StreakOK, HoldsDay
  <2>3. CASE UNCHANGED sheet
    BY <1>1, <1>3, <2>3 DEF AssignTasks
  <2>4. CASE sheet' = [sheet EXCEPT ![d] = NewSheet(s, FALSE, TaskCount)]
    <3>1. ~NewSheet(s, FALSE, TaskCount).claimed
      BY DEF NewSheet
    <3>2. Pages[d] = "blank" /\ Pages' = [Pages EXCEPT ![d] = "open"] /\ coins' = coins
      BY <1>3, <2>2, <2>4, <3>1, BookWrite DEF AssignTasks
    <3>3. Book!Open(d)
      BY <3>2 DEF Book!Open, Pages
    <3> QED BY <2>2, <3>3 DEF Book!BookNext
  <2> QED BY <1>3, <2>3, <2>4 DEF AssignTasks
<1>4. ASSUME NEW s \in Sessions, Attend(s)
      PROVE  Book!BookNext \/ UNCHANGED Book!bookVars
  <2> DEFINE d == tx[s].day
  <2>1. RequestOK(s) /\ tx[s].kind = "attend" /\ tx[s].pc = "insert"
    BY <1>4 DEF DailyInv, Attend
  <2>2. d \in Dates /\ NewSheet(s, TRUE, 0) \in SheetType
    BY <2>1, TxFields, NewSheetType DEF RequestOK, StreakOK
  <2>3. CASE sheet[d] # NoSheet
    BY <1>1, <1>4, <2>3 DEF Attend
  <2>4. CASE sheet[d] = NoSheet
    <3>1. sheet' = [sheet EXCEPT ![d] = NewSheet(s, TRUE, 0)] /\ coins' = coins + 1
      BY <1>4, <2>4 DEF Attend
    <3>2. NewSheet(s, TRUE, 0).claimed
      BY DEF NewSheet
    <3>3. Pages[d] = "blank" /\ Pages' = [Pages EXCEPT ![d] = "paid"]
      BY <2>2, <2>4, <3>1, <3>2, BookWrite
    <3>4. Book!Pay(d)
      BY <3>1, <3>3 DEF Book!Pay, Pages
    <3> QED BY <2>2, <3>4 DEF Book!BookNext
  <2> QED BY <2>3, <2>4
<1>5. ASSUME NEW s \in Sessions, PaySheet(s)
      PROVE  Book!BookNext \/ UNCHANGED Book!bookVars
  <2> DEFINE d == tx[s].day
  <2>1. RequestOK(s) /\ tx[s].kind = "reward" /\ sheet \in [Dates -> SheetType \cup {NoSheet}]
    BY <1>5, TxFields DEF DailyInv, PaySheet, RequestOK, PhaseOK
  <2>2. d \in Dates /\ sheet[d] \in SheetType /\ sheet[d] # NoSheet /\ ~sheet[d].claimed
    BY <1>5, <2>1, TxFields DEF RequestOK, PhaseOK, PaySheet
  <2>3. sheet' = [sheet EXCEPT ![d].claimed = TRUE] /\ coins' = coins + 1
    BY <1>5 DEF PaySheet
  <2>4. sheet'[d] # NoSheet /\ sheet'[d].claimed
    BY <2>1, <2>2, <2>3, NoSheetIsNone DEF SheetType
  <2>5. \A e \in Dates \ {d} : sheet'[e] = sheet[e]
    BY <2>1, <2>3
  <2>6. Pages[d] = "open" /\ Pages' = [Pages EXCEPT ![d] = "paid"]
    BY <2>2, <2>4, <2>5 DEF Pages, PageOn
  <2>7. Book!Pay(d)
    BY <2>3, <2>6 DEF Book!Pay, Pages
  <2> QED BY <2>2, <2>7 DEF Book!BookNext
<1>6. ASSUME NEW s \in Sessions,
             \/ BeginOpen(s) \/ BeginAttend(s) \/ \E d \in Dates : BeginReward(s, d)
             \/ FindSheet(s) \/ InsertSheet(s) \/ SharePlayer(s) \/ LockPlayer(s)
             \/ LockLatest(s) \/ CheckSheet(s) \/ AbortDaily(s) \/ Resolve(s)
      PROVE  UNCHANGED <<sheet, coins>>
  BY <1>6 DEF BeginOpen, BeginAttend, BeginReward, FindSheet, InsertSheet, SharePlayer,
              LockPlayer, LockLatest, CheckSheet, AbortDaily, Resolve
<1>7. CASE Midnight \/ UNCHANGED dailyVars
  BY <1>1, <1>7 DEF Midnight, dailyVars
<1> QED BY <1>1, <1>2, <1>3, <1>4, <1>5, <1>6, <1>7 DEF DailyNext, DailyStep

\* The attendances implement the day book: whichever of the two features writes
\* a day, it has one page, opened at most once and paid at most once.
THEOREM AttendancesImplementTheBook == DailySpec => OnePaymentADay
<1>1. DailyInit => Book!BookInit
  <2> SUFFICES ASSUME DailyInit
               PROVE  Book!BookInit
    OBVIOUS
  <2>1. \A d \in Dates : PageOn(d) = "blank"
    BY DEF DailyInit, PageOn
  <2> QED BY <2>1 DEF DailyInit, Book!BookInit
<1>2. DailySpec => Book!BookInit /\ [][Book!BookNext]_(Book!bookVars)
  BY <1>1, InvHolds, StepIsABookStep, PTL DEF DailySpec
<1> QED BY <1>2 DEF OnePaymentADay, Book!BookSpec
=============================================================================
