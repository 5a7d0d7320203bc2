--------------------------- MODULE RequestsProofs ---------------------------
(***************************************************************************)
(* Proofs about what the requests of one player, or of one IP, leave behind:*)
(* Housing (the furniture of the room), LearningProgress (the tier, the    *)
(* levels and the presentations), Recommendations (the page of tasks they  *)
(* lead to), CatMemory (what a cat remembers of its chats) and RateLimit   *)
(* (the logins that may fail).                                             *)
(***************************************************************************)
EXTENDS Housing, LearningProgress, CatMemory, RateLimit, FiniteSetTheorems,
        SequenceTheorems, WellFoundedInduction, TLAPS

LEMMA UpTo ==
  ASSUME NEW n \in Nat
  PROVE  IsFiniteSet(1 .. n) /\ Cardinality(1 .. n) = n
<1>1. Cardinality(1 .. n) = IF 1 > n THEN 0 ELSE n - 1 + 1
  BY FS_Interval
<1> QED BY <1>1, FS_Interval

-----------------------------------------------------------------------------
(* Housing: rows and cells                                                  *)

LEMMA HousingConstants ==
  /\ IsFiniteSet(Rows) /\ Ids \subseteq Rows /\ StarterIds \subseteq Rows
  /\ ForeignIds \cap Rows = {} /\ Ids \cap StarterIds = {}
  /\ GridWidth \in Nat /\ GridHeight \in Nat
  /\ None \notin Row /\ None \notin Items
  /\ Sized \subseteq Furniture /\ Furniture \subseteq Items /\ Items \subseteq Assets
BY HousingAssumption DEF HousingAssumption, Rows, Items, Assets

LEMMA RowFields ==
  ASSUME NEW row \in Row
  PROVE  /\ row.item \in Furniture /\ row # None
         /\ row.at.x \in Int /\ row.at.y \in Int /\ row.at.turn \in Int
         /\ row = [item |-> row.item, at |-> row.at]
<1>1. row.item \in Furniture /\ row.at \in Places \cup {StarterRow[t].at : t \in StarterIds}
      /\ row = [item |-> row.item, at |-> row.at]
  BY DEF Row
<1>2. row.at \in [x : Int, y : Int, turn : Int]
  <2>1. CASE row.at \in Places
    BY <2>1, HousingAssumption DEF HousingAssumption
  <2>2. ASSUME NEW t \in StarterIds, row.at = StarterRow[t].at
        PROVE  row.at \in [x : Int, y : Int, turn : Int]
    <3>1. StarterRow[t] \in [item : Furniture, at : [x : Int, y : Int, turn : Int]]
      BY HousingAssumption DEF HousingAssumption
    <3> QED BY <2>2, <3>1
  <2> QED BY <1>1, <2>1, <2>2
<1> QED BY <1>1, <1>2, HousingConstants

LEMMA ClientRows ==
  ASSUME NEW item \in Furniture, NEW at \in Places
  PROVE  [item |-> item, at |-> at] \in Row
BY DEF Row

LEMMA StarterRows ==
  ASSUME NEW t \in StarterIds
  PROVE  StarterRow[t] \in Row
<1>1. StarterRow[t] \in [item : Furniture, at : [x : Int, y : Int, turn : Int]]
  BY HousingAssumption DEF HousingAssumption
<1>2. StarterRow[t].item \in Furniture /\ StarterRow[t] = [item |-> StarterRow[t].item, at |-> StarterRow[t].at]
  BY <1>1
<1> QED BY <1>2 DEF Row

LEMMA ExtentFields ==
  ASSUME NEW row \in Row, row.item \in Sized
  PROVE  /\ Extent(row).w \in Nat \ {0} /\ Extent(row).h \in Nat \ {0}
         /\ Extent(row).w = (IF row.at.turn = 1 THEN ItemHeight ELSE ItemWidth)[row.item]
         /\ Extent(row).h = (IF row.at.turn = 1 THEN ItemWidth ELSE ItemHeight)[row.item]
<1>1. ItemWidth[row.item] \in Nat \ {0} /\ ItemHeight[row.item] \in Nat \ {0}
  BY HousingAssumption DEF HousingAssumption
<1> QED BY <1>1 DEF Extent

\* The cells of an object are those from its corner on, as many as it is long.
LEMMA CellsAre ==
  ASSUME NEW row \in Row, row.item \in Sized, NEW c \in Cells(row)
  PROVE  /\ c = <<c[1], c[2]>> /\ c[1] \in Int /\ c[2] \in Int
         /\ row.at.x <= c[1] /\ c[1] < row.at.x + Extent(row).w
         /\ row.at.y <= c[2] /\ c[2] < row.at.y + Extent(row).h
<1> DEFINE w == (IF row.at.turn = 1 THEN ItemHeight ELSE ItemWidth)[row.item]
           h == (IF row.at.turn = 1 THEN ItemWidth ELSE ItemHeight)[row.item]
<1>1. /\ c \in (-1 .. GridWidth) \X (-1 .. GridHeight)
      /\ c[1] \in row.at.x .. row.at.x - 1 + w
      /\ c[2] \in row.at.y .. row.at.y - 1 + h
  BY DEF Cells
<1>2. w = Extent(row).w /\ h = Extent(row).h /\ w \in Nat /\ h \in Nat
  BY ExtentFields
<1>3. row.at.x \in Int /\ row.at.y \in Int
  BY RowFields
<1>4. c = <<c[1], c[2]>> /\ c[1] \in Int /\ c[2] \in Int
  BY <1>1, HousingConstants
<1> HIDE DEF w, h
<1> QED BY <1>1, <1>2, <1>3, <1>4

LEMMA InsideCells ==
  ASSUME NEW row \in Row, row.item \in Sized, InsideRoom(row)
  PROVE  Cells(row) \subseteq (0 .. GridWidth - 1) \X (0 .. GridHeight - 1)
<1> SUFFICES ASSUME NEW c \in Cells(row) PROVE c \in (0 .. GridWidth - 1) \X (0 .. GridHeight - 1)
  OBVIOUS
<1>1. PICK x, y, w, h : x = row.at.x /\ y = row.at.y /\ w = Extent(row).w /\ h = Extent(row).h
  OBVIOUS
<1>2. x \in Int /\ y \in Int /\ w \in Nat /\ h \in Nat
  BY <1>1, RowFields, ExtentFields
<1>3. x >= 0 /\ x + w <= GridWidth /\ y >= 0 /\ y + h <= GridHeight
  BY <1>1 DEF InsideRoom
<1>4. /\ c = <<c[1], c[2]>> /\ c[1] \in Int /\ c[2] \in Int
      /\ x <= c[1] /\ c[1] < x + w /\ y <= c[2] /\ c[2] < y + h
  BY <1>1, CellsAre
<1>5. c[1] \in 0 .. GridWidth - 1 /\ c[2] \in 0 .. GridHeight - 1
  BY <1>2, <1>3, <1>4, HousingConstants
<1> QED BY <1>4, <1>5

\* Objects that share a cell overlap as the service computes it.
LEMMA SharedCellsOverlap ==
  ASSUME NEW a \in Row, NEW b \in Row, a.item \in Sized, b.item \in Sized,
         Cells(a) \cap Cells(b) # {}
  PROVE  Overlaps(a, b) /\ Overlaps(b, a)
<1>1. PICK c \in Cells(a) : c \in Cells(b)
  OBVIOUS
<1>2. /\ a.at.x \in Int /\ a.at.y \in Int /\ Extent(a).w \in Nat /\ Extent(a).h \in Nat
      /\ b.at.x \in Int /\ b.at.y \in Int /\ Extent(b).w \in Nat /\ Extent(b).h \in Nat
  BY RowFields, ExtentFields
<1>3. /\ c[1] \in Int /\ c[2] \in Int
      /\ a.at.x <= c[1] /\ c[1] < a.at.x + Extent(a).w /\ a.at.y <= c[2] /\ c[2] < a.at.y + Extent(a).h
      /\ b.at.x <= c[1] /\ c[1] < b.at.x + Extent(b).w /\ b.at.y <= c[2] /\ c[2] < b.at.y + Extent(b).h
  BY <1>1, CellsAre
<1> QED BY <1>2, <1>3 DEF Overlaps

-----------------------------------------------------------------------------
(* Housing: the inductive invariant                                         *)

HousingInv == HousingTypeOK /\ RoomIsConsistent /\ AnswersAreTrue

LEMMA PlacedIsFinite ==
  ASSUME NEW item
  PROVE  IsFiniteSet(PlacedOf(item)) /\ Cardinality(PlacedOf(item)) \in Nat
BY HousingConstants, FS_Subset, FS_CardinalityType DEF PlacedOf

LEMMA OneMore ==
  ASSUME NEW S, IsFiniteSet(S), NEW e
  PROVE  Cardinality(S \cup {e}) \in Nat /\ Cardinality(S \cup {e}) <= Cardinality(S) + 1
<1>1. Cardinality(S \cup {e}) = Cardinality(S) \/ Cardinality(S \cup {e}) = Cardinality(S) + 1
  BY FS_AddElement
<1>2. Cardinality(S) \in Nat
  BY FS_CardinalityType
<1> QED BY <1>1, <1>2

LEMMA HousingStart == HousingInit => HousingInv
<1> SUFFICES ASSUME HousingInit PROVE HousingInv
  OBVIOUS
<1>1. HousingTypeOK
  <2>1. DOMAIN reader = Readers /\ \A s \in Readers : reader[s] = HousingIdle
    BY DEF HousingInit
  <2>2. HousingIdle \in [pc : {"idle", "starter", "assets"}] /\ HousingIdle.pc = "idle"
    BY DEF HousingIdle
  <2> QED BY <2>1, <2>2 DEF HousingInit, HousingTypeOK
<1>2. RoomIsConsistent
  <2>1. \A f \in Furniture : PlacedOf(f) = {} /\ owned[f] = 0
    BY HousingConstants DEF HousingInit, PlacedOf
  <2>2. \A f \in Furniture : Cardinality(PlacedOf(f)) <= owned[f]
    BY <2>1, FS_EmptySet
  <2> QED BY <2>2 DEF HousingInit, RoomIsConsistent, SurfaceTrigger
<1>3. AnswersAreTrue
  BY HousingConstants DEF HousingInit, AnswersAreTrue
<1> QED BY <1>1, <1>2, <1>3 DEF HousingInv

\* What a router answers.
Outcomes == {"done", "same", "missing", "conflict", "occupied", "limit", "outside", "category", "failed"}

LEMMA AnswerIsReply ==
  ASSUME NEW via \in {"game", "housing"}, NEW outcome \in Outcomes, Answer(via, outcome)
  PROVE  /\ reply' \in [via : {"game", "housing", "snapshot"}, status : {200, 404, 409, 422, 500}]
         /\ outcome # "failed" => (reply'.via = "game" => reply'.status # 500)
<1>1. GameStatus(outcome) \in {200, 404, 409, 422, 500} /\ (outcome # "failed" => GameStatus(outcome) # 500)
  BY DEF GameStatus, Outcomes
<1>2. HousingStatus(outcome) \in {200, 404, 409, 422, 500}
  BY DEF HousingStatus, Outcomes
<1>3. CASE via = "game"
  BY <1>1, <1>3 DEF Answer
<1>4. CASE via = "housing"
  BY <1>2, <1>4 DEF Answer
<1> QED BY <1>3, <1>4

\* A command that is refused, or repeats what was done.
LEMMA OnlyAnswers ==
  ASSUME HousingInv, UNCHANGED <<owned, placed, surface, starter, told, reader>>,
         reply' \in [via : {"game", "housing", "snapshot"}, status : {200, 404, 409, 422, 500}],
         reply'.via = "game" => reply'.status # 500
  PROVE  HousingInv' /\ \A i, j \in Rows : Shared(i, j)' => Shared(i, j)
<1>1. HousingTypeOK'
  BY DEF HousingInv, HousingTypeOK
<1>2. RoomIsConsistent' /\ AnswersAreTrue'
  BY DEF HousingInv, RoomIsConsistent, AnswersAreTrue, PlacedOf, SurfaceTrigger
<1>3. \A i, j \in Rows : Shared(i, j)' => Shared(i, j)
  BY DEF Shared
<1> QED BY <1>1, <1>2, <1>3 DEF HousingInv

LEMMA PlacementFreeIs ==
  ASSUME NEW row, NEW id
  PROVE  /\ PlacementFree(row, id) \in {"done", "outside", "occupied"}
         /\ PlacementFree(row, id) = "done" /\ row.item \in Sized =>
              /\ InsideRoom(row)
              /\ \A i \in Rows \ {id} : placed[i] # None /\ placed[i].item \in Sized => ~Overlaps(row, placed[i])
BY DEF PlacementFree

\* A row put where it is free, of an item of which there are enough.
LEMMA RowStands ==
  ASSUME HousingInv, NEW id \in Rows, NEW row \in Row,
         PlacementFree(row, id) = "done",
         placed' = [placed EXCEPT ![id] = row],
         placed[id] = None \/ placed[id].item = row.item,
         placed[id] = None => Cardinality(PlacedOf(row.item)) < owned[row.item],
         UNCHANGED <<owned, surface>>
  PROVE  /\ RoomIsConsistent' /\ placed' \in [Rows -> Row \cup {None}]
         /\ InventoryTrigger([placed EXCEPT ![id] = row], owned, row.item)
         /\ \A i, j \in Rows : Shared(i, j)' => Shared(i, j)
<1>1. row.item \in Furniture /\ row # None /\ owned[row.item] \in Nat
  BY RowFields, HousingConstants DEF HousingInv, HousingTypeOK
<1>2. /\ placed'[id] = row /\ \A i \in Rows \ {id} : placed'[i] = placed[i]
      /\ placed' \in [Rows -> Row \cup {None}]
  BY DEF HousingInv, HousingTypeOK
<1>3. PlacedOf(row.item)' = PlacedOf(row.item) \cup {id}
  BY <1>1, <1>2 DEF PlacedOf
<1>4. Cardinality(PlacedOf(row.item)') <= owned[row.item]
  <2>1. CASE placed[id] = None
    <3>1. Cardinality(PlacedOf(row.item) \cup {id}) <= Cardinality(PlacedOf(row.item)) + 1
      BY PlacedIsFinite, OneMore
    <3>2. Cardinality(PlacedOf(row.item)) < owned[row.item] /\ Cardinality(PlacedOf(row.item)) \in Nat
      BY <2>1, PlacedIsFinite
    <3>3. IsFiniteSet(PlacedOf(row.item)')
      BY HousingConstants, FS_Subset DEF PlacedOf
    <3>4. Cardinality(PlacedOf(row.item)') \in Nat
      BY <3>3, FS_CardinalityType
    <3> QED BY <1>1, <1>3, <3>1, <3>2, <3>4
  <2>2. CASE placed[id] # None
    <3>1. id \in PlacedOf(row.item)
      BY <2>2 DEF PlacedOf
    <3>2. PlacedOf(row.item)' = PlacedOf(row.item)
      BY <1>3, <3>1
    <3> QED BY <1>1, <3>2 DEF HousingInv, RoomIsConsistent
  <2> QED BY <2>1, <2>2
<1>5. InventoryTrigger([placed EXCEPT ![id] = row], owned, row.item)
  BY <1>1, <1>4 DEF InventoryTrigger, PlacedOf
<1>6. ASSUME NEW f \in Furniture PROVE Cardinality(PlacedOf(f)') <= owned[f]
  <2>1. CASE f = row.item
    BY <1>4, <2>1
  <2>2. CASE f # row.item
    <3>1. PlacedOf(f)' = PlacedOf(f)
      BY <1>1, <1>2, <2>2 DEF PlacedOf
    <3> QED BY <3>1 DEF HousingInv, RoomIsConsistent
  <2> QED BY <2>1, <2>2
<1>7. row.item \in Sized => Cells(row) \subseteq (0 .. GridWidth - 1) \X (0 .. GridHeight - 1)
  BY PlacementFreeIs, InsideCells
<1>8. RoomIsConsistent'
  <2>1. SurfaceTrigger(surface)'
    BY DEF HousingInv, RoomIsConsistent, SurfaceTrigger
  <2>2. \A i \in Rows : placed'[i] # None /\ placed'[i].item \in Sized =>
          Cells(placed'[i]) \subseteq (0 .. GridWidth - 1) \X (0 .. GridHeight - 1)
    BY <1>2, <1>7 DEF HousingInv, RoomIsConsistent
  <2> QED BY <1>6, <2>1, <2>2 DEF RoomIsConsistent
<1>9. ASSUME NEW i \in Rows, NEW j \in Rows, Shared(i, j)' PROVE Shared(i, j)
  <2>1. /\ i # j /\ placed'[i] # None /\ placed'[j] # None
        /\ placed'[i].item \in Sized /\ placed'[j].item \in Sized
        /\ Cells(placed'[i]) \cap Cells(placed'[j]) # {}
    BY <1>9 DEF Shared
  <2>2. placed'[i] \in Row /\ placed'[j] \in Row
    BY <1>2, <2>1
  <2>3. Overlaps(placed'[i], placed'[j]) /\ Overlaps(placed'[j], placed'[i])
    BY <2>1, <2>2, SharedCellsOverlap
  <2>4. i # id /\ j # id
    BY <1>2, <2>1, <2>3, PlacementFreeIs
  <2> QED BY <1>2, <2>1, <2>4 DEF Shared
<1> QED BY <1>2, <1>5, <1>8, <1>9

LEMMA PlaceOutcomeIs ==
  ASSUME HousingInv, NEW id \in Ids \cup ForeignIds, NEW item \in Items, NEW at \in Places
  PROVE  /\ PlaceOutcome(id, item, at) \in Outcomes \ {"failed"}
         /\ PlaceOutcome(id, item, at) = "done" =>
              /\ item \in Furniture /\ id \in Ids /\ placed[id] = None
              /\ Cardinality(PlacedOf(item)) < owned[item]
              /\ PlacementFree([item |-> item, at |-> at], id) = "done"
         /\ PlaceOutcome(id, item, at) = "same" =>
              id \in Ids /\ placed[id] = [item |-> item, at |-> at]
<1>1. owned[item] \in Nat /\ Cardinality(PlacedOf(item)) \in Nat
  BY PlacedIsFinite, HousingConstants DEF HousingInv, HousingTypeOK
<1>2. PlacementFree([item |-> item, at |-> at], id) \in {"done", "outside", "occupied"}
  BY PlacementFreeIs
<1> QED BY <1>1, <1>2 DEF PlaceOutcome, Outcomes
LEMMA PlaceFurnitureKeepsInv ==
  ASSUME HousingInv, NEW via \in {"game", "housing"}, NEW id \in Ids \cup ForeignIds,
         NEW item \in Items, NEW at \in Places, PlaceFurniture(via, id, item, at)
  PROVE  HousingInv' /\ \A i, j \in Rows : Shared(i, j)' => Shared(i, j)
<1> DEFINE row == [item |-> item, at |-> at]
           before == PlaceOutcome(id, item, at)
           outcome == Stored(before, id, row)
<1>1. /\ Answer(via, outcome)
      /\ placed' = IF outcome = "done" THEN [placed EXCEPT ![id] = row] ELSE placed
      /\ told' = IF outcome \in {"done", "same"} THEN [told EXCEPT ![id] = row] ELSE told
      /\ UNCHANGED <<owned, surface, starter, reader>>
  BY DEF PlaceFurniture
<1>2. /\ before \in Outcomes \ {"failed"}
      /\ before = "done" =>
           /\ item \in Furniture /\ id \in Ids /\ placed[id] = None
           /\ Cardinality(PlacedOf(item)) < owned[item] /\ PlacementFree(row, id) = "done"
      /\ before = "same" => id \in Ids /\ placed[id] = row
  BY PlaceOutcomeIs
<1>3. row.item = item /\ row.at = at
  OBVIOUS
<1>4. CASE before = "done"
  <2>1. row \in Row /\ id \in Rows /\ id \in Ids
    BY <1>2, <1>4, ClientRows, HousingConstants
  <2>2. InventoryTrigger([placed EXCEPT ![id] = row], owned, row.item)
    <3>1. IsFiniteSet(PlacedOf(item)) /\ Cardinality(PlacedOf(item)) \in Nat /\ owned[item] \in Nat
      BY PlacedIsFinite, HousingConstants DEF HousingInv, HousingTypeOK
    <3>2. {i \in Rows : [placed EXCEPT ![id] = row][i] # None /\ [placed EXCEPT ![id] = row][i].item = item}
            = PlacedOf(item) \cup {id}
      BY <1>3, <2>1, RowFields DEF PlacedOf, HousingInv, HousingTypeOK
    <3>3. Cardinality(PlacedOf(item) \cup {id}) <= owned[item]
      <4>1. Cardinality(PlacedOf(item)) < owned[item]
        BY <1>2, <1>4
      <4>2. /\ Cardinality(PlacedOf(item) \cup {id}) <= Cardinality(PlacedOf(item)) + 1
            /\ Cardinality(PlacedOf(item) \cup {id}) \in Nat
        BY <3>1, OneMore
      <4> QED BY <3>1, <4>1, <4>2
    <3> QED BY <1>2, <1>3, <1>4, <3>2, <3>3 DEF InventoryTrigger
  <2>3. outcome = "done"
    BY <1>4, <2>2 DEF Stored
  <2> HIDE DEF row, outcome, before
  <2>4. placed' = [placed EXCEPT ![id] = row] /\ told' = [told EXCEPT ![id] = row]
    BY <1>1, <2>3
  <2>5. /\ RoomIsConsistent' /\ placed' \in [Rows -> Row \cup {None}]
        /\ \A i, j \in Rows : Shared(i, j)' => Shared(i, j)
    BY <1>1, <1>2, <1>3, <1>4, <2>1, <2>4, RowStands
  <2>6. /\ reply' \in [via : {"game", "housing", "snapshot"}, status : {200, 404, 409, 422, 500}]
        /\ (reply'.via = "game" => reply'.status # 500)
    BY <1>1, <2>3, AnswerIsReply DEF Outcomes
  <2>7. HousingTypeOK'
    BY <1>1, <2>1, <2>4, <2>5, <2>6 DEF HousingInv, HousingTypeOK
  <2>8. AnswersAreTrue'
    BY <2>1, <2>4, <2>6, HousingConstants DEF HousingInv, HousingTypeOK, AnswersAreTrue
  <2> QED BY <2>5, <2>7, <2>8 DEF HousingInv
<1>5. CASE before # "done"
  <2>1. outcome = before
    BY <1>5 DEF Stored
  <2> HIDE DEF row, outcome, before
  <2>2. placed' = placed
    BY <1>1, <1>5, <2>1
  <2>3. told' = told
    <3>1. CASE before = "same"
      <4>1. id \in Ids /\ told[id] = row /\ told' = [told EXCEPT ![id] = row]
        BY <1>1, <1>2, <2>1, <3>1 DEF HousingInv, AnswersAreTrue
      <4> QED BY <4>1 DEF HousingInv, HousingTypeOK
    <3> QED BY <1>1, <1>5, <2>1, <3>1
  <2>4. /\ reply' \in [via : {"game", "housing", "snapshot"}, status : {200, 404, 409, 422, 500}]
        /\ (reply'.via = "game" => reply'.status # 500)
    BY <1>1, <1>2, <2>1, AnswerIsReply
  <2> QED BY <1>1, <2>2, <2>3, <2>4, OnlyAnswers
<1> QED BY <1>4, <1>5

LEMMA MoveFurnitureKeepsInv ==
  ASSUME HousingInv, NEW via \in {"game", "housing"}, NEW id \in Rows \cup ForeignIds,
         NEW at \in Places, MoveFurniture(via, id, at)
  PROVE  HousingInv' /\ \A i, j \in Rows : Shared(i, j)' => Shared(i, j)
<1> DEFINE row == [item |-> placed[id].item, at |-> at]
           before == MoveOutcome(id, at)
           outcome == Stored(before, id, row)
<1>1. /\ Answer(via, outcome)
      /\ placed' = IF outcome = "done" THEN [placed EXCEPT ![id] = row] ELSE placed
      /\ told' = IF outcome = "done" /\ id \in Ids THEN [told EXCEPT ![id] = row] ELSE told
      /\ UNCHANGED <<owned, surface, starter, reader>>
  BY DEF MoveFurniture
<1>2. /\ before \in {"done", "outside", "occupied", "missing"}
      /\ before = "done" => id \in Rows /\ placed[id] # None /\ PlacementFree(row, id) = "done"
  BY PlacementFreeIs DEF MoveOutcome
<1>3. CASE before = "done"
  <2>1. id \in Rows /\ placed[id] \in Row /\ placed[id].item \in Furniture
    BY <1>2, <1>3, RowFields DEF HousingInv, HousingTypeOK
  <2>2. row \in Row /\ row.item = placed[id].item
    BY <2>1, ClientRows
  <2>3. InventoryTrigger([placed EXCEPT ![id] = row], owned, row.item)
    <3>1. {i \in Rows : [placed EXCEPT ![id] = row][i] # None /\ [placed EXCEPT ![id] = row][i].item = row.item}
            = PlacedOf(row.item)
      <4> HIDE DEF row
      <4> QED BY <1>2, <1>3, <2>1, <2>2, RowFields DEF PlacedOf, HousingInv, HousingTypeOK
    <3> HIDE DEF row
    <3> QED BY <2>1, <2>2, <3>1 DEF InventoryTrigger, HousingInv, RoomIsConsistent
  <2>4. outcome = "done"
    BY <1>3, <2>3 DEF Stored
  <2> HIDE DEF row, outcome, before
  <2>5. placed' = [placed EXCEPT ![id] = row] /\ told' = IF id \in Ids THEN [told EXCEPT ![id] = row] ELSE told
    BY <1>1, <2>4
  <2>6. /\ RoomIsConsistent' /\ placed' \in [Rows -> Row \cup {None}]
        /\ \A i, j \in Rows : Shared(i, j)' => Shared(i, j)
    BY <1>1, <1>2, <1>3, <2>1, <2>2, <2>5, RowStands
  <2>7. /\ reply' \in [via : {"game", "housing", "snapshot"}, status : {200, 404, 409, 422, 500}]
        /\ (reply'.via = "game" => reply'.status # 500)
    BY <1>1, <2>4, AnswerIsReply DEF Outcomes
  <2>8. told' \in [Ids -> Row \cup {None}] /\ \A i \in Ids : told'[i] = IF i = id THEN row ELSE told[i]
    BY <2>2, <2>5 DEF HousingInv, HousingTypeOK
  <2>9. HousingTypeOK'
    BY <1>1, <2>6, <2>7, <2>8 DEF HousingInv, HousingTypeOK
  <2>10. AnswersAreTrue'
    BY <2>1, <2>5, <2>7, <2>8, HousingConstants DEF HousingInv, HousingTypeOK, AnswersAreTrue
  <2> QED BY <2>6, <2>9, <2>10 DEF HousingInv
<1>4. CASE before # "done"
  <2>1. outcome = before
    BY <1>4 DEF Stored
  <2> HIDE DEF row, outcome, before
  <2>2. placed' = placed /\ told' = told
    BY <1>1, <1>4, <2>1
  <2>3. /\ reply' \in [via : {"game", "housing", "snapshot"}, status : {200, 404, 409, 422, 500}]
        /\ (reply'.via = "game" => reply'.status # 500)
    BY <1>1, <1>2, <2>1, AnswerIsReply DEF Outcomes
  <2> QED BY <1>1, <2>2, <2>3, OnlyAnswers
<1> QED BY <1>3, <1>4
LEMMA RemoveFurnitureKeepsInv ==
  ASSUME HousingInv, NEW via \in {"game", "housing"}, NEW id \in Rows \cup ForeignIds,
         RemoveFurniture(via, id)
  PROVE  HousingInv' /\ \A i, j \in Rows : Shared(i, j)' => Shared(i, j)
<1>1. UNCHANGED <<owned, surface, starter, reader>>
  BY DEF RemoveFurniture
<1>2. CASE id \in ForeignIds \/ placed[id] = None
  <2>1. Answer(via, "missing") /\ placed' = placed /\ told' = told
    BY <1>2 DEF RemoveFurniture
  <2>2. /\ reply' \in [via : {"game", "housing", "snapshot"}, status : {200, 404, 409, 422, 500}]
        /\ (reply'.via = "game" => reply'.status # 500)
    BY <2>1, AnswerIsReply DEF Outcomes
  <2> QED BY <1>1, <2>1, <2>2, OnlyAnswers
<1>3. CASE ~(id \in ForeignIds \/ placed[id] = None)
  <2>1. /\ Answer(via, "done") /\ placed' = [placed EXCEPT ![id] = None]
        /\ told' = IF id \in Ids THEN [told EXCEPT ![id] = None] ELSE told
    BY <1>3 DEF RemoveFurniture
  <2>2. /\ reply' \in [via : {"game", "housing", "snapshot"}, status : {200, 404, 409, 422, 500}]
        /\ (reply'.via = "game" => reply'.status # 500)
    BY <2>1, AnswerIsReply DEF Outcomes
  <2>3. /\ placed' \in [Rows -> Row \cup {None}]
        /\ \A i \in Rows : placed'[i] = IF i = id THEN None ELSE placed[i]
        /\ told' \in [Ids -> Row \cup {None}]
        /\ \A i \in Ids : told'[i] = IF i = id THEN None ELSE told[i]
    <3>1. /\ placed \in [Rows -> Row \cup {None}] /\ told \in [Ids -> Row \cup {None}]
          /\ None \in Row \cup {None}
      BY DEF HousingInv, HousingTypeOK
    <3> HIDE DEF Row
    <3>2. placed' \in [Rows -> Row \cup {None}] /\ \A i \in Rows : placed'[i] = IF i = id THEN None ELSE placed[i]
      BY <2>1, <3>1
    <3>3. CASE id \in Ids
      BY <2>1, <3>1, <3>2, <3>3
    <3>4. CASE id \notin Ids
      BY <2>1, <3>1, <3>2, <3>4
    <3> QED BY <3>3, <3>4
  <2>4. HousingTypeOK'
    BY <1>1, <2>2, <2>3 DEF HousingInv, HousingTypeOK
  <2>5. AnswersAreTrue'
    BY <2>2, <2>3, HousingConstants DEF HousingInv, AnswersAreTrue
  <2>6. ASSUME NEW f \in Furniture PROVE Cardinality(PlacedOf(f)') <= owned[f]
    <3>1. PlacedOf(f)' \subseteq PlacedOf(f)
      BY <2>3 DEF PlacedOf
    <3>2. Cardinality(PlacedOf(f)') <= Cardinality(PlacedOf(f)) /\ Cardinality(PlacedOf(f)') \in Nat
      BY <3>1, PlacedIsFinite, FS_Subset, FS_CardinalityType
    <3>3. owned[f] \in Nat /\ Cardinality(PlacedOf(f)) <= owned[f] /\ Cardinality(PlacedOf(f)) \in Nat
      BY PlacedIsFinite, HousingConstants DEF HousingInv, HousingTypeOK, RoomIsConsistent
    <3> QED BY <3>2, <3>3
  <2>7. RoomIsConsistent'
    <3>1. SurfaceTrigger(surface)'
      BY <1>1 DEF HousingInv, RoomIsConsistent, SurfaceTrigger
    <3>2. \A i \in Rows : placed'[i] # None /\ placed'[i].item \in Sized =>
            Cells(placed'[i]) \subseteq (0 .. GridWidth - 1) \X (0 .. GridHeight - 1)
      BY <2>3 DEF HousingInv, RoomIsConsistent
    <3> QED BY <1>1, <2>6, <3>1, <3>2 DEF RoomIsConsistent
  <2>8. \A i, j \in Rows : Shared(i, j)' => Shared(i, j)
    BY <2>3 DEF Shared
  <2> QED BY <2>4, <2>5, <2>7, <2>8 DEF HousingInv
<1> QED BY <1>2, <1>3

LEMMA SurfaceKeepsInv ==
  ASSUME HousingInv, UNCHANGED <<owned, placed, starter, told, reader>>,
         surface' \in [wallpaper : Items \cup {None}, floor : Items \cup {None}],
         SurfaceTrigger(surface'),
         reply' \in [via : {"game", "housing", "snapshot"}, status : {200, 404, 409, 422, 500}],
         reply'.via = "game" => reply'.status # 500
  PROVE  HousingInv' /\ \A i, j \in Rows : Shared(i, j)' => Shared(i, j)
<1>1. HousingTypeOK'
  BY DEF HousingInv, HousingTypeOK
<1>2. SurfaceTrigger(surface)'
  BY DEF SurfaceTrigger
<1>3. RoomIsConsistent' /\ AnswersAreTrue'
  BY <1>2 DEF HousingInv, RoomIsConsistent, AnswersAreTrue, PlacedOf
<1>4. \A i, j \in Rows : Shared(i, j)' => Shared(i, j)
  BY DEF Shared
<1> QED BY <1>1, <1>3, <1>4 DEF HousingInv

LEMMA ApplySurfaceKeepsInv ==
  ASSUME HousingInv, NEW via \in {"game", "housing"}, NEW item \in Items, ApplySurface(via, item)
  PROVE  HousingInv' /\ \A i, j \in Rows : Shared(i, j)' => Shared(i, j)
<1>1. UNCHANGED <<owned, placed, starter, told, reader>>
  BY DEF ApplySurface
<1>2. owned[item] \in Nat /\ surface \in [wallpaper : Items \cup {None}, floor : Items \cup {None}]
  BY HousingConstants DEF HousingInv, HousingTypeOK
<1>3. CASE item \notin Furniture /\ owned[item] # 0
  <2>1. item \in Wallpapers \/ item \in Floors
    BY <1>3 DEF Items
  <2>2. /\ Painted(item) \in [wallpaper : Items \cup {None}, floor : Items \cup {None}]
        /\ \/ item \in Wallpapers /\ Painted(item).wallpaper = item /\ Painted(item).floor = surface.floor
           \/ item \in Floors /\ Painted(item).floor = item /\ Painted(item).wallpaper = surface.wallpaper
    BY <1>2, <2>1 DEF Painted
  <2>3. SurfaceTrigger(Painted(item))
    BY <1>2, <1>3, <2>2 DEF SurfaceTrigger, HousingInv, RoomIsConsistent
  <2>4. Answer(via, "done") /\ surface' = Painted(item)
    BY <1>3, <2>3 DEF ApplySurface
  <2>5. /\ reply' \in [via : {"game", "housing", "snapshot"}, status : {200, 404, 409, 422, 500}]
        /\ (reply'.via = "game" => reply'.status # 500)
    BY <2>4, AnswerIsReply DEF Outcomes
  <2> QED BY <1>1, <2>2, <2>3, <2>4, <2>5, SurfaceKeepsInv
<1>4. CASE ~(item \notin Furniture /\ owned[item] # 0)
  <2>1. (Answer(via, "category") \/ Answer(via, "missing")) /\ surface' = surface
    BY <1>4 DEF ApplySurface
  <2>2. /\ reply' \in [via : {"game", "housing", "snapshot"}, status : {200, 404, 409, 422, 500}]
        /\ (reply'.via = "game" => reply'.status # 500)
    BY <2>1, AnswerIsReply DEF Outcomes
  <2> QED BY <1>1, <2>1, <2>2, OnlyAnswers
<1> QED BY <1>3, <1>4

LEMMA ClearWallpaperKeepsInv ==
  ASSUME HousingInv, ClearWallpaper
  PROVE  HousingInv' /\ \A i, j \in Rows : Shared(i, j)' => Shared(i, j)
<1>1. /\ UNCHANGED <<owned, placed, starter, told, reader>>
      /\ Answer("game", "done") /\ surface' = [surface EXCEPT !.wallpaper = None]
  BY DEF ClearWallpaper
<1>2. surface \in [wallpaper : Items \cup {None}, floor : Items \cup {None}] /\ SurfaceTrigger(surface)
  BY DEF HousingInv, HousingTypeOK, RoomIsConsistent
<1>3. /\ surface' \in [wallpaper : Items \cup {None}, floor : Items \cup {None}]
      /\ surface'.wallpaper = None /\ surface'.floor = surface.floor
  BY <1>1, <1>2
<1>4. SurfaceTrigger(surface')
  BY <1>2, <1>3 DEF SurfaceTrigger
<1>5. /\ reply' \in [via : {"game", "housing", "snapshot"}, status : {200, 404, 409, 422, 500}]
      /\ (reply'.via = "game" => reply'.status # 500)
  BY <1>1, AnswerIsReply DEF Outcomes
<1> QED BY <1>1, <1>3, <1>4, <1>5, SurfaceKeepsInv

\* More is owned than before, and the room is the same.
LEMMA ObtainItemKeepsInv ==
  ASSUME HousingInv, NEW item \in Items, ObtainItem(item)
  PROVE  HousingInv' /\ \A i, j \in Rows : Shared(i, j)' => Shared(i, j)
<1>1. owned' = [owned EXCEPT ![item] = @ + 1] /\ UNCHANGED <<placed, surface, starter, told, reply, reader>>
  BY DEF ObtainItem
<1>2. owned \in [Assets -> Nat] /\ item \in Assets
  BY HousingConstants DEF HousingInv, HousingTypeOK
<1>3. owned' \in [Assets -> Nat] /\ \A a \in Assets : owned'[a] >= owned[a]
  BY <1>1, <1>2
<1>4. HousingTypeOK'
  BY <1>1, <1>3 DEF HousingInv, HousingTypeOK
<1>5. RoomIsConsistent'
  <2>1. ASSUME NEW f \in Furniture PROVE Cardinality(PlacedOf(f)') <= owned'[f]
    <3>1. PlacedOf(f)' = PlacedOf(f) /\ Cardinality(PlacedOf(f)) \in Nat /\ Cardinality(PlacedOf(f)) <= owned[f]
      BY <1>1, PlacedIsFinite DEF PlacedOf, HousingInv, RoomIsConsistent
    <3>2. owned[f] \in Nat /\ owned'[f] \in Nat /\ owned'[f] >= owned[f]
      BY <1>2, <1>3, HousingConstants
    <3> QED BY <3>1, <3>2
  <2>2. SurfaceTrigger(surface)'
    <3>1. SurfaceTrigger(surface)
      BY DEF HousingInv, RoomIsConsistent
    <3>2. \A a \in Wallpapers \cup Floors : owned[a] > 0 => owned'[a] > 0
      BY <1>2, <1>3, HousingConstants DEF Items
    <3> QED BY <1>1, <3>1, <3>2 DEF SurfaceTrigger
  <2> QED BY <1>1, <2>1, <2>2 DEF HousingInv, RoomIsConsistent
<1>6. AnswersAreTrue'
  BY <1>1 DEF HousingInv, AnswersAreTrue
<1>7. \A i, j \in Rows : Shared(i, j)' => Shared(i, j)
  BY <1>1 DEF Shared
<1> QED BY <1>4, <1>5, <1>6, <1>7 DEF HousingInv

-----------------------------------------------------------------------------
(* Housing: the snapshot                                                    *)

ReaderOK(r) ==
  /\ \/ r \in [pc : {"idle", "starter", "assets"}]
     \/ r \in [pc : {"lacking"}, lacks : SUBSET DOMAIN StarterQuantity]
     \/ r \in [pc : {"grant"}, lacks : SUBSET DOMAIN StarterQuantity, empty : BOOLEAN]
     \/ r \in [pc : {"placements"}, assets : [Furniture -> Nat]]
     \/ r \in [pc : {"shown"}, assets : [Furniture -> Nat], standing : [Furniture -> Nat]]
  /\ r.pc \in {"assets", "placements", "shown"} => starter

\* A step of a snapshot that only reads.
LEMMA OnlyReads ==
  ASSUME HousingInv, NEW s \in Readers, NEW r, ReaderOK(r), reader' = [reader EXCEPT ![s] = r],
         UNCHANGED <<owned, placed, surface, starter, told>>,
         reply' = reply \/ (reply'.via = "snapshot" /\ reply' \in [via : {"snapshot"}, status : {200, 500}])
  PROVE  HousingInv'
<1>1. DOMAIN reader' = Readers /\ reader'[s] = r /\ \A u \in Readers \ {s} : reader'[u] = reader[u]
  BY DEF HousingInv, HousingTypeOK
<1>2. /\ reply' \in [via : {"game", "housing", "snapshot"}, status : {200, 404, 409, 422, 500}]
      /\ (reply'.via = "game" => reply'.status # 500)
  BY DEF HousingInv, HousingTypeOK, AnswersAreTrue
<1>3. \A u \in Readers :
       \/ reader'[u] \in [pc : {"idle", "starter", "assets"}]
       \/ reader'[u] \in [pc : {"lacking"}, lacks : SUBSET DOMAIN StarterQuantity]
       \/ reader'[u] \in [pc : {"grant"}, lacks : SUBSET DOMAIN StarterQuantity, empty : BOOLEAN]
       \/ reader'[u] \in [pc : {"placements"}, assets : [Furniture -> Nat]]
       \/ reader'[u] \in [pc : {"shown"}, assets : [Furniture -> Nat], standing : [Furniture -> Nat]]
  BY <1>1 DEF HousingInv, HousingTypeOK, ReaderOK
<1>4. \A u \in Readers : reader'[u].pc \in {"assets", "placements", "shown"} => starter'
  BY <1>1 DEF HousingInv, HousingTypeOK, ReaderOK
<1>5. HousingTypeOK'
  BY <1>1, <1>2, <1>3, <1>4 DEF HousingInv, HousingTypeOK
<1>6. RoomIsConsistent' /\ AnswersAreTrue'
  BY <1>2 DEF HousingInv, RoomIsConsistent, AnswersAreTrue, PlacedOf, SurfaceTrigger
<1> QED BY <1>5, <1>6 DEF HousingInv

LEMMA ReadersAre ==
  ASSUME HousingInv, NEW s \in Readers
  PROVE  ReaderOK(reader[s])
BY DEF HousingInv, HousingTypeOK, ReaderOK

\* The starter pack: what is granted was lacking, and the trigger counts what
\* it puts into the room.
LEMMA GrantStarterKeepsInv ==
  ASSUME HousingInv, NEW s \in Readers, GrantStarter(s)
  PROVE  HousingInv'
<1> DEFINE lacks == reader[s].lacks
           empty == reader[s].empty
<1>1. reader[s].pc = "grant" /\ lacks \in SUBSET DOMAIN StarterQuantity /\ empty \in BOOLEAN
      /\ UNCHANGED <<surface, told>>
  BY ReadersAre DEF GrantStarter, ReaderOK
<1> HIDE DEF lacks, empty
<1>2. CASE ~StarterFits(lacks, empty)
  <2>1. /\ reply' = [via |-> "snapshot", status |-> 500]
        /\ reader' = [reader EXCEPT ![s] = HousingIdle]
        /\ UNCHANGED <<owned, placed, starter>>
    BY <1>2 DEF GrantStarter, lacks, empty
  <2>2. ReaderOK(HousingIdle)
    BY DEF ReaderOK, HousingIdle
  <2> QED BY <1>1, <2>1, <2>2, OnlyReads
<1>3. CASE StarterFits(lacks, empty)
  <2>1. /\ owned' = Granted(lacks) /\ placed' = Furnished(empty) /\ starter' = TRUE
        /\ reader' = [reader EXCEPT ![s] = [pc |-> "assets"]]
        /\ UNCHANGED reply
    BY <1>3 DEF GrantStarter, lacks, empty
  <2>2. /\ owned' \in [Assets -> Nat]
        /\ \A a \in Assets : owned'[a] >= owned[a]
    <3>1. \A a \in lacks : a \in Assets /\ owned[a] = 0 /\ StarterQuantity[a] \in Nat
      BY <1>1, <1>3, HousingAssumption DEF HousingAssumption, StarterFits
    <3> QED BY <2>1, <3>1 DEF Granted, HousingInv, HousingTypeOK
  <2>3. /\ placed' \in [Rows -> Row \cup {None}]
        /\ \A i \in Rows : placed'[i] = IF empty /\ i \in StarterIds THEN StarterRow[i] ELSE placed[i]
    BY <2>1, StarterRows DEF Furnished, HousingInv, HousingTypeOK
  <2>4. DOMAIN reader' = Readers /\ reader'[s] = [pc |-> "assets"] /\ \A u \in Readers \ {s} : reader'[u] = reader[u]
    BY <2>1 DEF HousingInv, HousingTypeOK
  <2>5. \A u \in Readers :
         \/ reader'[u] \in [pc : {"idle", "starter", "assets"}]
         \/ reader'[u] \in [pc : {"lacking"}, lacks : SUBSET DOMAIN StarterQuantity]
         \/ reader'[u] \in [pc : {"grant"}, lacks : SUBSET DOMAIN StarterQuantity, empty : BOOLEAN]
         \/ reader'[u] \in [pc : {"placements"}, assets : [Furniture -> Nat]]
         \/ reader'[u] \in [pc : {"shown"}, assets : [Furniture -> Nat], standing : [Furniture -> Nat]]
    BY <2>4 DEF HousingInv, HousingTypeOK
  <2>6. HousingTypeOK'
    BY <1>1, <2>1, <2>2, <2>3, <2>4, <2>5 DEF HousingInv, HousingTypeOK
  <2>7. ASSUME NEW f \in Furniture PROVE Cardinality(PlacedOf(f)') <= owned'[f]
    <3>1. CASE empty /\ \E t \in StarterIds : StarterRow[t].item = f
      <4>1. InventoryTrigger(placed', owned', f)
        BY <1>3, <2>1, <3>1 DEF StarterFits
      <4> QED BY <4>1 DEF InventoryTrigger, PlacedOf
    <3>2. CASE ~(empty /\ \E t \in StarterIds : StarterRow[t].item = f)
      <4>1. PlacedOf(f)' \subseteq PlacedOf(f)
        BY <2>3, <3>2 DEF PlacedOf
      <4>2. Cardinality(PlacedOf(f)') <= Cardinality(PlacedOf(f)) /\ Cardinality(PlacedOf(f)') \in Nat
        BY <4>1, PlacedIsFinite, FS_Subset, FS_CardinalityType
      <4>3. owned[f] \in Nat /\ Cardinality(PlacedOf(f)) <= owned[f] /\ Cardinality(PlacedOf(f)) \in Nat
        BY PlacedIsFinite, HousingConstants DEF HousingInv, HousingTypeOK, RoomIsConsistent
      <4>4. owned'[f] \in Nat /\ owned'[f] >= owned[f]
        BY <2>2, HousingConstants
      <4> QED BY <4>2, <4>3, <4>4
    <3> QED BY <3>1, <3>2
  <2>8. SurfaceTrigger(surface)'
    <3>1. SurfaceTrigger(surface)
      BY DEF HousingInv, RoomIsConsistent
    <3>2. \A a \in Wallpapers \cup Floors : owned[a] > 0 => owned'[a] > 0
      BY <2>2, HousingConstants DEF Items, HousingInv, HousingTypeOK
    <3> QED BY <1>1, <3>1, <3>2 DEF SurfaceTrigger
  <2>9. ASSUME NEW i \in Rows, placed'[i] # None, placed'[i].item \in Sized
        PROVE  Cells(placed'[i]) \subseteq (0 .. GridWidth - 1) \X (0 .. GridHeight - 1)
    <3>1. CASE empty /\ i \in StarterIds
      <4>1. placed'[i] = StarterRow[i] /\ StarterRow[i] \in Row /\ InsideRoom(StarterRow[i])
        BY <2>3, <2>9, <3>1, StarterRows, HousingAssumption DEF HousingAssumption
      <4> QED BY <2>9, <4>1, InsideCells
    <3>2. CASE ~(empty /\ i \in StarterIds)
      BY <2>3, <2>9, <3>2 DEF HousingInv, RoomIsConsistent
    <3> QED BY <3>1, <3>2
  <2>10. RoomIsConsistent'
    BY <2>7, <2>8, <2>9 DEF RoomIsConsistent
  <2>11. AnswersAreTrue'
    BY <1>1, <2>1, <2>3, HousingConstants DEF HousingInv, AnswersAreTrue
  <2> QED BY <2>6, <2>10, <2>11 DEF HousingInv
<1> QED BY <1>2, <1>3

LEMMA SnapshotKeepsInv ==
  ASSUME HousingInv, NEW s \in Readers, SnapshotStep(s)
  PROVE  HousingInv'
<1>1. CASE OpenSnapshot(s)
  <2>1. ReaderOK([pc |-> IF starter THEN "assets" ELSE "starter"])
    BY DEF ReaderOK
  <2> QED BY <1>1, <2>1, OnlyReads DEF OpenSnapshot
<1>2. CASE LookForAssets(s)
  <2>1. ReaderOK([pc |-> "lacking", lacks |-> {a \in DOMAIN StarterQuantity : owned[a] = 0}])
    BY DEF ReaderOK
  <2> QED BY <1>2, <2>1, OnlyReads DEF LookForAssets
<1>3. CASE LookForPlacements(s)
  <2>1. reader[s].lacks \in SUBSET DOMAIN StarterQuantity
    BY <1>3, ReadersAre DEF ReaderOK, LookForPlacements
  <2>2. ReaderOK([pc |-> "grant", lacks |-> reader[s].lacks, empty |-> \A i \in Rows : placed[i] = None])
    BY <2>1 DEF ReaderOK
  <2> QED BY <1>3, <2>2, OnlyReads DEF LookForPlacements
<1>4. CASE ReadAssets(s)
  <2>1. starter /\ [f \in Furniture |-> owned[f]] \in [Furniture -> Nat]
    BY <1>4, ReadersAre, HousingConstants DEF ReaderOK, ReadAssets, HousingInv, HousingTypeOK
  <2>2. ReaderOK([pc |-> "placements", assets |-> [f \in Furniture |-> owned[f]]])
    BY <2>1 DEF ReaderOK
  <2> QED BY <1>4, <2>2, OnlyReads DEF ReadAssets
<1>5. CASE ReadPlacements(s)
  <2> DEFINE standing == [f \in Furniture |-> Cardinality(PlacedOf(f))]
  <2>1. starter /\ reader[s].assets \in [Furniture -> Nat]
    BY <1>5, ReadersAre DEF ReaderOK, ReadPlacements
  <2>2. standing \in [Furniture -> Nat]
    BY PlacedIsFinite
  <2>3. reader' = [reader EXCEPT ![s] = [pc |-> "shown", assets |-> reader[s].assets, standing |-> standing]]
        /\ UNCHANGED <<owned, placed, surface, starter, told, reply>>
    BY <1>5 DEF ReadPlacements
  <2> HIDE DEF standing
  <2>4. ReaderOK([pc |-> "shown", assets |-> reader[s].assets, standing |-> standing])
    BY <2>1, <2>2 DEF ReaderOK
  <2> QED BY <2>3, <2>4, OnlyReads
<1>6. CASE ShowSnapshot(s)
  <2>1. ReaderOK(HousingIdle)
    BY DEF ReaderOK, HousingIdle
  <2> QED BY <1>6, <2>1, OnlyReads DEF ShowSnapshot
<1> QED BY <1>1, <1>2, <1>3, <1>4, <1>5, <1>6, GrantStarterKeepsInv DEF SnapshotStep

LEMMA CommandKeepsInv ==
  ASSUME HousingInv, HousingCommand \/ \E item \in Items : ObtainItem(item)
  PROVE  HousingInv' /\ \A i, j \in Rows : Shared(i, j)' => Shared(i, j)
BY MoveFurnitureKeepsInv, PlaceFurnitureKeepsInv, RemoveFurnitureKeepsInv, ApplySurfaceKeepsInv,
   ClearWallpaperKeepsInv, ObtainItemKeepsInv DEF HousingCommand

LEMMA HousingStep ==
  ASSUME HousingInv, [HousingNext]_housingVars
  PROVE  HousingInv'
<1>1. CASE UNCHANGED housingVars
  <2>1. HousingTypeOK'
    BY <1>1 DEF HousingInv, HousingTypeOK, housingVars
  <2>2. RoomIsConsistent' /\ AnswersAreTrue'
    BY <1>1 DEF HousingInv, RoomIsConsistent, AnswersAreTrue, PlacedOf, SurfaceTrigger, housingVars
  <2> QED BY <2>1, <2>2 DEF HousingInv
<1> QED BY <1>1, CommandKeepsInv, SnapshotKeepsInv DEF HousingNext

-----------------------------------------------------------------------------
(* Housing: what follows                                                    *)

\* The types of the room, of what clients know of it and of the snapshots:
\* nobody is shown a game without the starter pack.
THEOREM HousingTypeCorrect == HousingSpec => []HousingTypeOK
<1>1. HousingInv => HousingTypeOK
  BY DEF HousingInv
<1> QED BY <1>1, HousingStart, HousingStep, PTL DEF HousingSpec

\* For every catalogue, room and starter pack that fits into it: no more stands
\* in the room than is owned, and all of it inside.
THEOREM RoomConsistent == HousingSpec => []RoomIsConsistent
<1>1. HousingInv => RoomIsConsistent
  BY DEF HousingInv
<1> QED BY <1>1, HousingStart, HousingStep, PTL DEF HousingSpec

\* Every client knows its objects as they stand.
THEOREM AnswersTrue == HousingSpec => []AnswersAreTrue
<1>1. HousingInv => AnswersAreTrue
  BY DEF HousingInv
<1> QED BY <1>1, HousingStart, HousingStep, PTL DEF HousingSpec

\* For every size of room and furniture, no command makes objects overlap.
THEOREM CellsApart == HousingSpec => CommandsKeepCellsApart
<1> DEFINE Apart == (\A s \in Readers : reader[s].pc = "grant" => reader'[s] = reader[s]) =>
                      \A i, j \in Rows : Shared(i, j)' => Shared(i, j)
<1>1. ASSUME HousingInv, NEW s \in Readers, SnapshotStep(s) PROVE Apart
  <2>1. CASE GrantStarter(s)
    <3>1. reader[s].pc = "grant" /\ (reader' = [reader EXCEPT ![s] = HousingIdle]
                                    \/ reader' = [reader EXCEPT ![s] = [pc |-> "assets"]])
      BY <2>1 DEF GrantStarter
    <3>2. reader'[s] = HousingIdle \/ reader'[s] = [pc |-> "assets"]
      BY <1>1, <3>1 DEF HousingInv, HousingTypeOK
    <3>3. reader'[s].pc # "grant"
      BY <3>2 DEF HousingIdle
    <3> QED BY <3>1, <3>3
  <2>2. CASE UNCHANGED placed
    BY <2>2 DEF Shared
  <2> HIDE DEF Apart
  <2> QED BY <1>1, <2>1, <2>2 DEF SnapshotStep, OpenSnapshot, LookForAssets, LookForPlacements,
             ReadAssets, ReadPlacements, ShowSnapshot
<1>2. ASSUME HousingInv, HousingCommand \/ \E item \in Items : ObtainItem(item) PROVE Apart
  BY <1>2, CommandKeepsInv
<1> HIDE DEF Apart
<1>3. HousingInv /\ [HousingNext]_housingVars => [Apart]_housingVars
  BY <1>1, <1>2 DEF HousingNext
<1>4. HousingSpec => [][Apart]_housingVars
  BY <1>3, HousingStart, HousingStep, PTL DEF HousingSpec
<1> QED BY <1>4 DEF CommandsKeepCellsApart, Apart

-----------------------------------------------------------------------------
(* LearningProgress: constants                                              *)
Tiers == {"BRONZE", "SILVER", "GOLD"}

LEMMA LearningConstants ==
  /\ Range(Difficulties) = Tiers /\ DifficultyOf \in [Tasks -> Tiers]
  /\ Required["BRONZE"] \in Nat /\ Required["SILVER"] \in Nat
  /\ IsFiniteSet(Tasks) /\ HasChoice \subseteq Opened /\ Opened \subseteq Tasks
  /\ MaxAttempts \in Nat \ {0} /\ MaxPresentations \in Nat \ {0} /\ LastDay \in Nat \ {0}
  /\ NoRow \notin Tiers /\ NoRow # "CODE" /\ NoRow # "MULTIPLE_CHOICE"
<1>1. Range(Difficulties) = Tiers
  BY DEF Range, Difficulties, Tiers
<1> QED BY <1>1, LearningAssumption, RecommendationsAssumption

-----------------------------------------------------------------------------
(* The level of a concept                                                   *)

LEMMA RoundedIsPercent ==
  ASSUME NEW n \in Nat, NEW d \in Nat \ {0}, n <= 100 * d
  PROVE  Rounded(n, d) \in 0 .. 100
<1>1. /\ n \div d \in Nat /\ n % d \in Nat /\ n % d < d /\ n = d * (n \div d) + (n % d)
  OBVIOUS
<1>2. PICK q, r : q = n \div d /\ r = n % d
  OBVIOUS
<1>3. q \in Nat /\ r \in Nat /\ r < d /\ n = d * q + r
  BY <1>1, <1>2
<1>4. q <= 100
  <2>1. SUFFICES ASSUME q >= 101 PROVE FALSE
    BY <1>3
  <2>2. PICK e \in Nat : q = 101 + e
    BY <1>3, <2>1
  <2>3. d * q = 101 * d + d * e /\ d * e \in Nat
    BY <2>2
  <2> QED BY <1>3, <2>3
<1>5. q = 100 => r = 0
  BY <1>3
<1>6. Rounded(n, d) = IF 2 * r > d \/ (2 * r = d /\ q % 2 = 1) THEN q + 1 ELSE q
  BY <1>2 DEF Rounded
<1> QED BY <1>3, <1>4, <1>5, <1>6

LEMMA SequenceFacts ==
  ASSUME NEW S, NEW h \in Seq(S)
  PROVE  /\ Len(h) \in Nat /\ DOMAIN h = 1 .. Len(h)
         /\ \A i \in 1 .. Len(h) : h[i] \in S
  OBVIOUS

LEMMA LevelIsPercent ==
  ASSUME NEW S, NEW h \in Seq(S), NEW c
  PROVE  LevelOf(c, h) \in 0 .. 100
<1> DEFINE answers == RecentAnswersTo(c, h)
           right == {i \in answers : h[i].verdict = "right"}
<1>1. answers \subseteq 1 .. Len(h) /\ Len(h) \in Nat
  BY SequenceFacts DEF RecentAnswersTo, AnswersTo
<1>2. IsFiniteSet(1 .. Len(h))
  BY <1>1, FS_Interval
<1>3. IsFiniteSet(answers) /\ Cardinality(answers) \in Nat
  BY <1>1, <1>2, FS_Subset, FS_CardinalityType
<1>4. Cardinality(right) \in Nat /\ Cardinality(right) <= Cardinality(answers)
  BY <1>3, FS_Subset, FS_CardinalityType
<1>5. answers # {} => Cardinality(answers) # 0
  BY <1>3, FS_EmptySet
<1>6. LevelOf(c, h) = IF answers = {} THEN 0
                      ELSE Rounded(100 * Cardinality(right), Cardinality(answers))
  BY DEF LevelOf
<1> HIDE DEF answers, right
<1>7. CASE answers = {}
  BY <1>6, <1>7
<1>8. CASE answers # {}
  <2>1. PICK n, d : n = Cardinality(right) /\ d = Cardinality(answers)
    OBVIOUS
  <2>2. 100 * n \in Nat /\ d \in Nat \ {0} /\ 100 * n <= 100 * d
    BY <1>3, <1>4, <1>5, <1>8, <2>1
  <2> QED BY <1>6, <1>8, <2>1, <2>2, RoundedIsPercent
<1> QED BY <1>7, <1>8

LEMMA SameLevel ==
  ASSUME NEW g, NEW h, NEW c,
         AnswersTo(c, g) = AnswersTo(c, h),
         \A i \in AnswersTo(c, h) : g[i] = h[i]
  PROVE  LevelOf(c, g) = LevelOf(c, h)
<1>1. RecentAnswersTo(c, g) = RecentAnswersTo(c, h) /\ RecentAnswersTo(c, h) \subseteq AnswersTo(c, h)
  BY DEF RecentAnswersTo
<1>2. {i \in RecentAnswersTo(c, g) : g[i].verdict = "right"}
        = {i \in RecentAnswersTo(c, h) : h[i].verdict = "right"}
  BY <1>1
<1> QED BY <1>1, <1>2 DEF LevelOf

-----------------------------------------------------------------------------
(* Histories since the reset                                                *)

From(h, s) == SubSeq(h, s + 1, Len(h))
Verdicts == {"pending", "right", "wrong"}
Judged(h, i, verdict) == [h EXCEPT ![i].verdict = verdict]

LEMMA FromFacts ==
  ASSUME NEW S, NEW h \in Seq(S), NEW s \in 0 .. Len(h)
  PROVE  /\ From(h, s) \in Seq(S) /\ Len(From(h, s)) = Len(h) - s
         /\ DOMAIN From(h, s) = 1 .. Len(h) - s
         /\ \A i \in 1 .. Len(h) - s : From(h, s)[i] = h[s + i]
<1>1. Len(h) \in Nat /\ s + 1 \in Int /\ \A i \in s + 1 .. Len(h) : h[i] \in S
  BY SequenceFacts
<1>2. /\ From(h, s) \in Seq(S)
      /\ Len(From(h, s)) = IF s + 1 <= Len(h) THEN Len(h) - (s + 1) + 1 ELSE 0
      /\ \A i \in 1 .. Len(h) - (s + 1) + 1 : From(h, s)[i] = h[s + 1 + i - 1]
  BY <1>1, SubSeqProperties DEF From
<1> HIDE DEF From
<1>3. Len(From(h, s)) = Len(h) - s
  BY <1>1, <1>2
<1>4. ASSUME NEW i \in 1 .. Len(h) - s PROVE From(h, s)[i] = h[s + i]
  <2>1. s + 1 + i - 1 = s + i /\ i \in 1 .. Len(h) - (s + 1) + 1
    BY <1>1
  <2> QED BY <1>2, <2>1
<1> QED BY <1>2, <1>3, <1>4, SequenceFacts

LEMMA SameAttempt ==
  ASSUME NEW a \in AttemptType, NEW b \in AttemptType,
         a.task = b.task, a.verdict = b.verdict, a.pres = b.pres
  PROVE  a = b
  BY DEF AttemptType

LEMMA JudgedFacts ==
  ASSUME NEW h \in Seq(AttemptType), NEW i \in 1 .. Len(h), NEW v \in Verdicts
  PROVE  /\ Judged(h, i, v) \in Seq(AttemptType) /\ Len(Judged(h, i, v)) = Len(h)
         /\ \A j \in 1 .. Len(h) : j # i => Judged(h, i, v)[j] = h[j]
         /\ Judged(h, i, v)[i].task = h[i].task /\ Judged(h, i, v)[i].verdict = v
         /\ Judged(h, i, v)[i].pres = h[i].pres
<1>1. h[i] \in AttemptType /\ Len(h) \in Nat
  BY SequenceFacts
<1>2. /\ [h[i] EXCEPT !.verdict = v] \in AttemptType
      /\ [h[i] EXCEPT !.verdict = v].task = h[i].task
      /\ [h[i] EXCEPT !.verdict = v].pres = h[i].pres
      /\ [h[i] EXCEPT !.verdict = v].verdict = v
  BY <1>1 DEF AttemptType, Verdicts
<1>3. PICK a : a = [h[i] EXCEPT !.verdict = v]
  OBVIOUS
<1>4. Judged(h, i, v) = [h EXCEPT ![i] = a]
  BY <1>3 DEF Judged
<1>5. a \in AttemptType /\ a.task = h[i].task /\ a.verdict = v /\ a.pres = h[i].pres
  BY <1>2, <1>3
<1>6. /\ [h EXCEPT ![i] = a] \in Seq(AttemptType) /\ Len([h EXCEPT ![i] = a]) = Len(h)
      /\ [h EXCEPT ![i] = a][i] = a
      /\ \A j \in 1 .. Len(h) : j # i => [h EXCEPT ![i] = a][j] = h[j]
  BY <1>5, ExceptSeq
<1> QED BY <1>3, <1>4, <1>5, <1>6

\* f is h with verdict v on answer i.
Differs(f, h, i, v) ==
  /\ f \in Seq(AttemptType) /\ Len(f) = Len(h)
  /\ f[i].task = h[i].task /\ f[i].verdict = v /\ f[i].pres = h[i].pres
  /\ \A j \in 1 .. Len(h) : j # i => f[j] = h[j]

LEMMA JudgedDiffers ==
  ASSUME NEW h \in Seq(AttemptType), NEW i \in 1 .. Len(h), NEW v \in Verdicts
  PROVE  Differs(Judged(h, i, v), h, i, v)
BY JudgedFacts DEF Differs

\* A stored level l of concept c that history h, reset at s, explains.
LevelExplained(h, s, c, l) ==
  \E i \in s + 1 .. Len(h) :
    /\ ConceptOf[h[i].task] = c /\ Decided(h[i])
    /\ l = LevelOf(c, From(Judged(h, i, "pending"), s))

LEMMA SameAnswers ==
  ASSUME NEW g \in Seq(AttemptType), NEW h \in Seq(AttemptType), NEW s \in 0 .. Len(h), NEW c,
         Len(h) <= Len(g),
         \A j \in s + 1 .. Len(h) :
           h[j] = g[j] \/ (ConceptOf[h[j].task] # c /\ ConceptOf[g[j].task] # c),
         \A j \in Len(h) + 1 .. Len(g) : ~Decided(g[j])
  PROVE  LevelOf(c, From(g, s)) = LevelOf(c, From(h, s))
<1>1. /\ Len(g) \in Nat /\ Len(h) \in Nat /\ s \in Nat /\ s <= Len(h) /\ s \in 0 .. Len(g)
  BY SequenceFacts
<1>2. /\ DOMAIN From(h, s) = 1 .. Len(h) - s
      /\ \A i \in 1 .. Len(h) - s : From(h, s)[i] = h[s + i]
  BY FromFacts
<1>3. /\ DOMAIN From(g, s) = 1 .. Len(g) - s
      /\ \A i \in 1 .. Len(g) - s : From(g, s)[i] = g[s + i]
  BY <1>1, FromFacts
<1>4. \A i \in 1 .. Len(h) - s : i \in 1 .. Len(g) - s /\ s + i \in s + 1 .. Len(h)
  BY <1>1
<1>5. \A i \in 1 .. Len(g) - s : i \notin 1 .. Len(h) - s => s + i \in Len(h) + 1 .. Len(g)
  BY <1>1
<1> HIDE DEF From
<1>6. ASSUME NEW i \in 1 .. Len(h) - s
      PROVE  From(h, s)[i] = From(g, s)[i]
             \/ (ConceptOf[From(h, s)[i].task] # c /\ ConceptOf[From(g, s)[i].task] # c)
  BY <1>2, <1>3, <1>4
<1>7. ASSUME NEW i \in 1 .. Len(g) - s, i \notin 1 .. Len(h) - s PROVE ~Decided(From(g, s)[i])
  BY <1>3, <1>5, <1>7
<1>8. AnswersTo(c, From(g, s)) = AnswersTo(c, From(h, s))
  <2>1. ASSUME NEW i \in AnswersTo(c, From(g, s)) PROVE i \in AnswersTo(c, From(h, s))
    <3>1. i \in 1 .. Len(g) - s /\ Decided(From(g, s)[i]) /\ ConceptOf[From(g, s)[i].task] = c
      BY <1>3 DEF AnswersTo
    <3>2. i \in 1 .. Len(h) - s
      BY <1>7, <3>1
    <3>3. From(h, s)[i] = From(g, s)[i]
      BY <1>6, <3>1, <3>2
    <3> QED BY <1>2, <3>1, <3>2, <3>3 DEF AnswersTo
  <2>2. ASSUME NEW i \in AnswersTo(c, From(h, s)) PROVE i \in AnswersTo(c, From(g, s))
    <3>1. i \in 1 .. Len(h) - s /\ Decided(From(h, s)[i]) /\ ConceptOf[From(h, s)[i].task] = c
      BY <1>2 DEF AnswersTo
    <3>2. From(h, s)[i] = From(g, s)[i]
      BY <1>6, <3>1
    <3> QED BY <1>3, <1>4, <3>1, <3>2 DEF AnswersTo
  <2> QED BY <2>1, <2>2
<1>9. \A i \in AnswersTo(c, From(h, s)) : From(g, s)[i] = From(h, s)[i]
  BY <1>2, <1>6 DEF AnswersTo
<1> QED BY <1>8, <1>9, SameLevel

LEMMA LevelStaysExplained ==
  ASSUME NEW g \in Seq(AttemptType), NEW h \in Seq(AttemptType), NEW s \in 0 .. Len(h), NEW c, NEW l,
         Len(h) <= Len(g),
         \A j \in s + 1 .. Len(h) :
           h[j] = g[j] \/ (ConceptOf[h[j].task] # c /\ ConceptOf[g[j].task] # c),
         \A j \in Len(h) + 1 .. Len(g) : ~Decided(g[j]),
         LevelExplained(h, s, c, l)
  PROVE  LevelExplained(g, s, c, l)
<1>1. PICK i \in s + 1 .. Len(h) :
        /\ ConceptOf[h[i].task] = c /\ Decided(h[i])
        /\ l = LevelOf(c, From(Judged(h, i, "pending"), s))
  BY DEF LevelExplained
<1>2. /\ Len(g) \in Nat /\ Len(h) \in Nat /\ s \in Nat
      /\ i \in 1 .. Len(h) /\ i \in 1 .. Len(g) /\ i \in s + 1 .. Len(g)
  BY SequenceFacts
<1>3. h[i] = g[i]
  BY <1>1
<1> DEFINE hp == Judged(h, i, "pending")
           gp == Judged(g, i, "pending")
<1>4. Differs(hp, h, i, "pending") /\ Differs(gp, g, i, "pending")
  <2>1. "pending" \in Verdicts
    BY DEF Verdicts
  <2> QED BY <1>2, <2>1, JudgedDiffers
<1> HIDE DEF hp, gp
<1>5. /\ hp \in Seq(AttemptType) /\ Len(hp) = Len(h)
      /\ hp[i].task = h[i].task /\ hp[i].verdict = "pending" /\ hp[i].pres = h[i].pres
      /\ \A j \in 1 .. Len(h) : j # i => hp[j] = h[j]
  BY <1>4 DEF Differs
<1>6. /\ gp \in Seq(AttemptType) /\ Len(gp) = Len(g)
      /\ gp[i].task = g[i].task /\ gp[i].verdict = "pending" /\ gp[i].pres = g[i].pres
      /\ \A j \in 1 .. Len(g) : j # i => gp[j] = g[j]
  BY <1>4 DEF Differs
<1>7. hp[i] = gp[i]
  <2>1. hp[i] \in AttemptType /\ gp[i] \in AttemptType
    BY <1>2, <1>5, <1>6, SequenceFacts
  <2> QED BY <1>3, <1>5, <1>6, <2>1, SameAttempt
<1>8. ASSUME NEW j \in s + 1 .. Len(hp)
      PROVE  hp[j] = gp[j] \/ (ConceptOf[hp[j].task] # c /\ ConceptOf[gp[j].task] # c)
  <2>1. j \in s + 1 .. Len(h) /\ j \in 1 .. Len(h) /\ j \in 1 .. Len(g)
    BY <1>2, <1>5
  <2>2. CASE j = i
    BY <1>7, <2>2
  <2>3. CASE j # i
    BY <1>5, <1>6, <2>1, <2>3
  <2> QED BY <2>2, <2>3
<1>9. ASSUME NEW j \in Len(hp) + 1 .. Len(gp) PROVE ~Decided(gp[j])
  <2>1. j \in Len(h) + 1 .. Len(g) /\ j \in 1 .. Len(g) /\ j # i
    BY <1>2, <1>5, <1>6
  <2> QED BY <1>6, <2>1
<1>10. LevelOf(c, From(gp, s)) = LevelOf(c, From(hp, s))
  <2>1. s \in 0 .. Len(hp) /\ Len(hp) <= Len(gp)
    BY <1>5, <1>6
  <2> QED BY <1>5, <1>6, <1>8, <1>9, <2>1, SameAnswers
<1> QED BY <1>1, <1>2, <1>3, <1>10 DEF LevelExplained, hp, gp

\* The first answer judged explains the level computed without it.
LEMMA JudgingExplains ==
  ASSUME NEW h \in Seq(AttemptType), NEW s \in 0 .. Len(h), NEW i \in s + 1 .. Len(h),
         h[i].verdict = "pending", NEW v \in Verdicts, v # "pending"
  PROVE  LevelExplained(Judged(h, i, v), s, ConceptOf[h[i].task], LevelOf(ConceptOf[h[i].task], From(h, s)))
<1>1. i \in 1 .. Len(h) /\ Len(h) \in Nat /\ h[i] \in AttemptType
  BY SequenceFacts
<1> DEFINE g == Judged(h, i, v)
<1>2. /\ g \in Seq(AttemptType) /\ Len(g) = Len(h)
      /\ g[i].task = h[i].task /\ g[i].verdict = v /\ g[i].pres = h[i].pres
      /\ \A j \in 1 .. Len(h) : j # i => g[j] = h[j]
  <2>1. Differs(g, h, i, v)
    BY <1>1, JudgedDiffers
  <2> QED BY <2>1 DEF Differs
<1> HIDE DEF g
<1> DEFINE b == Judged(g, i, "pending")
<1>3. /\ b \in Seq(AttemptType) /\ Len(b) = Len(g)
      /\ b[i].task = g[i].task /\ b[i].verdict = "pending" /\ b[i].pres = g[i].pres
      /\ \A j \in 1 .. Len(g) : j # i => b[j] = g[j]
  <2>1. "pending" \in Verdicts /\ i \in 1 .. Len(g)
    BY <1>1, <1>2 DEF Verdicts
  <2>2. Differs(b, g, i, "pending")
    BY <1>2, <2>1, JudgedDiffers
  <2> QED BY <2>2 DEF Differs
<1> HIDE DEF b
<1>4. b[i] = h[i]
  <2>1. b[i] \in AttemptType /\ h[i] \in AttemptType
    BY <1>1, <1>2, <1>3, SequenceFacts
  <2> QED BY <1>2, <1>3, <2>1, SameAttempt
<1>5. b = h
  <2>1. Len(b) = Len(h) /\ \A j \in 1 .. Len(h) : b[j] = h[j]
    BY <1>2, <1>3, <1>4
  <2> QED BY <1>3, <2>1, SeqEqual
<1>6. i \in s + 1 .. Len(g) /\ ConceptOf[g[i].task] = ConceptOf[h[i].task] /\ Decided(g[i])
  BY <1>2 DEF Decided, Verdicts
<1>7. LevelExplained(g, s, ConceptOf[h[i].task], LevelOf(ConceptOf[h[i].task], From(h, s)))
  BY <1>5, <1>6 DEF LevelExplained, b
<1> QED BY <1>7 DEF g

-----------------------------------------------------------------------------
(* Tasks solved, and the tier that stands on them                           *)

SolvedFrom(h, s) ==
  {t \in Tasks : \E j \in s + 1 .. Len(h) : h[j].verdict = "right" /\ h[j].task = t}
Standing(h, s, d) == Cardinality({t \in SolvedFrom(h, s) : DifficultyOf[t] = d}) >= Required[d]

TierExplained(h, s, t) ==
  /\ t \in {"SILVER", "GOLD"} => Standing(h, s, "BRONZE")
  /\ t = "GOLD" => Standing(h, s, "SILVER")

LEMMA SolvedIsFrom ==
  ASSUME NEW h \in Seq(AttemptType), NEW s \in 0 .. Len(h)
  PROVE  {a.task : a \in {b \in Range(From(h, s)) : b.verdict = "right"}} = SolvedFrom(h, s)
<1>1. /\ Len(h) \in Nat /\ s \in Nat /\ DOMAIN From(h, s) = 1 .. Len(h) - s
      /\ \A i \in 1 .. Len(h) - s : From(h, s)[i] = h[s + i]
      /\ \A i \in 1 .. Len(h) : h[i].task \in Tasks
  <2>1. Len(h) \in Nat /\ \A i \in 1 .. Len(h) : h[i] \in AttemptType
    BY SequenceFacts
  <2>2. \A i \in 1 .. Len(h) : h[i].task \in Tasks
    BY <2>1 DEF AttemptType
  <2>3. /\ DOMAIN From(h, s) = 1 .. Len(h) - s
        /\ \A i \in 1 .. Len(h) - s : From(h, s)[i] = h[s + i]
    BY FromFacts
  <2> QED BY <2>1, <2>2, <2>3
<1> HIDE DEF From
<1>2. \A i \in 1 .. Len(h) - s : s + i \in s + 1 .. Len(h) /\ s + i \in 1 .. Len(h)
  BY <1>1
<1>3. \A j \in s + 1 .. Len(h) : j - s \in 1 .. Len(h) - s /\ s + (j - s) = j
  BY <1>1
<1>4. Range(From(h, s)) = {h[j] : j \in s + 1 .. Len(h)}
  <2>1. ASSUME NEW a \in Range(From(h, s)) PROVE \E j \in s + 1 .. Len(h) : a = h[j]
    BY <1>1, <1>2 DEF Range
  <2>2. ASSUME NEW j \in s + 1 .. Len(h) PROVE h[j] \in Range(From(h, s))
    <3>1. From(h, s)[j - s] = h[j]
      BY <1>1, <1>3
    <3> QED BY <1>1, <1>3, <3>1 DEF Range
  <2> QED BY <2>1, <2>2
<1>5. \A j \in s + 1 .. Len(h) : h[j].task \in Tasks
  BY <1>1, <1>2, <1>3
<1> QED BY <1>4, <1>5 DEF SolvedFrom

LEMMA StandingGrows ==
  ASSUME NEW g, NEW h, NEW s, NEW r, NEW d \in {"BRONZE", "SILVER"},
         SolvedFrom(h, s) \subseteq SolvedFrom(g, r), Standing(h, s, d)
  PROVE  Standing(g, r, d)
<1> DEFINE few == {t \in SolvedFrom(h, s) : DifficultyOf[t] = d}
           many == {t \in SolvedFrom(g, r) : DifficultyOf[t] = d}
<1>1. few \subseteq many /\ many \subseteq Tasks
  BY DEF SolvedFrom
<1>2. IsFiniteSet(many)
  BY <1>1, LearningConstants, FS_Subset
<1>3. Cardinality(few) \in Nat /\ Cardinality(many) \in Nat /\ Cardinality(few) <= Cardinality(many)
  BY <1>1, <1>2, FS_Subset, FS_CardinalityType
<1>4. Cardinality(few) >= Required[d] /\ Required[d] \in Nat
  BY LearningConstants DEF Standing
<1> QED BY <1>3, <1>4 DEF Standing

LEMMA MetStands ==
  ASSUME NEW h \in Seq(AttemptType), since \in 0 .. Len(h), NEW d \in {"BRONZE", "SILVER"}, Met(d, h)
  PROVE  Standing(h, since, d)
<1>1. Solved(h) = SolvedFrom(h, since)
  BY SolvedIsFrom DEF Solved, SinceReset, From
<1> DEFINE few == {t \in SolvedFrom(h, since) \cap active : DifficultyOf[t] = d}
           many == {t \in SolvedFrom(h, since) : DifficultyOf[t] = d}
<1>2. few \subseteq many /\ many \subseteq Tasks
  BY DEF SolvedFrom
<1>3. IsFiniteSet(many)
  BY <1>2, LearningConstants, FS_Subset
<1>4. Cardinality(few) \in Nat /\ Cardinality(many) \in Nat /\ Cardinality(few) <= Cardinality(many)
  BY <1>2, <1>3, FS_Subset, FS_CardinalityType
<1>5. Cardinality(few) >= Required[d]
  BY <1>1 DEF Met
<1>6. Required[d] \in Nat
  BY LearningConstants
<1> QED BY <1>4, <1>5, <1>6 DEF Standing

LEMMA AdvancedIsExplained ==
  ASSUME NEW h \in Seq(AttemptType), since \in 0 .. Len(h), tier \in Tiers \cup {NoRow},
         TierExplained(h, since, tier)
  PROVE  Advanced(h) \in Tiers /\ TierExplained(h, since, Advanced(h))
<1>1. /\ Met("BRONZE", h) => Standing(h, since, "BRONZE")
      /\ Met("SILVER", h) => Standing(h, since, "SILVER")
  BY MetStands
<1>2. NoRow \notin Tiers
  BY LearningConstants
<1> QED BY <1>1, <1>2 DEF Advanced, Promoted, TierExplained, Tiers

-----------------------------------------------------------------------------
(* The invariant                                                            *)

ShownType == [type : {NoRow, "CODE", "MULTIPLE_CHOICE"}, n : 0 .. MaxPresentations]

LearningInv ==
  /\ LearningTypeOK
  /\ TierExplained(attempts, since, tier)
  /\ \A c \in Concepts : level[c] # NoRow => LevelExplained(attempts, since, c, level[c])

LEMMA LearningTypes ==
  ASSUME LearningTypeOK
  PROVE  /\ attempts \in Seq(AttemptType) /\ since \in 0 .. Len(attempts)
         /\ Len(attempts) \in Nat /\ DOMAIN attempts = 1 .. Len(attempts)
         /\ tier \in Tiers \cup {NoRow} /\ shown \in [Opened -> ShownType]
         /\ level \in [Concepts -> 0 .. 100 \cup {NoRow}]
         /\ active \subseteq Tasks /\ day \in 1 .. LastDay
         /\ \A i \in 1 .. Len(attempts) :
              attempts[i].pres # 0 =>
                attempts[i].task \in Opened /\ attempts[i].pres <= shown[attempts[i].task].n
<1>1. attempts \in Seq(AttemptType)
  BY DEF LearningTypeOK
<1>2. Len(attempts) \in Nat /\ DOMAIN attempts = 1 .. Len(attempts)
  BY <1>1, SequenceFacts
<1> QED BY <1>1, <1>2, LearningConstants DEF LearningTypeOK, ShownType

\* A step that leaves answers, reset and levels alone and may advance the tier.
LEMMA TierMoves ==
  ASSUME LearningInv, UNCHANGED <<attempts, since, level>>,
         tier' = tier \/ tier' = Advanced(attempts),
         shown' \in [Opened -> ShownType],
         \A t \in Opened : shown[t].n <= shown'[t].n,
         active' \subseteq Tasks, day' \in 1 .. LastDay
  PROVE  LearningInv'
<1>1. LearningTypeOK
  BY DEF LearningInv
<1>2. tier' \in Tiers \cup {NoRow} /\ TierExplained(attempts, since, tier')
  BY <1>1, LearningTypes, AdvancedIsExplained DEF LearningInv
<1>3. ASSUME NEW i \in DOMAIN attempts, attempts[i].pres # 0
      PROVE  attempts[i].task \in Opened /\ attempts[i].pres <= shown'[attempts[i].task].n
  <2>1. /\ attempts[i] \in AttemptType /\ attempts[i].task \in Opened
        /\ attempts[i].pres <= shown[attempts[i].task].n
    BY <1>1, <1>3, LearningTypes, SequenceFacts
  <2>2. PICK t, p, m, n : /\ t = attempts[i].task /\ p = attempts[i].pres
                          /\ m = shown[t].n /\ n = shown'[t].n
    OBVIOUS
  <2>3. p \in Nat /\ m \in Nat /\ n \in Nat /\ m <= n /\ p <= m
    BY <1>1, <2>1, <2>2, LearningTypes, LearningConstants DEF AttemptType, ShownType
  <2> QED BY <2>1, <2>2, <2>3
<1>4. LearningTypeOK'
  BY <1>1, <1>2, <1>3, LearningConstants DEF LearningTypeOK, ShownType
<1> QED BY <1>2, <1>4 DEF LearningInv

LEMMA InitEstablishesLearningInv == LearningInit => LearningInv
<1> SUFFICES ASSUME LearningInit PROVE LearningInv
  OBVIOUS
<1>1. /\ attempts = <<>> /\ since = 0 /\ tier = NoRow /\ day = 1 /\ active = Tasks
      /\ level = [c \in Concepts |-> NoRow] /\ shown = [t \in Opened |-> NothingShown]
  BY DEF LearningInit
<1>2. attempts \in Seq(AttemptType) /\ Len(attempts) = 0 /\ DOMAIN attempts = {}
  BY <1>1
<1>3. NothingShown \in [type : {NoRow, "CODE", "MULTIPLE_CHOICE"}, n : 0 .. MaxPresentations]
  BY LearningConstants DEF NothingShown
<1>4. LearningTypeOK
  BY <1>1, <1>2, <1>3, LearningConstants DEF LearningTypeOK
<1> QED BY <1>1, <1>4, LearningConstants DEF LearningInv, TierExplained, Tiers

LEMMA QuietStepsKeepLearningInv ==
  ASSUME LearningInv,
         ReadTier \/ Tomorrow \/ UNCHANGED learningVars
           \/ (\E t \in Opened : Start(t)) \/ (\E t \in Retirable : Deactivate(t) \/ Activate(t))
  PROVE  LearningInv'
<1>0. LearningTypeOK
  BY DEF LearningInv
<1>1. CASE ReadTier
  BY <1>0, <1>1, TierMoves, LearningTypes, LearningConstants DEF ReadTier, ShownType
<1>2. CASE Tomorrow
  BY <1>0, <1>2, TierMoves, LearningTypes, LearningConstants DEF Tomorrow, ShownType
<1>3. CASE UNCHANGED learningVars
  BY <1>0, <1>3, TierMoves, LearningTypes, LearningConstants DEF learningVars, ShownType
<1>4. ASSUME NEW t \in Opened, Start(t) PROVE LearningInv'
  <2>1. PICK type \in Types(t) : shown' = [shown EXCEPT ![t] = [type |-> type, n |-> @.n + 1]]
    BY <1>4 DEF Start
  <2>2. shown[t].n < MaxPresentations /\ UNCHANGED <<attempts, since, level, active, day>>
        /\ tier' = Advanced(attempts)
    BY <1>4 DEF Start
  <2>3. shown \in [Opened -> ShownType] /\ shown[t].n \in 0 .. MaxPresentations
    BY <1>0, LearningTypes DEF ShownType
  <2>4. type \in {"CODE", "MULTIPLE_CHOICE"}
    BY DEF Types
  <2>5. PICK q : q = [type |-> type, n |-> shown[t].n + 1]
    OBVIOUS
  <2>6. q \in ShownType /\ q.n = shown[t].n + 1
    BY <2>2, <2>3, <2>4, <2>5, LearningConstants DEF ShownType
  <2>7. shown' = [shown EXCEPT ![t] = q]
    BY <2>1, <2>5
  <2>8. shown' \in [Opened -> ShownType] /\ \A u \in Opened : shown'[u] = IF u = t THEN q ELSE shown[u]
    BY <2>3, <2>6, <2>7
  <2>9. \A u \in Opened : shown[u].n \in Nat
    BY <2>3, LearningConstants DEF ShownType
  <2>10. \A u \in Opened : shown[u].n <= shown'[u].n
    BY <2>6, <2>8, <2>9
  <2> QED BY <1>0, <2>2, <2>8, <2>10, TierMoves, LearningTypes
<1>5. ASSUME NEW t \in Retirable, Deactivate(t) \/ Activate(t) PROVE LearningInv'
  <2>1. UNCHANGED <<attempts, since, tier, level, shown, day>> /\ active' \subseteq Tasks
    BY <1>0, <1>5, LearningTypes, LearningAssumption DEF Deactivate, Activate
  <2> QED BY <1>0, <2>1, TierMoves, LearningTypes, LearningConstants DEF ShownType
<1> QED BY <1>1, <1>2, <1>3, <1>4, <1>5

LEMMA ResetKeepsLearningInv ==
  ASSUME LearningInv, Reset
  PROVE  LearningInv'
<1>0. LearningTypeOK
  BY DEF LearningInv
<1>1. /\ since' = Len(attempts) /\ level' = [c \in Concepts |-> NoRow] /\ tier' = NoRow
      /\ UNCHANGED <<attempts, shown, active, day>>
  BY DEF Reset
<1>2. LearningTypeOK'
  BY <1>0, <1>1, LearningTypes, LearningConstants DEF LearningTypeOK
<1> QED BY <1>1, <1>2, LearningConstants DEF LearningInv, TierExplained, Tiers

LEMMA SubmitKeepsLearningInv ==
  ASSUME LearningInv, NEW t \in Tasks, Submit(t)
  PROVE  LearningInv'
<1>0. LearningTypeOK
  BY DEF LearningInv
<1> DEFINE pres == IF t \in Opened /\ shown[t].type # NoRow THEN shown[t].n ELSE 0
<1>1. PICK a : a = [task |-> t, verdict |-> "pending", pres |-> pres]
  OBVIOUS
<1>2. /\ attempts' = Append(attempts, a) /\ tier' = Advanced(attempts)
      /\ UNCHANGED <<since, level, shown, active, day>>
  BY <1>1 DEF Submit
<1>3. pres \in 0 .. MaxPresentations /\ (pres # 0 => t \in Opened /\ pres <= shown[t].n)
  BY <1>0, LearningTypes, LearningConstants DEF ShownType
<1> HIDE DEF pres
<1>4. a \in AttemptType /\ a.task = t /\ a.verdict = "pending" /\ a.pres = pres
  BY <1>1, <1>3 DEF AttemptType
<1>5. /\ attempts \in Seq(AttemptType) /\ Len(attempts) \in Nat /\ since \in 0 .. Len(attempts)
  BY <1>0, LearningTypes
<1>6. /\ attempts' \in Seq(AttemptType) /\ Len(attempts') = Len(attempts) + 1
      /\ \A i \in 1 .. Len(attempts) : attempts'[i] = attempts[i]
      /\ attempts'[Len(attempts) + 1] = a /\ DOMAIN attempts' = 1 .. Len(attempts) + 1
  BY <1>2, <1>4, <1>5, AppendProperties
<1>7. LearningTypeOK'
  <2>1. ASSUME NEW i \in 1 .. Len(attempts) + 1, attempts'[i].pres # 0
        PROVE  attempts'[i].task \in Opened /\ attempts'[i].pres <= shown[attempts'[i].task].n
    <3>1. CASE i \in 1 .. Len(attempts)
      BY <1>0, <1>6, <2>1, <3>1, LearningTypes
    <3>2. CASE i = Len(attempts) + 1
      BY <1>3, <1>4, <1>6, <2>1, <3>2
    <3> QED BY <1>5, <3>1, <3>2
  <2>2. since' \in 0 .. Len(attempts')
    BY <1>2, <1>5, <1>6
  <2>3. tier' \in Tiers
    BY <1>0, <1>2, <1>5, LearningTypes, AdvancedIsExplained DEF LearningInv
  <2> QED BY <1>0, <1>2, <1>6, <2>1, <2>2, <2>3, LearningConstants DEF LearningTypeOK
<1>8. TierExplained(attempts', since', tier')
  <2>1. TierExplained(attempts, since, tier')
    BY <1>0, <1>2, LearningTypes, AdvancedIsExplained DEF LearningInv
  <2>2. \A j \in since + 1 .. Len(attempts) : j \in 1 .. Len(attempts) /\ j \in since + 1 .. Len(attempts')
    BY <1>5, <1>6
  <2>3. SolvedFrom(attempts, since) \subseteq SolvedFrom(attempts', since)
    BY <1>6, <2>2 DEF SolvedFrom
  <2> QED BY <1>2, <2>1, <2>3, StandingGrows DEF TierExplained
<1>9. ASSUME NEW c \in Concepts, level'[c] # NoRow
      PROVE  LevelExplained(attempts', since', c, level'[c])
  <2>1. LevelExplained(attempts, since, c, level[c])
    BY <1>2, <1>9 DEF LearningInv
  <2>2. \A j \in since + 1 .. Len(attempts) : attempts[j] = attempts'[j]
    BY <1>5, <1>6
  <2>3. \A j \in Len(attempts) + 1 .. Len(attempts') : ~Decided(attempts'[j])
    BY <1>4, <1>5, <1>6 DEF Decided
  <2>4. Len(attempts) <= Len(attempts')
    BY <1>5, <1>6
  <2> QED BY <1>2, <1>5, <1>6, <2>1, <2>2, <2>3, <2>4, LevelStaysExplained
<1> QED BY <1>7, <1>8, <1>9 DEF LearningInv

LEMMA GradeKeepsLearningInv ==
  ASSUME LearningInv, NEW i \in DOMAIN attempts, NEW v \in {"right", "wrong"}, GradeAnswer(i, v)
  PROVE  LearningInv'
<1>0. LearningTypeOK
  BY DEF LearningInv
<1>1. /\ attempts \in Seq(AttemptType) /\ Len(attempts) \in Nat /\ since \in 0 .. Len(attempts)
      /\ i \in 1 .. Len(attempts) /\ attempts[i] \in AttemptType /\ v \in Verdicts /\ v # "pending"
  BY <1>0, LearningTypes, SequenceFacts DEF Verdicts
<1> DEFINE c0 == ConceptOf[attempts[i].task]
<1>2. /\ attempts[i].verdict = "pending" /\ attempts' = Judged(attempts, i, v)
      /\ level' = IF i > since
                  THEN [level EXCEPT ![c0] = LevelOf(c0, From(attempts, since))] ELSE level
      /\ tier' = IF i > since /\ v = "right"
                 THEN Advanced(IF tier = NoRow THEN attempts' ELSE attempts) ELSE tier
      /\ shown' = IF v = "right" /\ attempts[i].pres # 0 THEN Closed(attempts[i]) ELSE shown
      /\ UNCHANGED <<since, active, day>>
  BY DEF GradeAnswer, Judged, From, SinceReset
<1>3. /\ attempts' \in Seq(AttemptType) /\ Len(attempts') = Len(attempts)
      /\ \A j \in 1 .. Len(attempts) : j # i => attempts'[j] = attempts[j]
      /\ attempts'[i].task = attempts[i].task /\ attempts'[i].verdict = v
      /\ attempts'[i].pres = attempts[i].pres
  <2>1. Differs(attempts', attempts, i, v)
    BY <1>1, <1>2, JudgedDiffers
  <2> QED BY <2>1 DEF Differs
<1>4. DOMAIN attempts' = 1 .. Len(attempts)
  BY <1>3, SequenceFacts
<1>5. SolvedFrom(attempts, since) \subseteq SolvedFrom(attempts', since)
  <2>1. ASSUME NEW j \in since + 1 .. Len(attempts), attempts[j].verdict = "right"
        PROVE  attempts'[j] = attempts[j]
    BY <1>1, <1>2, <1>3, <2>1
  <2> QED BY <1>3, <2>1 DEF SolvedFrom
<1>6. /\ tier' \in Tiers \cup {NoRow}
      /\ TierExplained(attempts', since', tier')
  <2>1. \A t : TierExplained(attempts, since, t) => TierExplained(attempts', since, t)
    BY <1>5, StandingGrows DEF TierExplained
  <2>2. TierExplained(attempts, since, tier) /\ tier \in Tiers \cup {NoRow}
    BY <1>0, LearningTypes DEF LearningInv
  <2>3. Advanced(attempts) \in Tiers /\ TierExplained(attempts, since, Advanced(attempts))
    BY <1>1, <2>2, AdvancedIsExplained
  <2>4. since \in 0 .. Len(attempts') /\ TierExplained(attempts', since, tier)
    BY <1>1, <1>3, <2>1, <2>2
  <2>5. Advanced(attempts') \in Tiers /\ TierExplained(attempts', since, Advanced(attempts'))
    BY <1>3, <2>2, <2>4, AdvancedIsExplained
  <2> QED BY <1>2, <2>1, <2>2, <2>3, <2>4, <2>5
<1>7. shown' \in [Opened -> ShownType] /\ \A t \in Opened : shown'[t].n = shown[t].n
  <2>1. shown \in [Opened -> ShownType]
    BY <1>0, LearningTypes
  <2>2. CASE shown' = shown
    BY <2>1, <2>2
  <2>3. CASE shown' # shown
    <3>1. shown' = [shown EXCEPT ![attempts[i].task].type = NoRow] /\ attempts[i].pres # 0
      BY <1>2, <2>3 DEF Closed
    <3>2. PICK u : u = attempts[i].task
      OBVIOUS
    <3>3. u \in Opened
      BY <1>0, <1>1, <3>1, <3>2, LearningTypes
    <3>4. PICK q : q = [shown[u] EXCEPT !.type = NoRow]
      OBVIOUS
    <3>5. q \in ShownType /\ q.n = shown[u].n
      BY <2>1, <3>3, <3>4 DEF ShownType
    <3>6. shown' = [shown EXCEPT ![u] = q]
      BY <3>1, <3>2, <3>4
    <3> QED BY <2>1, <3>3, <3>5, <3>6
  <2> QED BY <2>2, <2>3
<1>8. /\ level' \in [Concepts -> 0 .. 100 \cup {NoRow}]
      /\ \A c \in Concepts : level'[c] = IF i > since /\ c = c0 THEN LevelOf(c0, From(attempts, since))
                                                                ELSE level[c]
  <2>1. From(attempts, since) \in Seq(AttemptType)
    BY <1>1, FromFacts
  <2>2. PICK l : l = LevelOf(c0, From(attempts, since))
    OBVIOUS
  <2>3. l \in 0 .. 100
    BY <2>1, <2>2, LevelIsPercent
  <2>4. level \in [Concepts -> 0 .. 100 \cup {NoRow}]
    BY <1>0, LearningTypes
  <2> HIDE DEF c0
  <2>5. level' = IF i > since THEN [level EXCEPT ![c0] = l] ELSE level
    BY <1>2, <2>2
  <2> QED BY <2>2, <2>3, <2>4, <2>5
<1>9. LearningTypeOK'
  <2>1. ASSUME NEW j \in 1 .. Len(attempts), attempts'[j].pres # 0
        PROVE  attempts'[j].task \in Opened /\ attempts'[j].pres <= shown'[attempts'[j].task].n
    <3>1. attempts'[j].task = attempts[j].task /\ attempts'[j].pres = attempts[j].pres
      BY <1>3
    <3> QED BY <1>0, <1>7, <2>1, <3>1, LearningTypes
  <2> QED BY <1>0, <1>1, <1>2, <1>3, <1>4, <1>6, <1>7, <1>8, <2>1, LearningConstants
       DEF LearningTypeOK, ShownType
<1>10. ASSUME NEW c \in Concepts, level'[c] # NoRow
       PROVE  LevelExplained(attempts', since', c, level'[c])
  <2>1. CASE i > since /\ c = c0
    <3>1. i \in since + 1 .. Len(attempts)
      BY <1>1, <2>1
    <3>2. LevelExplained(Judged(attempts, i, v), since, c0, LevelOf(c0, From(attempts, since)))
      BY <1>1, <1>2, <3>1, JudgingExplains
    <3> QED BY <1>2, <1>8, <2>1, <3>2
  <2>2. CASE ~(i > since /\ c = c0)
    <3>1. level'[c] = level[c]
      BY <1>8, <2>2
    <3>2. LevelExplained(attempts, since, c, level[c])
      BY <1>10, <3>1 DEF LearningInv
    <3>3. ASSUME NEW j \in since + 1 .. Len(attempts)
          PROVE  \/ attempts[j] = attempts'[j]
                 \/ ConceptOf[attempts[j].task] # c /\ ConceptOf[attempts'[j].task] # c
      <4>1. j \in 1 .. Len(attempts) /\ j > since
        BY <1>1
      <4>2. CASE j = i
        BY <1>3, <2>2, <4>1, <4>2
      <4>3. CASE j # i
        BY <1>3, <4>1, <4>3
      <4> QED BY <4>2, <4>3
    <3>4. \A j \in Len(attempts) + 1 .. Len(attempts') : ~Decided(attempts'[j])
      BY <1>1, <1>3
    <3>5. Len(attempts) <= Len(attempts')
      BY <1>1, <1>3
    <3> QED BY <1>1, <1>2, <1>3, <3>1, <3>2, <3>3, <3>4, <3>5, LevelStaysExplained
  <2> QED BY <2>1, <2>2
<1> QED BY <1>6, <1>9, <1>10 DEF LearningInv

LEMMA LearningStep ==
  ASSUME LearningInv, [LearningNext]_learningVars
  PROVE  LearningInv'
BY QuietStepsKeepLearningInv, ResetKeepsLearningInv, SubmitKeepsLearningInv, GradeKeepsLearningInv
   DEF LearningNext

LEMMA LearningInvariant == LearningSpec => []LearningInv
<1>1. LearningInit => LearningInv
  BY InitEstablishesLearningInv
<1>2. LearningInv /\ [LearningNext]_learningVars => LearningInv'
  BY LearningStep
<1> QED BY <1>1, <1>2, PTL DEF LearningSpec

-----------------------------------------------------------------------------
(* Theorems                                                                 *)

\* What is stored of a learner has its type, and an answer belongs to a
\* presentation that was shown (grading/service.py create_attempt).
THEOREM LearningTypeCorrect == LearningSpec => []LearningTypeOK
<1>1. LearningInv => LearningTypeOK
  BY DEF LearningInv
<1> QED BY <1>1, LearningInvariant, PTL

LEMMA InvIsEarned == ASSUME LearningInv PROVE StandingIsEarned
<1>1. /\ attempts \in Seq(AttemptType) /\ since \in 0 .. Len(attempts)
      /\ Len(attempts) \in Nat /\ DOMAIN attempts = 1 .. Len(attempts)
  BY LearningTypes DEF LearningInv
<1>2. Solved(attempts) = SolvedFrom(attempts, since)
  BY <1>1, SolvedIsFrom DEF Solved, SinceReset, From
<1>3. \A d \in {"BRONZE", "SILVER"} :
        Standing(attempts, since, d) => Cardinality(SolvedIn(d)) >= Required[d]
  BY <1>2 DEF Standing, SolvedIn
<1>4. ASSUME NEW c \in Concepts, level[c] # NoRow
      PROVE  \E i \in since + 1 .. Len(attempts) :
               /\ ConceptOf[attempts[i].task] = c /\ Decided(attempts[i])
               /\ level[c] = LevelOf(c, SinceReset([attempts EXCEPT ![i].verdict = "pending"]))
  <2>1. LevelExplained(attempts, since, c, level[c])
    BY <1>4 DEF LearningInv
  <2> QED BY <2>1 DEF LevelExplained, From, Judged, SinceReset
<1> QED BY <1>3, <1>4 DEF LearningInv, TierExplained, StandingIsEarned

\* The stored tier stands on tasks solved since the reset, and the stored level
\* of a concept on answers given since then, however late they were graded.
THEOREM StandingEarned == LearningSpec => []StandingIsEarned
<1>1. LearningInv => StandingIsEarned
  BY InvIsEarned
<1> QED BY <1>1, LearningInvariant, PTL

\* A submission leaves no step up that has been earned.
THEOREM CatchingUp == LearningSpec => SubmittingCatchesUp
<1>1. ASSUME LearningInv, [LearningNext]_learningVars, Len(attempts') > Len(attempts),
             NEW d \in {"BRONZE", "SILVER"}, tier' = d
      PROVE  ~Met(d, attempts)
  <2>0. /\ attempts \in Seq(AttemptType) /\ Len(attempts) \in Nat /\ DOMAIN attempts = 1 .. Len(attempts)
        /\ tier \in Tiers \cup {NoRow}
    BY <1>1, LearningTypes DEF LearningInv
  <2>1. ASSUME UNCHANGED attempts PROVE FALSE
    BY <1>1, <2>0, <2>1
  <2>2. ASSUME NEW i \in DOMAIN attempts, NEW v \in {"right", "wrong"}, GradeAnswer(i, v) PROVE FALSE
    <3>1. attempts' = Judged(attempts, i, v) /\ v \in Verdicts
      BY <2>2 DEF GradeAnswer, Judged, Verdicts
    <3>2. Len(attempts') = Len(attempts)
      BY <2>0, <3>1, JudgedFacts
    <3> QED BY <1>1, <2>0, <3>2
  <2>3. \E t \in Tasks : Submit(t)
    BY <1>1, <2>1, <2>2 DEF LearningNext, learningVars, ReadTier, Reset, Tomorrow, Start, Deactivate, Activate
  <2>4. tier' = Promoted(IF tier = NoRow THEN "BRONZE" ELSE tier, attempts)
    BY <2>3 DEF Submit, Advanced
  <2> QED BY <1>1, <2>0, <2>4, LearningConstants DEF Promoted, Tiers
<1>2. LearningInv /\ [LearningNext]_learningVars =>
        (Len(attempts') > Len(attempts) =>
           \A d \in {"BRONZE", "SILVER"} : tier' = d => ~Met(d, attempts))
  BY <1>1
<1> QED BY <1>2, LearningInvariant, PTL DEF LearningSpec, SubmittingCatchesUp

PresentationStep ==
  \A t \in Opened :
    /\ shown'[t].n > shown[t].n => CanTry(t)'
    /\ shown[t].type # NoRow /\ shown'[t] # shown[t] =>
         /\ shown'[t] = [type |-> NoRow, n |-> shown[t].n]
         /\ \E i \in DOMAIN attempts :
              /\ attempts[i].task = t /\ attempts[i].pres = shown[t].n
              /\ attempts[i].verdict = "pending" /\ attempts'[i].verdict = "right"

LEMMA StartIsUsable ==
  ASSUME LearningInv, NEW u \in Opened, Start(u)
  PROVE  PresentationStep
<1>0. LearningTypeOK
  BY DEF LearningInv
<1>1. PICK type \in Types(u) : shown' = [shown EXCEPT ![u] = [type |-> type, n |-> @.n + 1]]
  BY DEF Start
<1>2. /\ u \in active /\ active' = active /\ attempts' = attempts
      /\ shown[u].type = NoRow /\ shown[u].n < MaxPresentations
      /\ tier' = Advanced(attempts) /\ DifficultyOf[u] \in Unlocked(Advanced(attempts))
  BY DEF Start, IsUnlocked
<1>3. shown \in [Opened -> ShownType] /\ shown[u].n \in Nat
  BY <1>0, LearningTypes, LearningConstants DEF ShownType
<1>4. /\ \A t \in Opened : t # u => shown'[t] = shown[t]
      /\ shown'[u].n = shown[u].n + 1
  BY <1>1, <1>3
<1>5. tier' # NoRow
  BY <1>0, <1>2, LearningTypes, LearningConstants, AdvancedIsExplained DEF LearningInv
<1>6. DifficultyOf[u] \in Unlocked(IF tier' = NoRow THEN "BRONZE" ELSE tier')
  BY <1>2, <1>5
<1>7. CanTry(u)'
  BY <1>2, <1>3, <1>4, <1>6 DEF CanTry, Unlocked
<1>8. \A t \in Opened : shown[t].n \in Nat
  BY <1>3, LearningConstants DEF ShownType
<1> QED BY <1>2, <1>4, <1>7, <1>8 DEF PresentationStep

LEMMA GradeIsUsable ==
  ASSUME LearningInv, NEW i \in DOMAIN attempts, NEW v \in {"right", "wrong"}, GradeAnswer(i, v)
  PROVE  PresentationStep
<1>0. LearningTypeOK
  BY DEF LearningInv
<1>1. /\ attempts \in Seq(AttemptType) /\ i \in 1 .. Len(attempts) /\ v \in Verdicts
      /\ shown \in [Opened -> ShownType]
  BY <1>0, LearningTypes DEF Verdicts
<1>2. /\ attempts[i].verdict = "pending" /\ attempts' = Judged(attempts, i, v)
      /\ shown' = IF v = "right" /\ attempts[i].pres # 0 THEN Closed(attempts[i]) ELSE shown
  BY DEF GradeAnswer, Judged
<1>3. attempts'[i].verdict = v
  BY <1>1, <1>2, JudgedFacts
<1>4. \A t \in Opened : shown[t].n \in Nat
  BY <1>1, LearningConstants DEF ShownType
<1>5. CASE shown' = shown
  BY <1>4, <1>5 DEF PresentationStep
<1>6. CASE shown' # shown
  <2>1. PICK u : u = attempts[i].task
    OBVIOUS
  <2>2. /\ shown' = [shown EXCEPT ![u].type = NoRow] /\ v = "right"
        /\ attempts[i].pres # 0 /\ attempts[i].pres = shown[u].n
    BY <1>2, <1>6, <2>1 DEF Closed
  <2>3. u \in Opened
    BY <1>0, <1>1, <2>1, <2>2, LearningTypes
  <2>4. shown[u] \in ShownType
    BY <1>1, <2>3
  <2>5. [shown[u] EXCEPT !.type = NoRow] = [type |-> NoRow, n |-> shown[u].n]
    BY <2>4 DEF ShownType
  <2>6. /\ \A t \in Opened : t # u => shown'[t] = shown[t]
        /\ shown'[u] = [type |-> NoRow, n |-> shown[u].n]
    BY <1>1, <2>2, <2>3, <2>5
  <2>7. \A t \in Opened : shown'[t].n = shown[t].n
    BY <2>6
  <2> QED BY <1>2, <1>3, <1>4, <2>1, <2>2, <2>6, <2>7 DEF PresentationStep
<1> QED BY <1>5, <1>6

\* A presentation keeps its type until a right answer given on it closes it,
\* and a presentation just opened can be tried out.
THEOREM PresentationsUsable == LearningSpec => PresentationsAreUsable
<1>1. ASSUME LearningInv, [LearningNext]_learningVars PROVE PresentationStep
  <2>1. ASSUME UNCHANGED shown PROVE PresentationStep
    <3>1. \A t \in Opened : shown[t].n \in Nat
      BY <1>1, LearningTypes, LearningConstants DEF LearningInv, ShownType
    <3> QED BY <2>1, <3>1 DEF PresentationStep
  <2> QED BY <1>1, <2>1, StartIsUsable, GradeIsUsable
       DEF LearningNext, learningVars, ReadTier, Reset, Tomorrow, Submit, Deactivate, Activate
<1>2. LearningInv /\ [LearningNext]_learningVars => PresentationStep
  BY <1>1
<1> QED BY <1>2, LearningInvariant, PTL DEF LearningSpec, PresentationsAreUsable, PresentationStep

-----------------------------------------------------------------------------
(* Recommendations: sorting                                                 *)

\* A strict order of S, as Sorted takes it.
StrictOrder(S, before) ==
  /\ before \in [S -> SUBSET S]
  /\ \A x \in S : x \notin before[x]
  /\ \A x, y \in S : x = y \/ x \in before[y] \/ y \in before[x]
  /\ \A x, y \in S : x \in before[y] => before[x] \subseteq before[y]

\* Sorted is well defined: the numbers of elements that come before the
\* elements of S are 0 up to Cardinality(S) - 1, each for one element.
LEMMA SortedIsSorted ==
  ASSUME NEW S, IsFiniteSet(S), NEW before, StrictOrder(S, before)
  PROVE  LET s == Sorted(S, before) IN
         /\ Cardinality(S) \in Nat /\ s \in [1 .. Cardinality(S) -> S]
         /\ \A x \in S : \E n \in 1 .. Cardinality(S) : s[n] = x
         /\ \A m, n \in 1 .. Cardinality(S) : m < n <=> s[m] \in before[s[n]]
<1> DEFINE N == Cardinality(S)
           rank == [x \in S |-> Cardinality(before[x])]
<1>1. N \in Nat
  BY FS_CardinalityType
<1>2. \A x \in S : IsFiniteSet(before[x]) /\ rank[x] \in 0 .. N - 1
  <2> TAKE x \in S
  <2>1. before[x] \in SUBSET (S \ {x})
    BY DEF StrictOrder
  <2>2. IsFiniteSet(S \ {x}) /\ Cardinality(S \ {x}) = N - 1
    BY FS_RemoveElement
  <2>3. IsFiniteSet(before[x]) /\ Cardinality(before[x]) <= N - 1
    BY <2>1, <2>2, FS_Subset
  <2> QED BY <1>1, <2>3, FS_CardinalityType
<1>3. \A x, y \in S : x \in before[y] => rank[x] < rank[y]
  <2> SUFFICES ASSUME NEW x \in S, NEW y \in S, x \in before[y] PROVE rank[x] < rank[y]
    OBVIOUS
  <2>1. before[x] \in SUBSET (before[y] \ {x})
    BY DEF StrictOrder
  <2>2. /\ IsFiniteSet(before[y] \ {x})
        /\ Cardinality(before[y] \ {x}) = Cardinality(before[y]) - 1
    BY <1>2, FS_RemoveElement
  <2>3. Cardinality(before[x]) <= Cardinality(before[y]) - 1
    BY <2>1, <2>2, FS_Subset
  <2>4. rank[x] = Cardinality(before[x]) /\ rank[y] = Cardinality(before[y])
    OBVIOUS
  <2>5. rank[x] \in Int /\ rank[y] \in Int
    BY <1>1, <1>2
  <2> HIDE DEF rank
  <2> QED BY <2>3, <2>4, <2>5
<1>4. rank \in [S -> 0 .. N - 1]
  BY <1>2
<1>5. \A x, y \in S : rank[x] = rank[y] => x = y
  <2> HIDE DEF rank, N
  <2>1. \A x \in S : rank[x] \in Int
    BY <1>1, <1>4
  <2> QED BY <1>3, <2>1 DEF StrictOrder
<1>6. rank \in Injection(S, 0 .. N - 1)
  <2> HIDE DEF rank, N
  <2> QED BY <1>4, <1>5 DEF Injection, IsInjective
<1>7. IsFiniteSet(0 .. N - 1) /\ Cardinality(0 .. N - 1) = N
  <2> HIDE DEF N
  <2>1. 0 \in Int /\ N - 1 \in Int
    BY <1>1
  <2>2. /\ IsFiniteSet(0 .. N - 1)
        /\ Cardinality(0 .. N - 1) = IF 0 > N - 1 THEN 0 ELSE N - 1 - 0 + 1
    BY <2>1, FS_Interval
  <2> QED BY <1>1, <2>2
<1>8. rank \in Surjection(S, 0 .. N - 1)
  <2> HIDE DEF rank
  <2> QED BY <1>6, <1>7, FS_Injection
<1>9. \A k \in 0 .. N - 1 : \E x \in S : rank[x] = k
  <2> HIDE DEF rank, N
  <2> QED BY <1>8 DEF Surjection
<1> DEFINE s == Sorted(S, before)
<1>10. \A n \in 1 .. N : s[n] \in S /\ rank[s[n]] = n - 1
  <2> TAKE n \in 1 .. N
  <2>1. s[n] = CHOOSE x \in S : Cardinality(before[x]) = n - 1
    BY DEF Sorted
  <2>2. \E x \in S : Cardinality(before[x]) = n - 1
    BY <1>1, <1>9
  <2> QED BY <2>1, <2>2
<1>11. s = [n \in 1 .. N |-> s[n]]
  BY DEF Sorted
<1> HIDE DEF rank, s, N
<1>12. s \in [1 .. N -> S]
  BY <1>10, <1>11
<1>13. \A x \in S : s[rank[x] + 1] = x /\ rank[x] + 1 \in 1 .. N
  BY <1>1, <1>4, <1>5, <1>10
<1>14. \A m, n \in 1 .. N : m < n <=> s[m] \in before[s[n]]
  <2> TAKE m, n \in 1 .. N
  <2>1. s[m] \in before[s[n]] => m < n
    BY <1>1, <1>3, <1>10
  <2>2. s[n] \in before[s[m]] => n < m
    BY <1>1, <1>3, <1>10
  <2>3. s[m] = s[n] => m = n
    BY <1>1, <1>10
  <2>4. s[m] = s[n] \/ s[m] \in before[s[n]] \/ s[n] \in before[s[m]]
    BY <1>10 DEF StrictOrder
  <2> QED BY <1>1, <2>1, <2>2, <2>3, <2>4
<1> QED BY <1>1, <1>12, <1>13, <1>14 DEF s, N

\* An order by up to three keys, which together tell the elements apart.
ByKeys(S, before, a, b, c) ==
  /\ before \in [S -> SUBSET S]
  /\ a \in [S -> Int] /\ b \in [S -> Int] /\ c \in [S -> Int]
  /\ \A x, y \in S : x \in before[y] <=>
       \/ a[x] < a[y]
       \/ a[x] = a[y] /\ (b[x] < b[y] \/ (b[x] = b[y] /\ c[x] < c[y]))
  /\ \A x, y \in S : a[x] = a[y] /\ b[x] = b[y] /\ c[x] = c[y] => x = y

LEMMA OrderByKeys ==
  ASSUME NEW S, NEW before, NEW a, NEW b, NEW c, ByKeys(S, before, a, b, c)
  PROVE  StrictOrder(S, before)
<1> USE DEF ByKeys
<1>1. \A x \in S : x \notin before[x]
  OBVIOUS
<1>2. \A x, y \in S : x = y \/ x \in before[y] \/ y \in before[x]
  OBVIOUS
<1>3. \A x, y, z \in S : z \in before[x] /\ x \in before[y] => z \in before[y]
  <2> SUFFICES ASSUME NEW x \in S, NEW y \in S, NEW z \in S, z \in before[x], x \in before[y]
               PROVE  z \in before[y]
    OBVIOUS
  <2> QED OBVIOUS
<1>4. \A x, y \in S : x \in before[y] => before[x] \subseteq before[y]
  BY <1>3
<1> QED BY <1>1, <1>2, <1>4 DEF StrictOrder

-----------------------------------------------------------------------------
(* Recommendations: the first of each problem                               *)

LEMMA LeastOf ==
  ASSUME NEW Q \in SUBSET Nat, Q # {}
  PROVE  \E m \in Q : \A k \in Q : m <= k
<1>1. IsWellFoundedOn(OpToRel(<, Nat), Nat)
  BY NatLessThanWellFounded
<1>2. PICK m \in Q : \A k \in Q : <<k, m>> \notin OpToRel(<, Nat)
  <2> DEFINE Less == OpToRel(<, Nat)
  <2> HIDE DEF Less
  <2> QED BY <1>1, WFMin DEF Less
<1>3. \A k \in Q : ~(k < m)
  BY <1>2 DEF OpToRel
<1> QED BY <1>3

\* The places of s that show a problem for the first time.
Firsts(s) == {i \in DOMAIN s : \A j \in 1 .. i - 1 : ProblemOf[s[j]] # ProblemOf[s[i]]}

LEMMA FirstsDiffer ==
  ASSUME NEW S, NEW s \in Seq(S)
  PROVE  /\ Firsts(s) \in SUBSET (1 .. Len(s)) /\ IsFiniteSet(Firsts(s))
         /\ \A i, j \in Firsts(s) : ProblemOf[s[i]] = ProblemOf[s[j]] => i = j
         /\ \A i \in 1 .. Len(s) : \E k \in Firsts(s) : k <= i /\ ProblemOf[s[k]] = ProblemOf[s[i]]
<1>1. Len(s) \in Nat /\ Firsts(s) \in SUBSET (1 .. Len(s))
  BY SequenceFacts DEF Firsts
<1>2. IsFiniteSet(Firsts(s))
  <2>1. IsFiniteSet(1 .. Len(s))
    BY <1>1, FS_Interval
  <2> HIDE DEF Firsts
  <2> QED BY <1>1, <2>1, FS_Subset
<1>3. \A i, j \in Firsts(s) : i < j => ProblemOf[s[i]] # ProblemOf[s[j]]
  BY <1>1 DEF Firsts
<1>4. \A i, j \in Firsts(s) : ProblemOf[s[i]] = ProblemOf[s[j]] => i = j
  <2> TAKE i, j \in Firsts(s)
  <2>1. i \in Nat /\ j \in Nat
    BY <1>1
  <2> QED BY <1>3, <2>1
<1>5. ASSUME NEW i \in 1 .. Len(s)
      PROVE  \E k \in Firsts(s) : k <= i /\ ProblemOf[s[k]] = ProblemOf[s[i]]
  <2> DEFINE Q == {k \in 1 .. i : ProblemOf[s[k]] = ProblemOf[s[i]]}
  <2>1. Q \in SUBSET Nat /\ i \in Q
    BY <1>1
  <2>2. PICK k \in Q : \A j \in Q : k <= j
    <3> HIDE DEF Q
    <3> QED BY <2>1, LeastOf
  <2>3. k \in 1 .. Len(s) /\ k <= i /\ ProblemOf[s[k]] = ProblemOf[s[i]]
    BY <1>1
  <2>4. ASSUME NEW j \in 1 .. k - 1, ProblemOf[s[j]] = ProblemOf[s[k]] PROVE FALSE
    <3>1. j \in Q /\ j < k
      BY <1>1, <2>3, <2>4
    <3> QED BY <1>1, <2>2, <2>3, <3>1
  <2> QED BY <2>3, <2>4, SequenceFacts DEF Firsts
<1> QED BY <1>1, <1>2, <1>4, <1>5

\* What OncePerProblem keeps stands at those places, in their order.
KeptAt(e, s, at) ==
  /\ at \in [1 .. Len(e) -> Firsts(s)]
  /\ \A n \in 1 .. Len(e) : e[n] = s[at[n]]
  /\ \A m, n \in 1 .. Len(e) : m < n <=> at[m] < at[n]
  /\ \A i \in Firsts(s) : \E n \in 1 .. Len(e) : at[n] = i

LEMMA OnceKeepsFirsts ==
  ASSUME NEW S, NEW s \in Seq(S)
  PROVE  /\ OncePerProblem(s) \in Seq(S)
         /\ \E at : KeptAt(OncePerProblem(s), s, at)
<1> DEFINE first == Firsts(s)
           before == [i \in first |-> {j \in first : j < i}]
           at == Sorted(first, before)
           e == [n \in DOMAIN at |-> s[at[n]]]
           N == Cardinality(first)
<1>1. Firsts(s) \in SUBSET (1 .. Len(s)) /\ IsFiniteSet(first) /\ Len(s) \in Nat
  BY FirstsDiffer, SequenceFacts
<1>2. first \in SUBSET Nat
  BY <1>1
<1>3. StrictOrder(first, before)
  <2> DEFINE a == [i \in first |-> i]
             z == [i \in first |-> 0]
  <2> HIDE DEF first
  <2>1. before \in [first -> SUBSET first] /\ a \in [first -> Int] /\ z \in [first -> Int]
    BY <1>2
  <2>2. \A i \in first : a[i] = i /\ z[i] = 0
    OBVIOUS
  <2>3. \A i, j \in first : i \in before[j] <=> a[i] < a[j]
    BY <2>2
  <2> HIDE DEF before, a, z
  <2>4. ByKeys(first, before, a, z, z)
    BY <2>1, <2>2, <2>3 DEF ByKeys
  <2> QED BY <2>4, OrderByKeys
<1>4. /\ N \in Nat /\ at \in [1 .. N -> first]
      /\ \A x \in first : \E n \in 1 .. N : at[n] = x
      /\ \A m, n \in 1 .. N : m < n <=> at[m] \in before[at[n]]
  <2> HIDE DEF first, before
  <2> QED BY <1>1, <1>3, SortedIsSorted
<1>5. OncePerProblem(s) = e
  BY DEF OncePerProblem, Firsts
<1> HIDE DEF N, at
<1>6. \A m, n \in 1 .. N : m < n <=> at[m] < at[n]
  <2> HIDE DEF first
  <2> QED BY <1>2, <1>4
<1> HIDE DEF first, before
<1>7. e = [n \in 1 .. N |-> s[at[n]]]
  BY <1>4
<1>8. \A n \in 1 .. N : s[at[n]] \in S
  BY <1>1, <1>4, SequenceFacts DEF first
<1> HIDE DEF e
<1>9. e \in Seq(S) /\ Len(e) = N /\ \A n \in 1 .. N : e[n] = s[at[n]]
  BY <1>4, <1>7, <1>8
<1>10. KeptAt(e, s, at)
  BY <1>4, <1>6, <1>9 DEF KeptAt, first
<1> QED BY <1>5, <1>9, <1>10

\* OncePerProblem: the problems of s, none of them twice.
LEMMA OnceFacts ==
  ASSUME NEW S, NEW s \in Seq(S)
  PROVE  LET e == OncePerProblem(s) IN
         /\ e \in Seq(S)
         /\ \A n \in 1 .. Len(e) : \E i \in 1 .. Len(s) : e[n] = s[i]
         /\ \A m, n \in 1 .. Len(e) : ProblemOf[e[m]] = ProblemOf[e[n]] => m = n
         /\ \A i \in 1 .. Len(s) : \E n \in 1 .. Len(e) : ProblemOf[e[n]] = ProblemOf[s[i]]
<1> DEFINE e == OncePerProblem(s)
<1>1. e \in Seq(S) /\ Len(e) \in Nat
  BY OnceKeepsFirsts
<1>2. PICK at : KeptAt(e, s, at)
  BY OnceKeepsFirsts
<1> HIDE DEF e
<1>3. \A n \in 1 .. Len(e) : at[n] \in 1 .. Len(s) /\ e[n] = s[at[n]]
  BY <1>2, FirstsDiffer DEF KeptAt
<1>4. ASSUME NEW m \in 1 .. Len(e), NEW n \in 1 .. Len(e), ProblemOf[e[m]] = ProblemOf[e[n]]
      PROVE  m = n
  <2>1. at[m] = at[n]
    <3>1. at[m] \in Firsts(s) /\ at[n] \in Firsts(s)
      BY <1>2 DEF KeptAt
    <3>2. ProblemOf[s[at[m]]] = ProblemOf[s[at[n]]]
      BY <1>3, <1>4
    <3> QED BY <3>1, <3>2, FirstsDiffer
  <2>2. ~(m < n) /\ ~(n < m)
    <3>1. at[m] \in Int
      BY <1>3
    <3> QED BY <1>2, <2>1, <3>1 DEF KeptAt
  <2> QED BY <1>1, <2>2
<1>5. ASSUME NEW i \in 1 .. Len(s) PROVE \E n \in 1 .. Len(e) : ProblemOf[e[n]] = ProblemOf[s[i]]
  <2>1. PICK k \in Firsts(s) : ProblemOf[s[k]] = ProblemOf[s[i]]
    BY FirstsDiffer
  <2>2. PICK n \in 1 .. Len(e) : at[n] = k
    BY <1>2 DEF KeptAt
  <2> QED BY <1>3, <2>1, <2>2
<1> QED BY <1>1, <1>3, <1>4, <1>5 DEF e

-----------------------------------------------------------------------------
(* Recommendations: the tasks of one group                                  *)

\* All of S, and nothing else.
Lists(s, S) == s \in Seq(S) /\ \A t \in S : \E n \in 1 .. Len(s) : s[n] = t

InRankOrder(G) == Sorted(G, [t \in G |-> {u \in G : TaskRank[u] < TaskRank[t]}])
GroupTasks(rows, c, d) == {t \in rows : ConceptOf[t] = c /\ DifficultyOf[t] = d}

LEMMA RankedTasks ==
  ASSUME NEW rows \in SUBSET Tasks, NEW c, NEW d
  PROVE  Lists(InRankOrder(GroupTasks(rows, c, d)), GroupTasks(rows, c, d))
<1> DEFINE G == GroupTasks(rows, c, d)
           before == [t \in G |-> {u \in G : TaskRank[u] < TaskRank[t]}]
           s == Sorted(G, before)
<1>1. G \in SUBSET Tasks
  BY DEF GroupTasks
<1>2. IsFiniteSet(G)
  BY <1>1, LearningConstants, FS_Subset
<1>3. \A t, u \in G : TaskRank[t] \in Int /\ (TaskRank[t] = TaskRank[u] => t = u)
  BY RecommendationsAssumption DEF GroupTasks
<1>4. StrictOrder(G, before)
  <2> DEFINE a == [t \in G |-> TaskRank[t]]
             z == [t \in G |-> 0]
  <2> HIDE DEF G
  <2>1. before \in [G -> SUBSET G] /\ a \in [G -> Int] /\ z \in [G -> Int]
    BY <1>3
  <2>2. \A t, u \in G : /\ t \in before[u] <=> a[t] < a[u]
                        /\ z[t] = 0
                        /\ a[t] = a[u] => t = u
    BY <1>3
  <2> HIDE DEF before, a, z
  <2>3. \A t, u \in G : t \in before[u] <=>
           \/ a[t] < a[u]
           \/ a[t] = a[u] /\ (z[t] < z[u] \/ (z[t] = z[u] /\ z[t] < z[u]))
    BY <2>2
  <2>4. ByKeys(G, before, a, z, z)
    BY <2>1, <2>2, <2>3 DEF ByKeys
  <2> QED BY <2>4, OrderByKeys
<1>5. /\ Cardinality(G) \in Nat /\ s \in [1 .. Cardinality(G) -> G]
      /\ \A t \in G : \E n \in 1 .. Cardinality(G) : s[n] = t
  <2> HIDE DEF G, before
  <2> QED BY <1>2, <1>4, SortedIsSorted
<1> HIDE DEF G, before, s
<1>6. s \in Seq(G) /\ Len(s) = Cardinality(G)
  BY <1>5
<1> QED BY <1>5, <1>6 DEF G, before, s, InRankOrder, Lists

LEMMA RotatedHolds ==
  ASSUME NEW S, S # {}, NEW s, Lists(s, S), NEW today \in Nat, NEW c, Shift[c] \in Nat
  PROVE  Lists(Rotated(s, today, c), S)
<1>1. s \in Seq(S) /\ Len(s) \in Nat \ {0}
  BY DEF Lists
<1>2. (today + Shift[c]) % Len(s) \in 0 .. Len(s) - 1
  BY <1>1
<1>3. PICK k \in 0 .. Len(s) - 1 : k = (today + Shift[c]) % Len(s)
  BY <1>2
<1>4. Rotated(s, today, c) = SubSeq(s, k + 1, Len(s)) \o SubSeq(s, 1, k)
  BY <1>3 DEF Rotated
<1> DEFINE u == SubSeq(s, k + 1, Len(s))
           v == SubSeq(s, 1, k)
<1>5. /\ u \in Seq(S) /\ Len(u) = Len(s) - k /\ \A n \in 1 .. Len(s) - k : u[n] = s[k + n]
      /\ v \in Seq(S) /\ Len(v) = k /\ \A n \in 1 .. k : v[n] = s[n]
  BY <1>1, SubSeqProperties
<1> HIDE DEF u, v
<1>6. /\ u \o v \in Seq(S) /\ Len(u \o v) = Len(s)
      /\ \A n \in 1 .. Len(s) : (u \o v)[n] = IF n <= Len(s) - k THEN u[n] ELSE v[n - (Len(s) - k)]
  <2>1. Len(u) + Len(v) = Len(s)
    BY <1>1, <1>5
  <2>2. /\ u \o v \in Seq(S) /\ Len(u \o v) = Len(u) + Len(v)
        /\ \A n \in 1 .. Len(u) + Len(v) : (u \o v)[n] = IF n <= Len(u) THEN u[n] ELSE v[n - Len(u)]
    BY <1>5, ConcatProperties
  <2> QED BY <1>5, <2>1, <2>2
<1>7. ASSUME NEW i \in 1 .. Len(s)
      PROVE  \E n \in 1 .. Len(u \o v) : (u \o v)[n] = s[i]
  <2>1. CASE i > k
    <3>1. i - k \in 1 .. Len(s) /\ i - k <= Len(s) - k /\ i - k \in 1 .. Len(s) - k /\ k + (i - k) = i
      BY <1>1, <2>1
    <3>2. (u \o v)[i - k] = s[i]
      BY <1>5, <1>6, <3>1
    <3> QED BY <1>6, <3>1, <3>2
  <2>2. CASE i <= k
    <3>1. /\ i + (Len(s) - k) \in 1 .. Len(s) /\ ~(i + (Len(s) - k) <= Len(s) - k)
          /\ (i + (Len(s) - k)) - (Len(s) - k) = i /\ i \in 1 .. k
      BY <1>1, <2>2
    <3>2. (u \o v)[i + (Len(s) - k)] = v[i]
      BY <1>6, <3>1
    <3>3. v[i] = s[i]
      BY <1>5, <3>1
    <3> QED BY <1>6, <3>1, <3>2, <3>3
  <2> QED BY <2>1, <2>2
<1>8. \A t \in S : \E n \in 1 .. Len(u \o v) : (u \o v)[n] = t
  BY <1>7 DEF Lists
<1> QED BY <1>4, <1>6, <1>8 DEF u, v, Lists

LEMMA GroupHolds ==
  ASSUME NEW rows \in SUBSET Tasks, NEW c \in Concepts, NEW d, NEW today \in Nat
  PROVE  Lists(Group(rows, c, d, today), GroupTasks(rows, c, d))
<1> DEFINE G == GroupTasks(rows, c, d)
           r == InRankOrder(G)
<1>1. Lists(r, G)
  BY RankedTasks
<1>2. Group(rows, c, d, today) = IF G = {} THEN <<>> ELSE Rotated(r, today, c)
  BY DEF Group, GroupTasks, InRankOrder
<1>3. Shift[c] \in Nat
  BY RecommendationsAssumption DEF Concepts
<1> HIDE DEF G, r
<1>4. CASE G = {}
  <2>1. Lists(<<>>, {})
    BY DEF Lists
  <2> QED BY <1>2, <1>4, <2>1 DEF G
<1>5. CASE G # {}
  <2>1. Lists(Rotated(r, today, c), G)
    BY <1>1, <1>3, <1>5, RotatedHolds
  <2> QED BY <1>2, <1>5, <2>1 DEF G
<1> QED BY <1>4, <1>5

-----------------------------------------------------------------------------
(* Recommendations: FlattenSeq of three and of four sequences               *)

\* The recursive function behind FlattenSeq.
Flattens(f, seqs) == f = [i \in 1 .. Len(seqs) |-> IF i = 1 THEN seqs[i] ELSE f[i - 1] \o seqs[i]]

LEMMA FlattenIsChosen ==
  ASSUME NEW seqs, Len(seqs) # 0
  PROVE  FlattenSeq(seqs) = (CHOOSE f : Flattens(f, seqs))[Len(seqs)]
  BY DEF FlattenSeq, Flattens

\* f puts the first sequences together, and the next one to them each time.
PutsTogether(f, seqs) ==
  /\ FlattenSeq(seqs) = f[Len(seqs)] /\ f[1] = seqs[1]
  /\ \A i \in 2 .. Len(seqs) : f[i] = f[i - 1] \o seqs[i]

LEMMA FlattenUnfolds ==
  ASSUME NEW seqs, Len(seqs) \in 1 .. 4
  PROVE  \E f : PutsTogether(f, seqs)
<1> DEFINE g == [i \in 1 .. Len(seqs) |->
                   IF i = 1 THEN seqs[1] ELSE IF i = 2 THEN seqs[1] \o seqs[2]
                   ELSE IF i = 3 THEN (seqs[1] \o seqs[2]) \o seqs[3]
                   ELSE ((seqs[1] \o seqs[2]) \o seqs[3]) \o seqs[4]]
<1>1. g = [i \in 1 .. Len(seqs) |-> IF i = 1 THEN seqs[i] ELSE g[i - 1] \o seqs[i]]
  <2>1. \A i \in 1 .. Len(seqs) : g[i] = IF i = 1 THEN seqs[i] ELSE g[i - 1] \o seqs[i]
    <3> SUFFICES ASSUME NEW i \in 1 .. Len(seqs)
                 PROVE  g[i] = IF i = 1 THEN seqs[i] ELSE g[i - 1] \o seqs[i]
      OBVIOUS
    <3>1. i = 1 \/ i = 2 \/ i = 3 \/ i = 4
      OBVIOUS
    <3> QED BY <3>1
  <2> QED BY <2>1
<1>2. \E f : Flattens(f, seqs)
  BY <1>1 DEF Flattens
<1>3. PICK f : f = (CHOOSE h : Flattens(h, seqs))
  OBVIOUS
<1>4. Flattens(f, seqs)
  BY <1>2, <1>3
<1>5. \A i \in 1 .. Len(seqs) : f[i] = IF i = 1 THEN seqs[i] ELSE f[i - 1] \o seqs[i]
  BY <1>4 DEF Flattens
<1>6. f[1] = seqs[1]
  BY <1>5
<1>7. ASSUME NEW i \in 2 .. Len(seqs) PROVE f[i] = f[i - 1] \o seqs[i]
  <2>1. i \in 1 .. Len(seqs) /\ i # 1
    OBVIOUS
  <2> QED BY <1>5, <2>1, Zenon
<1>8. FlattenSeq(seqs) = f[Len(seqs)]
  BY <1>3, FlattenIsChosen
<1> QED BY <1>6, <1>7, <1>8 DEF PutsTogether

LEMMA FlattenOfThree ==
  ASSUME NEW seqs, Len(seqs) = 3
  PROVE  FlattenSeq(seqs) = (seqs[1] \o seqs[2]) \o seqs[3]
<1>1. PICK f : PutsTogether(f, seqs)
  <2>1. Len(seqs) \in 1 .. 4
    OBVIOUS
  <2> QED BY <2>1, FlattenUnfolds
<1>2. 2 \in 2 .. Len(seqs) /\ 3 \in 2 .. Len(seqs) /\ 2 - 1 = 1 /\ 3 - 1 = 2
  OBVIOUS
<1>3. f[2] = seqs[1] \o seqs[2] /\ f[3] = f[2] \o seqs[3]
  BY <1>1, <1>2, Zenon DEF PutsTogether
<1> QED BY <1>1, <1>3 DEF PutsTogether

LEMMA FlattenOfFour ==
  ASSUME NEW seqs, Len(seqs) = 4
  PROVE  FlattenSeq(seqs) = ((seqs[1] \o seqs[2]) \o seqs[3]) \o seqs[4]
<1>1. PICK f : PutsTogether(f, seqs)
  <2>1. Len(seqs) \in 1 .. 4
    OBVIOUS
  <2> QED BY <2>1, FlattenUnfolds
<1>2. /\ 2 \in 2 .. Len(seqs) /\ 3 \in 2 .. Len(seqs) /\ 4 \in 2 .. Len(seqs)
      /\ 2 - 1 = 1 /\ 3 - 1 = 2 /\ 4 - 1 = 3
  OBVIOUS
<1>3. f[2] = seqs[1] \o seqs[2] /\ f[3] = f[2] \o seqs[3] /\ f[4] = f[3] \o seqs[4]
  BY <1>1, <1>2, Zenon DEF PutsTogether
<1> QED BY <1>1, <1>3 DEF PutsTogether

-----------------------------------------------------------------------------
(* Recommendations: the queue of a concept                                  *)

\* One element of S for each problem of S.
Represents(s, S) ==
  /\ s \in Seq(S)
  /\ \A m, n \in 1 .. Len(s) : ProblemOf[s[m]] = ProblemOf[s[n]] => m = n
  /\ \A t \in S : \E n \in 1 .. Len(s) : ProblemOf[s[n]] = ProblemOf[t]

LEMMA OnceRepresents ==
  ASSUME NEW S, NEW s, Lists(s, S)
  PROVE  Represents(OncePerProblem(s), S)
<1>1. s \in Seq(S) /\ \A t \in S : \E n \in 1 .. Len(s) : s[n] = t
  BY DEF Lists
<1> DEFINE e == OncePerProblem(s)
<1>2. /\ e \in Seq(S)
      /\ \A m, n \in 1 .. Len(e) : ProblemOf[e[m]] = ProblemOf[e[n]] => m = n
      /\ \A i \in 1 .. Len(s) : \E n \in 1 .. Len(e) : ProblemOf[e[n]] = ProblemOf[s[i]]
  BY <1>1, OnceFacts
<1> HIDE DEF e
<1>3. ASSUME NEW t \in S PROVE \E n \in 1 .. Len(e) : ProblemOf[e[n]] = ProblemOf[t]
  <2>1. PICK i \in 1 .. Len(s) : s[i] = t
    BY <1>1
  <2> QED BY <1>2, <2>1
<1> QED BY <1>2, <1>3 DEF Represents, e

LEMMA ListsTogether ==
  ASSUME NEW S, NEW T, NEW s, NEW t, Lists(s, S), Lists(t, T)
  PROVE  Lists(s \o t, S \cup T)
<1>1. s \in Seq(S \cup T) /\ t \in Seq(S \cup T) /\ Len(s) \in Nat /\ Len(t) \in Nat
  BY DEF Lists
<1>2. /\ s \o t \in Seq(S \cup T) /\ Len(s \o t) = Len(s) + Len(t)
      /\ \A i \in 1 .. Len(s) + Len(t) : (s \o t)[i] = IF i <= Len(s) THEN s[i] ELSE t[i - Len(s)]
  BY <1>1, ConcatProperties
<1>3. ASSUME NEW x \in S PROVE \E i \in 1 .. Len(s) + Len(t) : (s \o t)[i] = x
  <2>1. PICK n \in 1 .. Len(s) : s[n] = x
    BY DEF Lists
  <2> QED BY <1>1, <1>2, <2>1
<1>4. ASSUME NEW x \in T PROVE \E i \in 1 .. Len(s) + Len(t) : (s \o t)[i] = x
  <2>1. PICK n \in 1 .. Len(t) : t[n] = x
    BY DEF Lists
  <2>2. /\ Len(s) + n \in 1 .. Len(s) + Len(t) /\ ~(Len(s) + n <= Len(s))
        /\ (Len(s) + n) - Len(s) = n
    BY <1>1
  <2> QED BY <1>2, <2>1, <2>2
<1> QED BY <1>2, <1>3, <1>4 DEF Lists

OfConcept(rows, c) == {t \in rows : ConceptOf[t] = c}

LEMMA QueueRepresents ==
  ASSUME NEW rows \in SUBSET Tasks, NEW c \in Concepts, NEW today \in Nat
  PROVE  Represents(Queue(rows, c, today), OfConcept(rows, c))
<1> DEFINE groups == [i \in 1 .. 3 |-> Group(rows, c, Difficulties[i], today)]
           T(i) == GroupTasks(rows, c, Difficulties[i])
<1>1. Len(groups) = 3
  OBVIOUS
<1>2. groups[1] = Group(rows, c, Difficulties[1], today) /\ groups[2] = Group(rows, c, Difficulties[2], today)
      /\ groups[3] = Group(rows, c, Difficulties[3], today)
  OBVIOUS
<1>3. Lists(groups[1], T(1)) /\ Lists(groups[2], T(2)) /\ Lists(groups[3], T(3))
  <2> HIDE DEF groups
  <2> QED BY <1>2, GroupHolds
<1>4. (T(1) \cup T(2)) \cup T(3) = OfConcept(rows, c)
  BY LearningConstants DEF GroupTasks, OfConcept, Difficulties, Tiers
<1>5. Queue(rows, c, today) = OncePerProblem(FlattenSeq(groups))
  BY DEF Queue
<1> HIDE DEF groups, T
<1>6. Lists((groups[1] \o groups[2]) \o groups[3], OfConcept(rows, c))
  <2>1. Lists(groups[1] \o groups[2], T(1) \cup T(2))
    BY <1>3, ListsTogether
  <2>2. Lists((groups[1] \o groups[2]) \o groups[3], (T(1) \cup T(2)) \cup T(3))
    BY <1>3, <2>1, ListsTogether
  <2> QED BY <1>4, <2>2
<1>7. Lists(FlattenSeq(groups), OfConcept(rows, c))
  BY <1>1, <1>6, FlattenOfThree
<1> QED BY <1>5, <1>7, OnceRepresents

-----------------------------------------------------------------------------
(* Recommendations: one list of candidates                                  *)

\* One task for each problem; and before a concept gives a second one, every
\* concept there are rows of has given one.
Diverse(s, rows) ==
  /\ Represents(s, rows)
  /\ \A i, j \in 1 .. Len(s) : i < j /\ ConceptOf[s[i]] = ConceptOf[s[j]] =>
       \A t \in rows : \E k \in 1 .. j - 1 : ConceptOf[s[k]] = ConceptOf[t]

PlaceOf(e, weak) == IF e \in Range(weak) THEN CHOOSE i \in DOMAIN weak : weak[i] = e ELSE 999

LEMMA PlaceIsNumber ==
  ASSUME NEW S, NEW weak \in Seq(S), NEW e
  PROVE  PlaceOf(e, weak) \in Int
<1>1. DOMAIN weak \subseteq Int
  BY SequenceFacts
<1>2. e \in Range(weak) => \E i \in DOMAIN weak : weak[i] = e
  BY DEF Range
<1> QED BY <1>1, <1>2 DEF PlaceOf

Queues(rows, today) == [c \in Concepts |-> Queue(rows, c, today)]
Turns(q) == UNION {{[round |-> i, task |-> q[c][i]] : i \in DOMAIN q[c]} : c \in Concepts}
ComesBefore(x, y, weak, today) ==
  \/ x.round < y.round
  \/ x.round = y.round /\ ConceptBefore(ConceptOf[x.task], ConceptOf[y.task], weak, today)
InTurn(q, weak, today) ==
  Sorted(Turns(q), [y \in Turns(q) |-> {x \in Turns(q) : ComesBefore(x, y, weak, today)}])

LEMMA DiversifiedIs ==
  ASSUME NEW rows, NEW weak, NEW today
  PROVE  Diversified(rows, weak, today)
           = [i \in DOMAIN InTurn(Queues(rows, today), weak, today) |->
                InTurn(Queues(rows, today), weak, today)[i].task]
  BY DEF Diversified, InTurn, Turns, ComesBefore, Queues

\* q gives each concept the queue of its rows.
QueuesOf(q, rows) == \A c \in Concepts : Represents(q[c], OfConcept(rows, c))

LEMMA TurnsAre ==
  ASSUME NEW rows \in SUBSET Tasks, NEW q, QueuesOf(q, rows)
  PROVE  /\ \A c \in Concepts : \A i \in 1 .. Len(q[c]) : [round |-> i, task |-> q[c][i]] \in Turns(q)
         /\ \A x \in Turns(q) :
              /\ x.task \in rows /\ ConceptOf[x.task] \in Concepts
              /\ x.round \in 1 .. Len(q[ConceptOf[x.task]]) /\ x.round \in Int
              /\ x.task = q[ConceptOf[x.task]][x.round]
         /\ \A x, y \in Turns(q) : x.round = y.round /\ x.task = y.task => x = y
         /\ \A x, y \in Turns(q) : ProblemOf[x.task] = ProblemOf[y.task] => x = y
<1>1. \A c \in Concepts : q[c] \in Seq(OfConcept(rows, c)) /\ DOMAIN q[c] = 1 .. Len(q[c]) /\ Len(q[c]) \in Nat
  <2> TAKE c \in Concepts
  <2>1. q[c] \in Seq(OfConcept(rows, c))
    BY DEF QueuesOf, Represents
  <2> QED BY <2>1, SequenceFacts
<1>2. \A c \in Concepts : \A i \in 1 .. Len(q[c]) : [round |-> i, task |-> q[c][i]] \in Turns(q)
  BY <1>1 DEF Turns
<1>3. ASSUME NEW x \in Turns(q)
      PROVE  \E c \in Concepts : \E i \in 1 .. Len(q[c]) : x = [round |-> i, task |-> q[c][i]]
  BY <1>1 DEF Turns
<1>4. \A c \in Concepts : \A i \in 1 .. Len(q[c]) : q[c][i] \in rows /\ ConceptOf[q[c][i]] = c
  <2> TAKE c \in Concepts
  <2> TAKE i \in 1 .. Len(q[c])
  <2>1. q[c][i] \in OfConcept(rows, c)
    BY <1>1, SequenceFacts
  <2> QED BY <2>1 DEF OfConcept
<1>5. ASSUME NEW x \in Turns(q)
      PROVE  /\ x.task \in rows /\ ConceptOf[x.task] \in Concepts
             /\ x.round \in 1 .. Len(q[ConceptOf[x.task]]) /\ x.round \in Int
             /\ x.task = q[ConceptOf[x.task]][x.round]
             /\ x = [round |-> x.round, task |-> x.task]
  <2>1. PICK c \in Concepts : \E i \in 1 .. Len(q[c]) : x = [round |-> i, task |-> q[c][i]]
    BY <1>3
  <2>2. PICK i \in 1 .. Len(q[c]) : x = [round |-> i, task |-> q[c][i]]
    BY <2>1
  <2>3. x.round = i /\ x.task = q[c][i] /\ ConceptOf[x.task] = c
    BY <1>4, <2>2
  <2> QED BY <1>4, <2>2, <2>3
<1>6. ASSUME NEW x \in Turns(q), NEW y \in Turns(q), x.round = y.round, x.task = y.task PROVE x = y
  BY <1>5, <1>6
<1>7. ASSUME NEW x \in Turns(q), NEW y \in Turns(q), ProblemOf[x.task] = ProblemOf[y.task] PROVE x = y
  <2>1. ConceptOf[x.task] = ConceptOf[y.task]
    BY <1>5, <1>7, RecommendationsAssumption
  <2>2. PICK c \in Concepts : c = ConceptOf[x.task]
    BY <1>5
  <2>3. x.round \in 1 .. Len(q[c]) /\ y.round \in 1 .. Len(q[c]) /\ x.task = q[c][x.round] /\ y.task = q[c][y.round]
    BY <1>5, <2>1, <2>2
  <2>4. x.round = y.round
    <3>1. \A m, n \in 1 .. Len(q[c]) : ProblemOf[q[c][m]] = ProblemOf[q[c][n]] => m = n
      BY DEF QueuesOf, Represents
    <3> QED BY <1>7, <2>3, <3>1
  <2> QED BY <1>6, <2>3, <2>4
<1> QED BY <1>2, <1>5, <1>6, <1>7

LEMMA TurnsAreFinite ==
  ASSUME NEW rows \in SUBSET Tasks, NEW q, QueuesOf(q, rows)
  PROVE  IsFiniteSet(Turns(q))
<1> DEFINE f == [x \in Turns(q) |-> x.task]
<1>1. f \in [Turns(q) -> Tasks]
  BY TurnsAre
<1>2. \A x, y \in Turns(q) : f[x] = f[y] => x = y
  <2>1. \A x, y \in Turns(q) : x.task = y.task => x = y
    BY TurnsAre
  <2> QED BY <2>1
<1>3. f \in Injection(Turns(q), Tasks)
  <2> HIDE DEF f
  <2> QED BY <1>1, <1>2 DEF Injection, IsInjective
<1> QED BY <1>3, LearningConstants, FS_Injection

LEMMA RanksDiffer ==
  ASSUME NEW today \in DOMAIN ConceptRank, NEW c \in Concepts
  PROVE  /\ ConceptRank[today][c] \in Int
         /\ \A d \in Concepts : ConceptRank[today][c] = ConceptRank[today][d] => c = d
<1>1. \A date \in DOMAIN ConceptRank, d, e \in Concepts :
        ConceptRank[date][d] \in Nat /\ (ConceptRank[date][d] = ConceptRank[date][e] => d = e)
  BY RecommendationsAssumption
<1> QED BY <1>1

\* A strict order: by round, then place, then rank.
LEMMA TurnsAreOrdered ==
  ASSUME NEW rows \in SUBSET Tasks, NEW q, QueuesOf(q, rows),
         NEW S, NEW weak \in Seq(S), NEW today \in DOMAIN ConceptRank
  PROVE  StrictOrder(Turns(q), [y \in Turns(q) |-> {x \in Turns(q) : ComesBefore(x, y, weak, today)}])
<1> DEFINE T == Turns(q)
           before == [y \in T |-> {x \in T : ComesBefore(x, y, weak, today)}]
           a == [x \in T |-> x.round]
           b == [x \in T |-> PlaceOf(ConceptOf[x.task], weak)]
           r == [x \in T |-> ConceptRank[today][ConceptOf[x.task]]]
<1>1. \A x \in T : ConceptOf[x.task] \in Concepts /\ x.round \in Int
  BY TurnsAre
<1>2. \A x \in T : ConceptRank[today][ConceptOf[x.task]] \in Int
  BY <1>1, RanksDiffer
<1>3. a \in [T -> Int] /\ b \in [T -> Int] /\ r \in [T -> Int] /\ before \in [T -> SUBSET T]
  <2> HIDE DEF T
  <2>1. \A x \in T : PlaceOf(ConceptOf[x.task], weak) \in Int
    BY PlaceIsNumber
  <2> QED BY <1>1, <1>2, <2>1
<1>4. ASSUME NEW x \in T, NEW y \in T
      PROVE  x \in before[y] <=>
               \/ a[x] < a[y]
               \/ a[x] = a[y] /\ (b[x] < b[y] \/ (b[x] = b[y] /\ r[x] < r[y]))
  <2>1. ComesBefore(x, y, weak, today) <=>
          \/ x.round < y.round
          \/ x.round = y.round /\
               (\/ PlaceOf(ConceptOf[x.task], weak) < PlaceOf(ConceptOf[y.task], weak)
                \/ /\ PlaceOf(ConceptOf[x.task], weak) = PlaceOf(ConceptOf[y.task], weak)
                   /\ ConceptRank[today][ConceptOf[x.task]] < ConceptRank[today][ConceptOf[y.task]])
    BY Zenon DEF ComesBefore, ConceptBefore, PlaceOf
  <2> HIDE DEF T
  <2> QED BY <2>1
<1>5. ASSUME NEW x \in T, NEW y \in T, a[x] = a[y], r[x] = r[y]
      PROVE  x = y
  <2>1. x.round = y.round /\ ConceptRank[today][ConceptOf[x.task]] = ConceptRank[today][ConceptOf[y.task]]
    <3> HIDE DEF T
    <3> QED BY <1>5
  <2>2. ConceptOf[x.task] = ConceptOf[y.task]
    BY <1>1, <2>1, RanksDiffer
  <2>3. x.task = q[ConceptOf[x.task]][x.round] /\ y.task = q[ConceptOf[y.task]][y.round]
    BY TurnsAre
  <2>4. x.task = y.task
    BY <2>1, <2>2, <2>3
  <2> QED BY <2>1, <2>4, TurnsAre
<1> HIDE DEF T, before, a, b, r
<1>6. StrictOrder(T, before)
  <2>1. \A x, y \in T : x \in before[y] <=>
          \/ a[x] < a[y]
          \/ a[x] = a[y] /\ (b[x] < b[y] \/ (b[x] = b[y] /\ r[x] < r[y]))
    BY <1>4
  <2>2. \A x, y \in T : a[x] = a[y] /\ b[x] = b[y] /\ r[x] = r[y] => x = y
    BY <1>5
  <2>3. ByKeys(T, before, a, b, r)
    BY <1>3, <2>1, <2>2 DEF ByKeys
  <2> QED BY <2>3, OrderByKeys
<1> QED BY <1>6 DEF T, before

LEMMA DiversifiedIsDiverse ==
  ASSUME NEW rows \in SUBSET Tasks, NEW S, NEW weak \in Seq(S),
         NEW today \in DOMAIN ConceptRank, today \in Nat
  PROVE  Diverse(Diversified(rows, weak, today), rows)
<1> DEFINE q == Queues(rows, today)
           T == Turns(q)
           before == [y \in T |-> {x \in T : ComesBefore(x, y, weak, today)}]
           s == InTurn(q, weak, today)
           N == Cardinality(T)
<1>1. QueuesOf(q, rows)
  BY QueueRepresents DEF QueuesOf, Queues
<1>2. IsFiniteSet(T) /\ StrictOrder(T, before)
  <2> HIDE DEF q
  <2> QED BY <1>1, TurnsAreFinite, TurnsAreOrdered
<1>3. s = Sorted(T, before)
  BY DEF InTurn
<1>4. /\ N \in Nat /\ s \in [1 .. N -> T]
      /\ \A x \in T : \E n \in 1 .. N : s[n] = x
      /\ \A m, n \in 1 .. N : m < n <=> s[m] \in before[s[n]]
  <2> HIDE DEF T, before, s
  <2> QED BY <1>2, <1>3, SortedIsSorted
<1> DEFINE d == [n \in 1 .. N |-> s[n].task]
<1>5. Diversified(rows, weak, today) = d
  <2> HIDE DEF N, T
  <2>1. DOMAIN s = 1 .. N
    BY <1>4
  <2> QED BY <2>1, DiversifiedIs
<1>6. \A x \in T : /\ x.task \in rows /\ ConceptOf[x.task] \in Concepts
                   /\ x.round \in 1 .. Len(q[ConceptOf[x.task]]) /\ x.round \in Int
  <2> HIDE DEF q
  <2> QED BY <1>1, TurnsAre
<1>7. \A x, y \in T : ProblemOf[x.task] = ProblemOf[y.task] => x = y
  <2> HIDE DEF q
  <2> QED BY <1>1, TurnsAre
<1>8. \A c \in Concepts : \A i \in 1 .. Len(q[c]) : [round |-> i, task |-> q[c][i]] \in T
  <2> HIDE DEF q
  <2> QED BY <1>1, TurnsAre
<1>9. \A m, n \in 1 .. N : m < n =>
        s[m].round < s[n].round \/ ConceptOf[s[m].task] # ConceptOf[s[n].task]
  <2> TAKE m, n \in 1 .. N
  <2> HAVE m < n
  <2>1. s[m] \in T /\ s[n] \in T /\ s[m] \in before[s[n]]
    <3> HIDE DEF T, before, s, N
    <3> QED BY <1>4
  <2>2. ComesBefore(s[m], s[n], weak, today)
    <3> HIDE DEF T, s
    <3> QED BY <2>1
  <2> HIDE DEF s
  <2>3. ASSUME ConceptOf[s[m].task] = ConceptOf[s[n].task], ~(s[m].round < s[n].round) PROVE FALSE
    <3>1. ConceptBefore(ConceptOf[s[m].task], ConceptOf[s[n].task], weak, today)
      BY <2>2, <2>3 DEF ComesBefore
    <3>2. PICK c \in Concepts : c = ConceptOf[s[m].task] /\ c = ConceptOf[s[n].task]
      BY <1>6, <2>1, <2>3
    <3>3. /\ PlaceOf(c, weak) \in Int /\ ConceptRank[today][c] \in Int
      BY PlaceIsNumber, RanksDiffer
    <3>4. \/ PlaceOf(c, weak) < PlaceOf(c, weak)
          \/ ConceptRank[today][c] < ConceptRank[today][c]
      <4>1. ConceptBefore(c, c, weak, today)
        BY <3>1, <3>2
      <4> QED BY <4>1, Zenon DEF ConceptBefore, PlaceOf
    <3> QED BY <3>3, <3>4
  <2> QED BY <2>3
<1>10. \A n \in 1 .. N : \A x \in T : x.round < s[n].round => \E k \in 1 .. n - 1 : s[k] = x
  <2> TAKE n \in 1 .. N
  <2> TAKE x \in T
  <2> HAVE x.round < s[n].round
  <2>1. x \in before[s[n]]
    <3>1. s[n] \in T
      <4> HIDE DEF T, s, N, before
      <4> QED BY <1>4
    <3> HIDE DEF T, s
    <3> QED BY <3>1 DEF ComesBefore
  <2> HIDE DEF T, before, s, N
  <2>2. PICK k \in 1 .. N : s[k] = x
    BY <1>4
  <2>3. k < n
    BY <1>4, <2>1, <2>2
  <2> QED BY <1>4, <2>2, <2>3
<1> HIDE DEF T, before, s, N
<1>11. d \in Seq(rows) /\ Len(d) = N /\ \A n \in 1 .. N : d[n] = s[n].task /\ s[n] \in T
  <2>1. \A n \in 1 .. N : s[n] \in T /\ s[n].task \in rows
    BY <1>4, <1>6
  <2>2. d \in Seq(rows) /\ Len(d) = N
    BY <1>4, <2>1
  <2> QED BY <2>1, <2>2
<1> HIDE DEF d
<1>12. \A m, n \in 1 .. N : ProblemOf[d[m]] = ProblemOf[d[n]] => m = n
  <2> TAKE m, n \in 1 .. N
  <2> HAVE ProblemOf[d[m]] = ProblemOf[d[n]]
  <2>1. s[m] = s[n]
    BY <1>7, <1>11
  <2>2. (m < n <=> m < m) /\ (n < m <=> m < m)
    BY <1>4, <2>1
  <2> QED BY <1>4, <2>2
<1>13. ASSUME NEW t \in rows
       PROVE  \E i \in 1 .. Len(q[ConceptOf[t]]) :
                /\ [round |-> i, task |-> q[ConceptOf[t]][i]] \in T
                /\ ProblemOf[q[ConceptOf[t]][i]] = ProblemOf[t]
                /\ ConceptOf[q[ConceptOf[t]][i]] = ConceptOf[t]
  <2>1. ConceptOf[t] \in Concepts
    BY DEF Concepts
  <2>2. PICK c \in Concepts : c = ConceptOf[t]
    BY <2>1
  <2> HIDE DEF q
  <2>3. t \in OfConcept(rows, c) /\ Represents(q[c], OfConcept(rows, c))
    BY <1>1, <2>2 DEF OfConcept, QueuesOf
  <2>4. PICK i \in 1 .. Len(q[c]) : ProblemOf[q[c][i]] = ProblemOf[t]
    BY <2>3 DEF Represents
  <2>5. q[c][i] \in OfConcept(rows, c)
    BY <2>3, SequenceFacts DEF Represents
  <2> QED BY <1>8, <2>2, <2>4, <2>5 DEF OfConcept
<1>14. ASSUME NEW t \in rows PROVE \E n \in 1 .. N : ProblemOf[d[n]] = ProblemOf[t]
  <2>1. PICK x \in T : ProblemOf[x.task] = ProblemOf[t]
    <3> HIDE DEF q
    <3> QED BY <1>13
  <2> QED BY <1>4, <1>11, <2>1
<1>15. ASSUME NEW i \in 1 .. N, NEW j \in 1 .. N, i < j, ConceptOf[d[i]] = ConceptOf[d[j]], NEW t \in rows
       PROVE  \E k \in 1 .. j - 1 : ConceptOf[d[k]] = ConceptOf[t]
  <2>1. PICK l \in 1 .. Len(q[ConceptOf[t]]) : [round |-> l, task |-> q[ConceptOf[t]][l]] \in T
    BY <1>13
  <2> HIDE DEF q
  <2>2. ConceptOf[t] \in Concepts
    BY DEF Concepts
  <2>3. PICK c \in Concepts : c = ConceptOf[t]
    BY <2>2
  <2>4. Len(q[c]) \in Nat /\ Represents(q[c], OfConcept(rows, c))
    <3>1. Represents(q[c], OfConcept(rows, c))
      BY <1>1 DEF QueuesOf
    <3>2. q[c] \in Seq(OfConcept(rows, c))
      BY <3>1 DEF Represents
    <3> QED BY <3>1, <3>2, SequenceFacts
  <2>5. 1 \in 1 .. Len(q[c])
    BY <2>1, <2>3, <2>4
  <2>6. [round |-> 1, task |-> q[c][1]] \in T /\ q[c][1] \in OfConcept(rows, c)
    BY <1>8, <2>4, <2>5, SequenceFacts DEF Represents
  <2>7. s[i].round \in Nat \ {0} /\ s[j].round \in Nat
    BY <1>6, <1>11
  <2>8. s[i].round < s[j].round
    BY <1>9, <1>11, <1>15
  <2> DEFINE x == [round |-> 1, task |-> q[c][1]]
  <2>9. x \in T /\ x.round = 1 /\ s[j].round > 1
    BY <2>6, <2>7, <2>8
  <2>10. PICK k \in 1 .. j - 1 : s[k] = x
    <3> HIDE DEF x
    <3> QED BY <1>10, <2>7, <2>9
  <2>11. k \in 1 .. N
    BY <1>4
  <2>12. d[k] = q[c][1]
    BY <1>11, <2>10, <2>11
  <2> QED BY <2>3, <2>6, <2>12 DEF OfConcept
<1> QED BY <1>5, <1>11, <1>12, <1>14, <1>15 DEF Diverse, Represents

-----------------------------------------------------------------------------
(* Recommendations: the lists one after the other                           *)

\* s shows the sequences d[1] .. d[K] one after the other: what stands at i
\* comes from place p[i] of d[b[i]].
Joined(s, d, K, b, p) ==
  /\ b \in [1 .. Len(s) -> 1 .. K] /\ p \in [1 .. Len(s) -> Nat]
  /\ \A i \in 1 .. Len(s) : p[i] \in 1 .. Len(d[b[i]]) /\ s[i] = d[b[i]][p[i]]
  /\ \A k \in 1 .. K : \A n \in 1 .. Len(d[k]) : \E i \in 1 .. Len(s) : b[i] = k /\ p[i] = n
  /\ \A i, j \in 1 .. Len(s) : i < j => b[i] < b[j] \/ (b[i] = b[j] /\ p[i] < p[j])

LEMMA JoinedOne ==
  ASSUME NEW S, NEW d, d[1] \in Seq(S)
  PROVE  \E b, p : Joined(d[1], d, 1, b, p)
<1> DEFINE b == [i \in 1 .. Len(d[1]) |-> 1]
           p == [i \in 1 .. Len(d[1]) |-> i]
<1>1. Len(d[1]) \in Nat
  OBVIOUS
<1>2. Joined(d[1], d, 1, b, p)
  BY <1>1 DEF Joined
<1> QED BY <1>2

LEMMA JoinedNext ==
  ASSUME NEW S, NEW d, NEW K \in Nat, NEW s \in Seq(S), d[K + 1] \in Seq(S),
         \E b, p : Joined(s, d, K, b, p)
  PROVE  \E b, p : Joined(s \o d[K + 1], d, K + 1, b, p)
<1>1. PICK b, p : Joined(s, d, K, b, p)
  OBVIOUS
<1> DEFINE t == d[K + 1]
           N == Len(s)
           b1 == [i \in 1 .. N + Len(t) |-> IF i <= N THEN b[i] ELSE K + 1]
           p1 == [i \in 1 .. N + Len(t) |-> IF i <= N THEN p[i] ELSE i - N]
<1>2. N \in Nat /\ Len(t) \in Nat
  OBVIOUS
<1>3. /\ s \o t \in Seq(S) /\ Len(s \o t) = N + Len(t)
      /\ \A i \in 1 .. N + Len(t) : (s \o t)[i] = IF i <= N THEN s[i] ELSE t[i - N]
  BY ConcatProperties
<1>4. /\ b \in [1 .. N -> 1 .. K] /\ p \in [1 .. N -> Nat]
      /\ \A i \in 1 .. N : p[i] \in 1 .. Len(d[b[i]]) /\ s[i] = d[b[i]][p[i]]
      /\ \A k \in 1 .. K : \A n \in 1 .. Len(d[k]) : \E i \in 1 .. N : b[i] = k /\ p[i] = n
      /\ \A i, j \in 1 .. N : i < j => b[i] < b[j] \/ (b[i] = b[j] /\ p[i] < p[j])
  BY <1>1 DEF Joined
<1> HIDE DEF N, t
<1>5. ASSUME NEW i \in 1 .. N + Len(t)
      PROVE  \/ i \in 1 .. N /\ b1[i] = b[i] /\ p1[i] = p[i] /\ b1[i] \in 1 .. K /\ (s \o t)[i] = s[i]
             \/ /\ i \notin 1 .. N /\ i - N \in 1 .. Len(t)
                /\ b1[i] = K + 1 /\ p1[i] = i - N /\ (s \o t)[i] = t[i - N]
  BY <1>2, <1>3, <1>4
<1>6. b1 \in [1 .. N + Len(t) -> 1 .. K + 1] /\ p1 \in [1 .. N + Len(t) -> Nat]
  BY <1>2, <1>4
<1> HIDE DEF b1, p1
<1>7. \A i \in 1 .. N + Len(t) : p1[i] \in 1 .. Len(d[b1[i]]) /\ (s \o t)[i] = d[b1[i]][p1[i]]
  <2> TAKE i \in 1 .. N + Len(t)
  <2>1. CASE i \in 1 .. N
    BY <1>4, <1>5, <2>1
  <2>2. CASE i \notin 1 .. N
    BY <1>5, <2>2 DEF t
  <2> QED BY <2>1, <2>2
<1>8. ASSUME NEW k \in 1 .. K + 1, NEW n \in 1 .. Len(d[k])
      PROVE  \E i \in 1 .. N + Len(t) : b1[i] = k /\ p1[i] = n
  <2>1. CASE k \in 1 .. K
    <3>1. PICK i \in 1 .. N : b[i] = k /\ p[i] = n
      BY <1>4, <2>1
    <3>2. i \in 1 .. N + Len(t)
      BY <1>2
    <3> QED BY <1>5, <3>1, <3>2
  <2>2. CASE k = K + 1
    <3>1. n \in 1 .. Len(t)
      BY <2>2 DEF t
    <3>2. N + n \in 1 .. N + Len(t) /\ N + n \notin 1 .. N /\ (N + n) - N = n
      BY <1>2, <3>1
    <3>3. b1[N + n] = K + 1 /\ p1[N + n] = n
      BY <1>5, <3>2
    <3> QED BY <2>2, <3>2, <3>3
  <2> QED BY <2>1, <2>2
<1>9. ASSUME NEW i \in 1 .. N + Len(t), NEW j \in 1 .. N + Len(t), i < j
      PROVE  b1[i] < b1[j] \/ (b1[i] = b1[j] /\ p1[i] < p1[j])
  <2>1. CASE j \in 1 .. N
    <3>1. i \in 1 .. N
      BY <1>2, <1>9, <2>1
    <3> QED BY <1>4, <1>5, <1>9, <2>1, <3>1
  <2>2. CASE i \in 1 .. N /\ j \notin 1 .. N
    BY <1>5, <2>2
  <2>3. CASE i \notin 1 .. N /\ j \notin 1 .. N
    <3>1. b1[i] = b1[j] /\ p1[i] = i - N /\ p1[j] = j - N
      BY <1>5, <2>3
    <3> QED BY <1>2, <1>9, <3>1
  <2>4. i \notin 1 .. N => j \notin 1 .. N
    BY <1>2, <1>9
  <2> QED BY <2>1, <2>2, <2>3, <2>4
<1>10. Joined(s \o t, d, K + 1, b1, p1)
  BY <1>3, <1>6, <1>7, <1>8, <1>9 DEF Joined
<1> QED BY <1>10 DEF t

LEMMA JoinedFour ==
  ASSUME NEW S, NEW d, Len(d) = 4, d[1] \in Seq(S), d[2] \in Seq(S), d[3] \in Seq(S), d[4] \in Seq(S)
  PROVE  FlattenSeq(d) \in Seq(S) /\ \E b, p : Joined(FlattenSeq(d), d, 4, b, p)
<1> DEFINE s2 == d[1] \o d[2]
           s3 == s2 \o d[3]
           s4 == s3 \o d[4]
<1>1. s2 \in Seq(S) /\ s3 \in Seq(S) /\ s4 \in Seq(S)
  BY ConcatProperties
<1>2. FlattenSeq(d) = s4
  BY FlattenOfFour
<1>3. \E b, p : Joined(d[1], d, 1, b, p)
  BY JoinedOne
<1>4. 1 + 1 = 2 /\ 2 + 1 = 3 /\ 3 + 1 = 4 /\ 1 \in Nat /\ 2 \in Nat /\ 3 \in Nat
  OBVIOUS
<1>5. \E b, p : Joined(s2, d, 2, b, p)
  BY <1>3, <1>4, JoinedNext
<1> HIDE DEF s2
<1>6. \E b, p : Joined(s3, d, 3, b, p)
  BY <1>1, <1>4, <1>5, JoinedNext
<1> HIDE DEF s3
<1>7. \E b, p : Joined(s4, d, 4, b, p)
  BY <1>1, <1>4, <1>6, JoinedNext
<1> QED BY <1>1, <1>2, <1>7

-----------------------------------------------------------------------------
(* Recommendations: the page                                                *)

\* w shows, one after the other, a diverse selection of each list of candidates.
Assembled(w, rows, recent, W, d, b, p) ==
  /\ rows \in SUBSET Tasks /\ w \in Seq(rows) /\ Len(w) \in Nat
  /\ \A k \in 1 .. 4 : Diverse(d[k], Candidates(rows, recent, W)[k])
  /\ Joined(w, d, 4, b, p)

LEMMA ClassIsList ==
  ASSUME NEW rows, NEW recent, NEW W
  PROVE  /\ \A t : Class(t, recent, W) \in 1 .. 4
         /\ \A t \in rows : t \in Candidates(rows, recent, W)[Class(t, recent, W)]
         /\ \A k \in 1 .. 4 : \A t \in Candidates(rows, recent, W)[k] :
              t \in rows /\ Class(t, recent, W) <= k
         /\ \A t \in Candidates(rows, recent, W)[1] : ConceptOf[t] \in W
         /\ \A t : Class(t, recent, W) = 2 => ConceptOf[t] \notin W
<1>1. /\ Candidates(rows, recent, W)[1] = {t \in rows \ recent : ConceptOf[t] \in W}
      /\ Candidates(rows, recent, W)[2] = rows \ recent
      /\ Candidates(rows, recent, W)[3] = {t \in rows : ConceptOf[t] \in W}
      /\ Candidates(rows, recent, W)[4] = rows
  BY DEF Candidates
<1>2. \A t : Class(t, recent, W) \in 1 .. 4
  BY DEF Class
<1>3. \A t \in rows : t \in Candidates(rows, recent, W)[Class(t, recent, W)]
  BY <1>1 DEF Class
<1>4. ASSUME NEW k \in 1 .. 4, NEW t \in Candidates(rows, recent, W)[k]
      PROVE  t \in rows /\ Class(t, recent, W) <= k
  <2>1. k = 1 \/ k = 2 \/ k = 3 \/ k = 4
    OBVIOUS
  <2> QED BY <1>1, <2>1 DEF Class
<1>5. \A t \in Candidates(rows, recent, W)[1] : ConceptOf[t] \in W
  BY <1>1
<1>6. \A t : Class(t, recent, W) = 2 => ConceptOf[t] \notin W
  BY DEF Class
<1> QED BY <1>2, <1>3, <1>4, <1>5, <1>6

\* What stands where in the lists put together.
LEMMA AssembledFacts ==
  ASSUME NEW w, NEW rows, NEW recent, NEW W, NEW d, NEW b, NEW p,
         Assembled(w, rows, recent, W, d, b, p)
  PROVE  /\ \A i \in 1 .. Len(w) :
              /\ b[i] \in 1 .. 4 /\ p[i] \in 1 .. Len(d[b[i]]) /\ w[i] = d[b[i]][p[i]]
              /\ w[i] \in rows /\ w[i] \in Candidates(rows, recent, W)[b[i]]
              /\ Class(w[i], recent, W) <= b[i] /\ Class(w[i], recent, W) \in 1 .. 4
         /\ \A i, j \in 1 .. Len(w) : i < j => b[i] < b[j] \/ (b[i] = b[j] /\ p[i] < p[j])
         /\ \A i \in 1 .. Len(w) : p[i] \in Nat
<1>1. /\ b \in [1 .. Len(w) -> 1 .. 4] /\ p \in [1 .. Len(w) -> Nat]
      /\ \A i \in 1 .. Len(w) : p[i] \in 1 .. Len(d[b[i]]) /\ w[i] = d[b[i]][p[i]]
      /\ \A i, j \in 1 .. Len(w) : i < j => b[i] < b[j] \/ (b[i] = b[j] /\ p[i] < p[j])
  BY DEF Assembled, Joined
<1>2. ASSUME NEW i \in 1 .. Len(w)
      PROVE  w[i] \in rows /\ w[i] \in Candidates(rows, recent, W)[b[i]]
  <2>1. PICK k \in 1 .. 4 : k = b[i]
    BY <1>1
  <2>2. d[k] \in Seq(Candidates(rows, recent, W)[k])
    BY DEF Assembled, Diverse, Represents
  <2>3. p[i] \in 1 .. Len(d[k]) /\ w[i] = d[k][p[i]]
    BY <1>1, <2>1
  <2>4. w[i] \in Candidates(rows, recent, W)[k]
    BY <2>2, <2>3, ElementOfSeq
  <2> QED BY <2>1, <2>4, ClassIsList
<1>3. \A i \in 1 .. Len(w) : Class(w[i], recent, W) <= b[i] /\ Class(w[i], recent, W) \in 1 .. 4
  BY <1>1, <1>2, ClassIsList
<1> QED BY <1>1, <1>2, <1>3

\* A problem that is better than what is kept at i has been kept before i.
LEMMA BetterIsEarlier ==
  ASSUME NEW w, NEW rows, NEW recent, NEW W, NEW d, NEW b, NEW p,
         Assembled(w, rows, recent, W, d, b, p),
         NEW t \in rows, NEW i \in 1 .. Len(w), Class(t, recent, W) < b[i]
  PROVE  \E j \in Firsts(w) : j < i /\ ProblemOf[w[j]] = ProblemOf[t]
<1>1. PICK k \in 1 .. 4 : k = Class(t, recent, W)
  BY ClassIsList
<1>2. t \in Candidates(rows, recent, W)[k] /\ k < b[i]
  <2>1. t \in Candidates(rows, recent, W)[Class(t, recent, W)]
    BY ClassIsList
  <2> QED BY <1>1, <2>1
<1>3. PICK n \in 1 .. Len(d[k]) : ProblemOf[d[k][n]] = ProblemOf[t]
  <2>1. Represents(d[k], Candidates(rows, recent, W)[k])
    BY DEF Assembled, Diverse
  <2> QED BY <1>2, <2>1 DEF Represents
<1>4. PICK j \in 1 .. Len(w) : b[j] = k /\ p[j] = n
  BY DEF Assembled, Joined
<1>5. ProblemOf[w[j]] = ProblemOf[t]
  BY <1>3, <1>4, AssembledFacts
<1>6. j < i
  <2>1. i < j => b[i] <= b[j]
    <3>1. i < j => b[i] < b[j] \/ b[i] = b[j]
      BY AssembledFacts
    <3>2. b[i] \in 1 .. 4 /\ b[j] \in 1 .. 4
      BY AssembledFacts
    <3> QED BY <3>1, <3>2
  <2>2. Len(w) \in Nat /\ b[i] \in 1 .. 4
    BY AssembledFacts DEF Assembled
  <2> QED BY <1>2, <1>4, <2>1, <2>2
<1>7. w \in Seq(rows) /\ Len(w) \in Nat
  BY DEF Assembled
<1>8. PICK l \in Firsts(w) : l <= j /\ ProblemOf[w[l]] = ProblemOf[w[j]]
  BY <1>7, FirstsDiffer
<1>9. l \in 1 .. Len(w)
  BY <1>7, FirstsDiffer
<1> QED BY <1>5, <1>6, <1>7, <1>8, <1>9

\* So what is kept from a list is of its class.
LEMMA KeptFromItsList ==
  ASSUME NEW w, NEW rows, NEW recent, NEW W, NEW d, NEW b, NEW p,
         Assembled(w, rows, recent, W, d, b, p), NEW i \in Firsts(w)
  PROVE  Class(w[i], recent, W) = b[i] /\ i \in 1 .. Len(w)
<1>1. w \in Seq(rows)
  BY DEF Assembled
<1>2. i \in 1 .. Len(w) /\ Len(w) \in Nat
  BY <1>1, FirstsDiffer DEF Assembled
<1>3. /\ w[i] \in rows /\ Class(w[i], recent, W) <= b[i]
      /\ Class(w[i], recent, W) \in 1 .. 4 /\ b[i] \in 1 .. 4
  BY <1>2, AssembledFacts
<1>4. ASSUME Class(w[i], recent, W) < b[i] PROVE FALSE
  <2>1. PICK j \in Firsts(w) : j < i /\ ProblemOf[w[j]] = ProblemOf[w[i]]
    BY <1>2, <1>3, <1>4, BetterIsEarlier
  <2>2. j = i
    BY <1>1, <2>1, FirstsDiffer
  <2> QED BY <1>2, <2>1, <2>2
<1> QED BY <1>2, <1>3, <1>4

\* And before a concept gives its second new task, every other one with a task
\* of that class has given one.
LEMMA ConceptsTakeTurns ==
  ASSUME NEW w, NEW rows, NEW recent, NEW W, NEW d, NEW b, NEW p,
         Assembled(w, rows, recent, W, d, b, p),
         NEW i \in Firsts(w), NEW j \in Firsts(w), i < j,
         Class(w[i], recent, W) = Class(w[j], recent, W), Class(w[j], recent, W) <= 2,
         ConceptOf[w[i]] = ConceptOf[w[j]],
         NEW t \in rows, Class(t, recent, W) = Class(w[j], recent, W)
  PROVE  \E u \in Firsts(w) : /\ u < j /\ ConceptOf[w[u]] = ConceptOf[t]
                              /\ Class(w[u], recent, W) = Class(t, recent, W)
<1>1. PICK k \in 1 .. 2 : k = b[i] /\ k = b[j] /\ k = Class(t, recent, W)
  <2>1. Class(w[i], recent, W) = b[i] /\ Class(w[j], recent, W) = b[j]
    BY KeptFromItsList
  <2>2. Class(w[j], recent, W) \in 1 .. 4
    BY ClassIsList
  <2>3. b[j] \in 1 .. 2 /\ b[j] = b[i] /\ b[j] = Class(t, recent, W)
    <3>1. b[j] = b[i] /\ b[j] = Class(t, recent, W)
      BY <2>1
    <3>2. b[j] \in 1 .. 4 /\ b[j] <= 2
      BY <2>1, <2>2
    <3> QED BY <3>1, <3>2
  <2> QED BY <2>3
<1>2. i \in 1 .. Len(w) /\ j \in 1 .. Len(w) /\ Len(w) \in Nat
  BY KeptFromItsList DEF Assembled
<1>3. /\ p[i] \in 1 .. Len(d[k]) /\ p[j] \in 1 .. Len(d[k]) /\ p[i] < p[j]
      /\ w[i] = d[k][p[i]] /\ w[j] = d[k][p[j]]
  <2>1. b[i] < b[j] \/ (b[i] = b[j] /\ p[i] < p[j])
    BY <1>2, AssembledFacts
  <2>2. p[i] < p[j]
    BY <1>1, <2>1
  <2>3. \A v \in 1 .. Len(w) : p[v] \in 1 .. Len(d[b[v]]) /\ w[v] = d[b[v]][p[v]]
    BY AssembledFacts
  <2>4. \A v \in 1 .. Len(w) : b[v] = k => p[v] \in 1 .. Len(d[k]) /\ w[v] = d[k][p[v]]
    BY <2>3
  <2> QED BY <1>1, <1>2, <2>2, <2>4
<1>4. Diverse(d[k], Candidates(rows, recent, W)[k]) /\ t \in Candidates(rows, recent, W)[k]
  BY <1>1, ClassIsList DEF Assembled
<1>5. PICK n \in 1 .. p[j] - 1 : ConceptOf[d[k][n]] = ConceptOf[t]
  <2>1. ConceptOf[d[k][p[i]]] = ConceptOf[d[k][p[j]]]
    BY <1>3
  <2> QED BY <1>3, <1>4, <2>1 DEF Diverse
<1>6. n \in 1 .. Len(d[k]) /\ n < p[j] /\ p[j] \in Nat
  BY <1>2, <1>3, <1>5, AssembledFacts
<1>7. PICK u \in 1 .. Len(w) : b[u] = k /\ p[u] = n
  BY <1>6 DEF Assembled, Joined
<1>8. w[u] = d[k][n] /\ ConceptOf[w[u]] = ConceptOf[t]
  BY <1>5, <1>7, AssembledFacts
<1>9. u < j
  <2>1. j < u => b[j] < b[u] \/ (b[j] = b[u] /\ p[j] < p[u])
    BY <1>2, AssembledFacts
  <2> QED BY <1>1, <1>2, <1>6, <1>7, <2>1
<1>10. ASSUME NEW v \in 1 .. u - 1, ProblemOf[w[v]] = ProblemOf[w[u]] PROVE FALSE
  <2>1. v \in 1 .. Len(w) /\ v < u
    BY <1>2
  <2>2. b[v] < k \/ (b[v] = k /\ p[v] < n)
    BY <1>7, <2>1, AssembledFacts
  <2>3. CASE b[v] = k /\ p[v] < n
    <3>1. w[v] = d[k][p[v]] /\ p[v] \in 1 .. Len(d[k])
      BY <2>1, <2>3, AssembledFacts
    <3>2. p[v] = n
      <4>1. \A l, m \in 1 .. Len(d[k]) : ProblemOf[d[k][l]] = ProblemOf[d[k][m]] => l = m
        BY <1>4 DEF Diverse, Represents
      <4> QED BY <1>6, <1>8, <1>10, <3>1, <4>1
    <3> QED BY <1>6, <2>3, <3>2
  <2>4. CASE b[v] < k
    <3>1. b[v] \in 1 .. 4
      BY <2>1, AssembledFacts
    <3>2. b[v] = 1 /\ k = 2
      BY <2>4, <3>1
    <3>3. w[v] \in Candidates(rows, recent, W)[1] /\ w[v] \in rows /\ w[u] \in rows
      BY <1>7, <2>1, <3>2, AssembledFacts
    <3>4. ConceptOf[w[v]] = ConceptOf[w[u]]
      BY <1>10, <3>3, RecommendationsAssumption DEF Assembled
    <3>5. ConceptOf[w[v]] \in W /\ ConceptOf[t] \notin W
      BY <1>1, <3>2, <3>3, ClassIsList
    <3> QED BY <1>8, <3>4, <3>5
  <2> QED BY <2>2, <2>3, <2>4
<1>11. u \in Firsts(w)
  <2>1. DOMAIN w = 1 .. Len(w)
    BY SequenceFacts DEF Assembled
  <2> QED BY <1>10, <2>1 DEF Firsts
<1>12. Class(w[u], recent, W) = k
  BY <1>7, <1>11, KeptFromItsList
<1> QED BY <1>1, <1>8, <1>9, <1>11, <1>12

LEMMA MinOfTwo ==
  ASSUME NEW m \in Nat, NEW n \in Nat
  PROVE  Min({m, n}) = IF n < m THEN n ELSE m
<1> DEFINE least == IF n < m THEN n ELSE m
<1>1. least \in {m, n} /\ \A k \in {m, n} : least <= k
  OBVIOUS
<1>2. \A l \in {m, n} : (\A k \in {m, n} : l <= k) => l = least
  OBVIOUS
<1> HIDE DEF least
<1>3. Min({m, n}) = least
  BY <1>1, <1>2 DEF Min
<1> QED BY <1>3 DEF least

\* A sequence that shows no problem twice shows as many as it is long.
LEMMA ProblemsCounted ==
  ASSUME NEW S, NEW s \in Seq(S),
         \A m, n \in 1 .. Len(s) : ProblemOf[s[m]] = ProblemOf[s[n]] => m = n
  PROVE  Cardinality(Problems(Range(s))) = Len(s)
<1> DEFINE f == [n \in 1 .. Len(s) |-> ProblemOf[s[n]]]
           T == Problems(Range(s))
<1>1. Len(s) \in Nat /\ DOMAIN s = 1 .. Len(s)
  OBVIOUS
<1>2. T = {ProblemOf[s[n]] : n \in 1 .. Len(s)}
  BY <1>1 DEF Problems, Range
<1> HIDE DEF T
<1>3. f \in [1 .. Len(s) -> T] /\ \A x \in T : \E n \in 1 .. Len(s) : f[n] = x
  BY <1>2
<1>4. \A m, n \in 1 .. Len(s) : f[m] = f[n] => m = n
  OBVIOUS
<1> HIDE DEF f
<1>5. f \in Surjection(1 .. Len(s), T) /\ f \in Injection(1 .. Len(s), T)
  BY <1>3, <1>4 DEF Surjection, Injection, IsInjective
<1>6. IsFiniteSet(1 .. Len(s)) /\ Cardinality(1 .. Len(s)) = Len(s)
  BY <1>1, UpTo
<1>7. Cardinality(T) = Cardinality(1 .. Len(s))
  BY <1>5, <1>6, FS_Surjection
<1> QED BY <1>6, <1>7 DEF T

FirstPage(e) == SubSeq(e, 1, IF Len(e) < PageSize THEN Len(e) ELSE PageSize)

LEMMA FirstPageIs ==
  ASSUME NEW S, NEW e \in Seq(S)
  PROVE  /\ FirstPage(e) \in Seq(S) /\ Len(FirstPage(e)) \in Nat
         /\ Len(FirstPage(e)) = IF Len(e) < PageSize THEN Len(e) ELSE PageSize
         /\ Len(FirstPage(e)) <= Len(e) /\ Len(e) \in Nat
         /\ DOMAIN FirstPage(e) = 1 .. Len(FirstPage(e))
         /\ \A n \in 1 .. Len(FirstPage(e)) : FirstPage(e)[n] = e[n]
<1> DEFINE m == IF Len(e) < PageSize THEN Len(e) ELSE PageSize
<1>1. PageSize \in Nat /\ Len(e) \in Nat
  BY RecommendationsAssumption
<1>2. m \in Nat /\ m <= Len(e)
  BY <1>1
<1>3. FirstPage(e) = SubSeq(e, 1, m)
  BY DEF FirstPage
<1>4. /\ SubSeq(e, 1, m) \in Seq(S) /\ Len(SubSeq(e, 1, m)) = m
      /\ \A n \in 1 .. m : SubSeq(e, 1, m)[n] = e[n]
  <2> HIDE DEF m
  <2>1. 1 \in Int /\ m \in Int /\ \A i \in 1 .. m : e[i] \in S
    BY <1>1, <1>2
  <2>2. /\ SubSeq(e, 1, m) \in Seq(S) /\ Len(SubSeq(e, 1, m)) = IF 1 <= m THEN m - 1 + 1 ELSE 0
        /\ \A i \in 1 .. m - 1 + 1 : SubSeq(e, 1, m)[i] = e[1 + i - 1]
    BY <2>1, SubSeqProperties
  <2> QED BY <1>2, <2>2
<1>5. DOMAIN FirstPage(e) = 1 .. Len(FirstPage(e))
  BY <1>3, <1>4
<1> QED BY <1>1, <1>2, <1>3, <1>4, <1>5

\* The problems of the rows are those of what is kept of the lists.
LEMMA NothingIsLost ==
  ASSUME NEW w, NEW rows, NEW recent, NEW W, NEW d, NEW b, NEW p,
         Assembled(w, rows, recent, W, d, b, p)
  PROVE  /\ OncePerProblem(w) \in Seq(rows)
         /\ \A m, n \in 1 .. Len(OncePerProblem(w)) :
              ProblemOf[OncePerProblem(w)[m]] = ProblemOf[OncePerProblem(w)[n]] => m = n
         /\ Problems(Range(OncePerProblem(w))) = Problems(rows)
<1> DEFINE e == OncePerProblem(w)
<1>1. w \in Seq(rows)
  BY DEF Assembled
<1>2. /\ e \in Seq(rows)
      /\ \A m, n \in 1 .. Len(e) : ProblemOf[e[m]] = ProblemOf[e[n]] => m = n
      /\ \A i \in 1 .. Len(w) : \E n \in 1 .. Len(e) : ProblemOf[e[n]] = ProblemOf[w[i]]
  BY <1>1, OnceFacts
<1> HIDE DEF e
<1>3. DOMAIN e = 1 .. Len(e) /\ \A n \in 1 .. Len(e) : e[n] \in rows
  BY <1>2, SequenceFacts
<1>4. ASSUME NEW t \in rows PROVE \E n \in DOMAIN e : ProblemOf[e[n]] = ProblemOf[t]
  <2>1. t \in Candidates(rows, recent, W)[4] /\ Diverse(d[4], Candidates(rows, recent, W)[4])
    BY DEF Candidates, Assembled
  <2>2. PICK n \in 1 .. Len(d[4]) : ProblemOf[d[4][n]] = ProblemOf[t]
    BY <2>1 DEF Diverse, Represents
  <2>3. PICK i \in 1 .. Len(w) : b[i] = 4 /\ p[i] = n
    BY DEF Assembled, Joined
  <2>4. w[i] = d[4][n]
    BY <2>3, AssembledFacts
  <2> QED BY <1>2, <1>3, <2>2, <2>4
<1>5. Problems(Range(e)) = Problems(rows)
  <2>1. Range(e) \subseteq rows /\ \A t \in rows : \E u \in Range(e) : ProblemOf[u] = ProblemOf[t]
    BY <1>3, <1>4 DEF Range
  <2> QED BY <2>1 DEF Problems
<1> QED BY <1>2, <1>5 DEF e

LEMMA PageIsFilled ==
  ASSUME NEW w, NEW rows, NEW recent, NEW W, NEW d, NEW b, NEW p,
         Assembled(w, rows, recent, W, d, b, p)
  PROVE  Filled(FirstPage(OncePerProblem(w)), rows)
<1> DEFINE e == OncePerProblem(w)
           page == FirstPage(e)
<1>1. /\ e \in Seq(rows) /\ Problems(Range(e)) = Problems(rows)
      /\ \A m, n \in 1 .. Len(e) : ProblemOf[e[m]] = ProblemOf[e[n]] => m = n
  BY NothingIsLost
<1> HIDE DEF e
<1>2. /\ page \in Seq(rows) /\ Len(page) \in Nat /\ Len(page) <= Len(e) /\ Len(e) \in Nat
      /\ Len(page) = IF Len(e) < PageSize THEN Len(e) ELSE PageSize
      /\ DOMAIN page = 1 .. Len(page) /\ \A n \in 1 .. Len(page) : page[n] = e[n]
  BY <1>1, FirstPageIs
<1> HIDE DEF page
<1>3. \A n \in 1 .. Len(page) : page[n] \in rows
  BY <1>2, SequenceFacts
<1>4. Range(page) \subseteq rows
  BY <1>2, <1>3 DEF Range
<1>5. \A m, n \in 1 .. Len(page) : ProblemOf[page[m]] = ProblemOf[page[n]] => m = n
  BY <1>1, <1>2
<1>6. Cardinality(Problems(Range(page))) = Len(page)
  BY <1>2, <1>5, ProblemsCounted
<1>7. Cardinality(Problems(rows)) = Len(e)
  BY <1>1, ProblemsCounted
<1>8. Len(page) = Min({PageSize, Cardinality(Problems(rows))})
  BY <1>2, <1>7, MinOfTwo, RecommendationsAssumption
<1> QED BY <1>4, <1>6, <1>8, Zenon DEF Filled, page, e

LEMMA PageIsOrdered ==
  ASSUME NEW w, NEW rows, NEW recent, NEW W, NEW d, NEW b, NEW p,
         Assembled(w, rows, recent, W, d, b, p)
  PROVE  Ordered(FirstPage(OncePerProblem(w)), rows, recent, W)
<1> DEFINE e == OncePerProblem(w)
           page == FirstPage(e)
           class(t) == Class(t, recent, W)
           M == Len(page)
<1>1. e \in Seq(rows) /\ w \in Seq(rows)
  BY NothingIsLost DEF Assembled
<1>2. PICK at : KeptAt(e, w, at)
  BY <1>1, OnceKeepsFirsts
<1> HIDE DEF e
<1>3. /\ M \in Nat /\ M <= Len(e) /\ Len(e) \in Nat
      /\ DOMAIN page = 1 .. M /\ \A n \in 1 .. M : page[n] = e[n]
  BY <1>1, FirstPageIs
<1> HIDE DEF page
<1>4. /\ \A n \in 1 .. Len(e) : at[n] \in Firsts(w) /\ e[n] = w[at[n]]
      /\ \A m, n \in 1 .. Len(e) : m < n <=> at[m] < at[n]
      /\ \A i \in Firsts(w) : \E n \in 1 .. Len(e) : at[n] = i
  BY <1>2 DEF KeptAt
<1>5. \A n \in 1 .. M : /\ n \in 1 .. Len(e) /\ at[n] \in Firsts(w) /\ at[n] \in 1 .. Len(w)
                        /\ page[n] = w[at[n]] /\ class(page[n]) = b[at[n]]
  <2> HIDE DEF M
  <2> TAKE n \in 1 .. M
  <2>1. n \in 1 .. Len(e) /\ page[n] = w[at[n]] /\ at[n] \in Firsts(w)
    BY <1>3, <1>4
  <2>2. Class(w[at[n]], recent, W) = b[at[n]] /\ at[n] \in 1 .. Len(w)
    BY <2>1, KeptFromItsList
  <2> QED BY <2>1, <2>2
<1>6. \A i \in Firsts(w) : \A n \in 1 .. M : i < at[n] => \E m \in 1 .. M : m < n /\ at[m] = i
  <2> HIDE DEF M
  <2> TAKE i \in Firsts(w)
  <2> TAKE n \in 1 .. M
  <2> HAVE i < at[n]
  <2>1. PICK m \in 1 .. Len(e) : at[m] = i
    BY <1>4
  <2>2. m < n
    BY <1>4, <1>5, <2>1
  <2> QED BY <1>3, <2>1, <2>2
<1> HIDE DEF M
<1>7. ASSUME NEW i \in 1 .. M, NEW j \in 1 .. M, i < j PROVE class(page[i]) <= class(page[j])
  <2>1. at[i] < at[j]
    BY <1>4, <1>5, <1>7
  <2>2. b[at[i]] < b[at[j]] \/ b[at[i]] = b[at[j]]
    BY <1>5, <2>1, AssembledFacts
  <2>3. b[at[i]] \in 1 .. 4 /\ b[at[j]] \in 1 .. 4
    BY <1>5, AssembledFacts
  <2>4. b[at[i]] <= b[at[j]]
    BY <2>2, <2>3
  <2> QED BY <1>5, <2>4
<1> DEFINE waiting == {t \in rows : ProblemOf[t] \notin Problems(Range(page))}
<1>8. ASSUME NEW i \in 1 .. M, NEW t \in waiting PROVE class(page[i]) <= class(t)
  <2>1. SUFFICES ASSUME class(t) < class(page[i]) PROVE FALSE
    <3>1. class(t) \in 1 .. 4 /\ class(page[i]) \in 1 .. 4
      BY ClassIsList
    <3> HIDE DEF class
    <3> QED BY <3>1
  <2>2. class(t) < b[at[i]] /\ at[i] \in 1 .. Len(w) /\ t \in rows
    BY <1>5, <2>1
  <2>3. PICK j \in Firsts(w) : j < at[i] /\ ProblemOf[w[j]] = ProblemOf[t]
    BY <2>2, BetterIsEarlier
  <2>4. PICK m \in 1 .. M : at[m] = j
    BY <1>6, <2>3
  <2>5. page[m] \in Range(page) /\ ProblemOf[page[m]] = ProblemOf[t]
    BY <1>3, <1>5, <2>3, <2>4 DEF Range
  <2>6. ProblemOf[t] \in Problems(Range(page))
    BY <2>5 DEF Problems
  <2> QED BY <2>6
<1>9. ASSUME NEW i \in 1 .. M, NEW j \in 1 .. M, i < j, class(page[i]) = class(page[j]),
             class(page[i]) <= 2, ConceptOf[page[i]] = ConceptOf[page[j]],
             NEW t \in waiting, class(t) = class(page[i])
      PROVE  Cardinality({n \in DOMAIN page : ConceptOf[page[n]] = ConceptOf[t] /\ class(page[n]) = class(t)}) >= 1
  <2> DEFINE taken == {n \in DOMAIN page : ConceptOf[page[n]] = ConceptOf[t] /\ class(page[n]) = class(t)}
  <2>1. at[i] < at[j] /\ at[i] \in Firsts(w) /\ at[j] \in Firsts(w)
        /\ page[i] = w[at[i]] /\ page[j] = w[at[j]]
    BY <1>4, <1>5, <1>9
  <2>2. PICK u \in Firsts(w) : u < at[j] /\ ConceptOf[w[u]] = ConceptOf[t] /\ class(w[u]) = class(t)
    <3>1. /\ Class(w[at[i]], recent, W) = Class(w[at[j]], recent, W) /\ Class(w[at[j]], recent, W) <= 2
          /\ ConceptOf[w[at[i]]] = ConceptOf[w[at[j]]]
          /\ t \in rows /\ Class(t, recent, W) = Class(w[at[j]], recent, W)
      BY <1>9, <2>1
    <3> QED BY <2>1, <3>1, ConceptsTakeTurns
  <2>3. PICK n \in 1 .. M : at[n] = u
    BY <1>6, <2>2
  <2>4. n \in taken
    BY <1>3, <1>5, <2>2, <2>3
  <2>5. IsFiniteSet(taken)
    <3>1. taken \in SUBSET (1 .. M) /\ IsFiniteSet(1 .. M)
      BY <1>3, FS_Interval
    <3> HIDE DEF taken
    <3> QED BY <3>1, FS_Subset
  <2> HIDE DEF taken
  <2>6. Cardinality(taken) \in Nat /\ Cardinality(taken) # 0
    BY <2>4, <2>5, FS_CardinalityType, FS_EmptySet
  <2>7. Cardinality(taken) >= 1
    BY <2>6
  <2> QED BY <2>7 DEF taken
<1>10. Ordered(page, rows, recent, W)
  BY <1>3, <1>7, <1>8, <1>9 DEF Ordered
<1> QED BY <1>10 DEF page, e

-----------------------------------------------------------------------------
(* Recommendations: theorems                                                *)

WeakSet(h) == {c \in Concepts : IsWeak(c, h)}

LEMMA ConceptsAreFinite == IsFiniteSet(Concepts) /\ Concepts \subseteq Nat
<1> DEFINE f == [t \in Tasks |-> ConceptOf[t]]
<1>1. f \in Surjection(Tasks, Concepts)
  BY DEF Concepts, Surjection
<1>2. IsFiniteSet(Concepts)
  <2> HIDE DEF f
  <2> QED BY <1>1, LearningConstants, FS_Surjection
<1> QED BY <1>2, RecommendationsAssumption

\* The weak concepts are all listed, the weakest first and equal ones by id
\* (learning/proficiency.py weak_concepts, recommended_tasks).
THEOREM WeakestFirst ==
  ASSUME NEW S, NEW h \in Seq(S)
  PROVE  /\ WeakConcepts(h) \in Seq(WeakSet(h)) /\ Range(WeakConcepts(h)) = WeakSet(h)
         /\ \A m, n \in DOMAIN WeakConcepts(h) : m < n =>
              LET c == WeakConcepts(h)[m] e == WeakConcepts(h)[n] IN
              LevelOf(c, h) < LevelOf(e, h) \/ (LevelOf(c, h) = LevelOf(e, h) /\ c < e)
<1> DEFINE weak == WeakSet(h)
           lev == [c \in weak |-> LevelOf(c, h)]
           before == [c \in weak |-> {e \in weak : lev[e] < lev[c] \/ (lev[e] = lev[c] /\ e < c)}]
           s == Sorted(weak, before)
           N == Cardinality(weak)
<1>1. WeakConcepts(h) = s
  BY DEF WeakConcepts, WeakSet
<1>2. weak \in SUBSET Concepts
  BY DEF WeakSet
<1>3. IsFiniteSet(weak) /\ weak \subseteq Nat
  BY <1>2, ConceptsAreFinite, FS_Subset
<1>4. lev \in [weak -> Int]
  <2>1. ASSUME NEW c \in weak PROVE LevelOf(c, h) \in Int
    <3>1. LevelOf(c, h) \in 0 .. 100
      BY LevelIsPercent
    <3>2. \A x \in 0 .. 100 : x \in Int
      OBVIOUS
    <3> QED BY <3>1, <3>2, Zenon
  <2> QED BY <2>1
<1> HIDE DEF weak
<1>5. StrictOrder(weak, before)
  <2> DEFINE b == [c \in weak |-> c]
             z == [c \in weak |-> 0]
  <2>1. before \in [weak -> SUBSET weak] /\ b \in [weak -> Int] /\ z \in [weak -> Int]
    BY <1>3
  <2> HIDE DEF lev
  <2>2. \A x, y \in weak : /\ x \in before[y] <=> lev[x] < lev[y] \/ (lev[x] = lev[y] /\ b[x] < b[y])
                           /\ z[x] = 0
                           /\ b[x] = b[y] => x = y
    OBVIOUS
  <2> HIDE DEF before, b, z
  <2>3. \A x, y \in weak : x \in before[y] <=>
          \/ lev[x] < lev[y]
          \/ lev[x] = lev[y] /\ (b[x] < b[y] \/ (b[x] = b[y] /\ z[x] < z[y]))
    BY <2>2
  <2>4. ByKeys(weak, before, lev, b, z)
    BY <1>4, <2>1, <2>2, <2>3 DEF ByKeys
  <2> QED BY <2>4, OrderByKeys
<1>6. /\ N \in Nat /\ s \in [1 .. N -> weak]
      /\ \A x \in weak : \E n \in 1 .. N : s[n] = x
      /\ \A m, n \in 1 .. N : m < n <=> s[m] \in before[s[n]]
  <2> HIDE DEF before
  <2> QED BY <1>3, <1>5, SortedIsSorted
<1> HIDE DEF N, s
<1>7. s \in Seq(weak) /\ DOMAIN s = 1 .. N
  BY <1>6
<1>8. Range(s) = weak
  BY <1>6, <1>7 DEF Range
<1>9. ASSUME NEW m \in 1 .. N, NEW n \in 1 .. N, m < n
      PROVE  LevelOf(s[m], h) < LevelOf(s[n], h) \/ (LevelOf(s[m], h) = LevelOf(s[n], h) /\ s[m] < s[n])
  <2>1. s[m] \in before[s[n]] /\ s[m] \in weak /\ s[n] \in weak
    <3> HIDE DEF before
    <3> QED BY <1>6, <1>9
  <2> QED BY <2>1
<1> QED BY <1>1, <1>7, <1>8, <1>9 DEF weak

LEMMA PageIsDueFor ==
  ASSUME NEW S, NEW h \in Seq(S), NEW open \in SUBSET Tasks, NEW allowed,
         NEW today \in DOMAIN ConceptRank, today \in Nat
  PROVE  /\ Filled(Page(h, open, allowed, today), Eligible(open, allowed))
         /\ Ordered(Page(h, open, allowed, today), Eligible(open, allowed), Recent(h), Range(WeakConcepts(h)))
<1> DEFINE weak == WeakConcepts(h)
           rows == Eligible(open, allowed)
           W == Range(weak)
           lists == Candidates(rows, Recent(h), W)
           d == [i \in 1 .. 4 |-> Diversified(lists[i], weak, today)]
           w == FlattenSeq(d)
<1>1. weak \in Seq(WeakSet(h))
  BY WeakestFirst
<1>2. rows \in SUBSET Tasks
  BY DEF Eligible
<1>3. Page(h, open, allowed, today) = FirstPage(OncePerProblem(w))
  BY DEF Page, FirstPage
<1> HIDE DEF weak, rows, W
<1>4. \A k \in 1 .. 4 : lists[k] \in SUBSET rows
  <2> HIDE DEF lists
  <2> QED BY ClassIsList DEF lists
<1> HIDE DEF lists
<1>5. Len(d) = 4 /\ \A k \in 1 .. 4 : d[k] = Diversified(lists[k], weak, today)
  OBVIOUS
<1> HIDE DEF d
<1>6. \A k \in 1 .. 4 : Diverse(d[k], lists[k])
  <2> TAKE k \in 1 .. 4
  <2>1. lists[k] \in SUBSET Tasks
    BY <1>2, <1>4
  <2>2. Diverse(Diversified(lists[k], weak, today), lists[k])
    BY <1>1, <2>1, DiversifiedIsDiverse
  <2> QED BY <1>5, <2>2
<1>7. \A k \in 1 .. 4 : d[k] \in Seq(rows)
  <2> TAKE k \in 1 .. 4
  <2>1. d[k] \in Seq(lists[k])
    BY <1>6 DEF Diverse, Represents
  <2> QED BY <1>4, <2>1, SeqMonotonic
<1>8. w \in Seq(rows) /\ \E b, p : Joined(w, d, 4, b, p)
  <2>1. d[1] \in Seq(rows) /\ d[2] \in Seq(rows) /\ d[3] \in Seq(rows) /\ d[4] \in Seq(rows)
    BY <1>7
  <2> QED BY <1>5, <2>1, JoinedFour
<1> HIDE DEF w
<1>9. PICK b, p : Joined(w, d, 4, b, p)
  BY <1>8
<1>10. Assembled(w, rows, Recent(h), W, d, b, p)
  <2>1. Len(w) \in Nat
    BY <1>8
  <2> QED BY <1>2, <1>6, <1>8, <1>9, <2>1 DEF Assembled, lists
<1>11. Filled(FirstPage(OncePerProblem(w)), rows) /\ Ordered(FirstPage(OncePerProblem(w)), rows, Recent(h), W)
  BY <1>10, PageIsFilled, PageIsOrdered
<1> QED BY <1>3, <1>11 DEF rows, W, weak

\* The page asked for is filled whenever there are problems enough, without
\* showing one twice; what is new and weak comes first, and concepts take turns
\* (learning/proficiency.py recommended_tasks).
THEOREM PageDue == LearningSpec => []PageIsDue
<1>1. ASSUME LearningTypeOK PROVE PageIsDue
  <2>1. active \in SUBSET Tasks /\ day \in 1 .. LastDay /\ day \in Nat /\ SinceReset(attempts) \in Seq(AttemptType)
    <3>1. attempts \in Seq(AttemptType) /\ since \in 0 .. Len(attempts)
      BY <1>1, LearningTypes
    <3>2. SinceReset(attempts) = From(attempts, since)
      BY DEF SinceReset, From
    <3>3. SinceReset(attempts) \in Seq(AttemptType)
      BY <3>1, <3>2, FromFacts
    <3> QED BY <1>1, <3>3, LearningTypes, LearningConstants
  <2>2. day \in DOMAIN ConceptRank
    BY <2>1, LearningAssumption
  <2> QED BY <2>1, <2>2, PageIsDueFor, Zenon DEF PageIsDue, CurrentPage, CurrentRows
<1> QED BY <1>1, LearningTypeCorrect, PTL

-----------------------------------------------------------------------------
(* CatMemory: lists of memories                                             *)

\* TellApart of different transactions.
TellApart(rows) ==
  /\ rows \subseteq Memory /\ IsFiniteSet(rows)
  /\ \A m, n \in rows : m.born = n.born => m = n

LEMMA MemoryFields ==
  ASSUME NEW m \in Memory
  PROVE  m.born \in Nat /\ m.summary \in Summaries
BY DEF Memory

\* The k newest are at most k.
LEMMA NewestAreFew ==
  ASSUME NEW rows, TellApart(rows), NEW k \in Nat
  PROVE  /\ Newest(rows, k) \subseteq rows /\ TellApart(Newest(rows, k))
         /\ Cardinality(Newest(rows, k)) <= k
<1> DEFINE best == Newest(rows, k)
           born == {m.born : m \in best}
           Less == {p \in Nat \X Nat : p[1] < p[2]}
<1>1. best \subseteq rows /\ \A m \in best : m \in rows /\ Cardinality(Newer(rows, m)) < k
  BY DEF Newest
<1>2. IsFiniteSet(best) /\ Cardinality(best) \in Nat
  BY <1>1, FS_Subset, FS_CardinalityType DEF TellApart
<1> HIDE DEF best
<1>3. TellApart(best)
  BY <1>1, <1>2 DEF TellApart
<1>4. CASE best = {}
  BY <1>1, <1>3, <1>4, FS_EmptySet DEF best
<1>5. CASE best # {}
  <2>1. born \subseteq Nat /\ born # {}
    BY <1>1, <1>5, MemoryFields DEF TellApart
  <2>2. IsWellFoundedOn(Less, Nat)
    BY NatLessThanWellFounded DEF OpToRel
  <2>3. PICK b \in born : \A a \in born : <<a, b>> \notin Less
    <3> HIDE DEF born, Less
    <3> QED BY <2>1, <2>2, WFMin
  <2>4. PICK last \in best : last.born = b
    BY <2>3
  <2>5. ASSUME NEW m \in best, m # last PROVE m \in Newer(rows, last)
    <3>1. m \in rows /\ last \in rows /\ m.born \in Nat /\ last.born \in Nat /\ m.born # last.born
      BY <1>1, <2>5, MemoryFields DEF TellApart
    <3>2. m.born \in born
      BY <2>5
    <3>3. <<m.born, last.born>> \notin Less
      BY <2>3, <2>4, <3>2
    <3>4. ~(m.born < last.born)
      BY <3>1, <3>3
    <3> QED BY <3>1, <3>4 DEF Newer
  <2>6. IsFiniteSet(Newer(rows, last)) /\ Cardinality(Newer(rows, last)) < k
    BY <1>1, <2>4, FS_Subset DEF TellApart, Newer
  <2>7. Cardinality(best \ {last}) <= Cardinality(Newer(rows, last))
    BY <2>5, <2>6, FS_Subset
  <2>8. Cardinality(best \ {last}) = Cardinality(best) - 1
    BY <1>2, <2>4, FS_RemoveElement
  <2>9. Cardinality(Newer(rows, last)) \in Nat
    BY <2>6, FS_CardinalityType
  <2>10. Cardinality(best) <= k
    BY <1>2, <2>6, <2>7, <2>8, <2>9
  <2> QED BY <1>1, <1>3, <2>10 DEF best
<1> QED BY <1>4, <1>5

\* Who is not among the newest is older than all who are.
LEMMA NewestAreNewer ==
  ASSUME NEW rows, TellApart(rows), NEW k \in Nat,
         NEW gone \in rows \ Newest(rows, k), NEW kept \in Newest(rows, k)
  PROVE  gone.born < kept.born
<1>1. kept \in rows /\ gone \in rows /\ gone # kept
  BY DEF Newest
<1>2. kept.born \in Nat /\ gone.born \in Nat /\ gone.born # kept.born
  BY <1>1, MemoryFields DEF TellApart
<1>3. ASSUME kept.born < gone.born PROVE FALSE
  <2>1. Newer(rows, gone) \subseteq Newer(rows, kept)
    <3> SUFFICES ASSUME NEW m \in rows, m.born > gone.born PROVE m.born > kept.born
      BY DEF Newer
    <3>1. m.born \in Nat
      BY MemoryFields DEF TellApart
    <3> QED BY <1>2, <1>3, <3>1
  <2>2. IsFiniteSet(Newer(rows, kept))
    BY FS_Subset DEF TellApart, Newer
  <2>3. Cardinality(Newer(rows, gone)) <= Cardinality(Newer(rows, kept))
    BY <2>1, <2>2, FS_Subset
  <2>4. Cardinality(Newer(rows, gone)) \in Nat /\ Cardinality(Newer(rows, kept)) \in Nat
    BY <2>1, <2>2, FS_Subset, FS_CardinalityType
  <2>5. Cardinality(Newer(rows, kept)) < k /\ ~(Cardinality(Newer(rows, gone)) < k)
    BY DEF Newest
  <2> QED BY <2>3, <2>4, <2>5
<1> QED BY <1>2, <1>3

LEMMA DistinctRows ==
  ASSUME NEW rows, TellApart(rows)
  PROVE  /\ Distinct(rows) \subseteq rows /\ TellApart(Distinct(rows))
         /\ \A m, n \in Distinct(rows) : m.summary = n.summary => m = n
         /\ \A m \in rows \ Distinct(rows) : \E n \in rows : n.summary = m.summary /\ n.born > m.born
<1>1. Distinct(rows) \subseteq rows
  BY DEF Distinct
<1>2. TellApart(Distinct(rows))
  BY <1>1, FS_Subset DEF TellApart
<1>3. \A m \in rows : m.born \in Nat
  BY MemoryFields DEF TellApart
<1>4. ASSUME NEW m \in Distinct(rows), NEW n \in Distinct(rows), m.summary = n.summary PROVE m = n
  <2>1. m \in rows /\ n \in rows /\ m.born <= n.born /\ n.born <= m.born
    BY <1>4 DEF Distinct
  <2> QED BY <1>3, <2>1 DEF TellApart
<1>5. ASSUME NEW m \in rows \ Distinct(rows) PROVE \E n \in rows : n.summary = m.summary /\ n.born > m.born
  <2>1. PICK n \in rows : n.summary = m.summary /\ ~(n.born <= m.born)
    BY DEF Distinct
  <2> QED BY <1>3, <2>1
<1> QED BY <1>1, <1>2, <1>4, <1>5

LEMMA RetainedRows ==
  ASSUME NEW rows, TellApart(rows)
  PROVE  /\ Retained(rows) \subseteq Distinct(rows) /\ Retained(rows) \subseteq rows /\ TellApart(Retained(rows))
         /\ Cardinality(Retained(rows)) <= MemoryLimit
         /\ MemoryLimit \in Nat /\ MemoryLimit - 1 \in Nat
<1>1. MemoryLimit \in Nat /\ MemoryLimit - 1 \in Nat
  BY CatAssumption DEF CatAssumption
<1> QED BY <1>1, DistinctRows, NewestAreFew DEF Retained

\* What storing makes of any list, and of a new row.
LEMMA StoredRowsAreRight ==
  ASSUME NEW rows, TellApart(rows), NEW m \in Memory, \A n \in rows : n.born # m.born
  PROVE  /\ StoredRows(rows, m) \subseteq rows \cup {m} /\ IsFiniteSet(StoredRows(rows, m))
         /\ Cardinality(StoredRows(rows, m)) <= MemoryLimit
         /\ \A a, b \in StoredRows(rows, m) : a.summary = b.summary => a = b
         /\ StoredRows(rows, m) \ rows # {} =>
              \A gone \in rows \ StoredRows(rows, m), kept \in rows \cap StoredRows(rows, m) :
                \/ gone.born < kept.born
                \/ \E n \in rows : n.summary = gone.summary /\ n.born > gone.born
<1> DEFINE some == Retained(rows)
           stored == StoredRows(rows, m)
           best == Newest(some, MemoryLimit - 1)
<1>1. some \subseteq rows /\ TellApart(some) /\ \A a, b \in some : a.summary = b.summary => a = b
  BY RetainedRows, DistinctRows
<1>2. MemoryLimit \in Nat /\ MemoryLimit - 1 \in Nat /\ Cardinality(some) <= MemoryLimit
  BY RetainedRows
<1>3. CASE IsKnown(rows, m.summary)
  <2>1. stored = some
    BY <1>3 DEF StoredRows
  <2> HIDE DEF stored, some
  <2> QED BY <1>1, <1>2, <2>1 DEF TellApart, stored
<1>4. CASE ~IsKnown(rows, m.summary)
  <2>1. stored = best \cup {m} /\ \A a \in some : a.summary # m.summary
    BY <1>4 DEF StoredRows, IsKnown
  <2> HIDE DEF stored, some
  <2>2. best \subseteq some /\ TellApart(best) /\ Cardinality(best) <= MemoryLimit - 1
    BY <1>1, <1>2, NewestAreFew
  <2>3. m \notin rows /\ m \notin best
    BY <1>1, <2>2
  <2>4. IsFiniteSet(stored) /\ Cardinality(stored) = Cardinality(best) + 1 /\ Cardinality(best) \in Nat
    BY <2>1, <2>2, <2>3, FS_AddElement, FS_CardinalityType DEF TellApart
  <2>5. \A a, b \in stored : a.summary = b.summary => a = b
    BY <1>1, <2>1, <2>2
  <2>6. ASSUME NEW gone \in rows \ stored, NEW kept \in rows \cap stored
        PROVE  \/ gone.born < kept.born
               \/ \E n \in rows : n.summary = gone.summary /\ n.born > gone.born
    <3>1. kept \in best /\ kept \in some
      BY <2>1, <2>2, <2>3
    <3>2. CASE gone \notin Distinct(rows)
      BY <3>2, DistinctRows
    <3>3. CASE gone \in Distinct(rows) /\ gone \notin some
      <4>1. kept \in Newest(Distinct(rows), MemoryLimit) /\ gone \in Distinct(rows) \ Newest(Distinct(rows), MemoryLimit)
        BY <3>1, <3>3 DEF some, Retained
      <4> QED BY <1>2, <4>1, DistinctRows, NewestAreNewer
    <3>4. CASE gone \in some
      <4>1. gone \in some \ best
        BY <2>1, <3>4
      <4> QED BY <1>1, <1>2, <3>1, <4>1, NewestAreNewer
    <3> QED BY <3>2, <3>3, <3>4
  <2>7. stored \subseteq rows \cup {m}
    BY <1>1, <2>1, <2>2
  <2>8. Cardinality(stored) <= MemoryLimit
    BY <1>2, <2>2, <2>4
  <2> QED BY <2>4, <2>5, <2>6, <2>7, <2>8 DEF stored
<1> QED BY <1>3, <1>4

-----------------------------------------------------------------------------
(* CatMemory: the chats                                                     *)

LEMMA QuietField == Quiet.pc = "quiet"
BY DEF Quiet

LEMMA CatStart == CatInit => CatTypeOK
<1> SUFFICES ASSUME CatInit PROVE CatTypeOK
  OBVIOUS
<1>1. IsFiniteSet(memories) /\ memories \subseteq OldMemories /\ OldMemories \subseteq Memory
  BY FS_Subset, CatAssumption DEF CatInit, CatAssumption
<1>2. clock \in Nat
  <2>1. \A m \in OldMemories : m.born \in Nat
    BY <1>1, MemoryFields
  <2> QED BY <2>1 DEF CatInit
<1>3. Storing = {}
  BY QuietField DEF CatInit, Storing
<1>4. \A m \in memories : m.born <= clock /\ \A n \in memories : m.born = n.born => m = n
  BY <1>1, CatAssumption DEF CatInit, CatAssumption
<1> QED BY <1>1, <1>2, <1>3, <1>4 DEF CatInit, CatTypeOK

\* A second transaction begins later than all that began before.
LEMMA BeginStoreKeepsType ==
  ASSUME CatTypeOK, NEW c \in Chats, chat[c].pc # "storing", NEW summary \in Summaries,
         BeginStore(c, summary), UNCHANGED memories
  PROVE  CatTypeOK'
<1> DEFINE q == [pc |-> "storing", born |-> Now, summary |-> summary]
<1>1. clock' = clock + 1 /\ clock \in Nat /\ answer' = answer /\ chat' = [chat EXCEPT ![c] = q]
  BY DEF BeginStore, CatTypeOK, Now
<1>2. q \in [pc : {"storing"}, born : Nat, summary : Summaries] /\ q.born = clock + 1 /\ q.pc = "storing"
  BY <1>1 DEF Now
<1> HIDE DEF q
<1>3. DOMAIN chat' = Chats /\ chat'[c] = q /\ \A d \in Chats \ {c} : chat'[d] = chat[d]
  BY <1>1 DEF CatTypeOK
<1>4. \A m \in memories : m.born \in Nat /\ m.born <= clock
  BY MemoryFields DEF CatTypeOK
<1>5. \A d \in Storing : chat[d].born \in Nat /\ chat[d].born <= clock
  BY QuietField DEF CatTypeOK, Storing
<1>6. Storing' = Storing \cup {c}
  BY <1>2, <1>3 DEF Storing
<1>7. ASSUME NEW d \in Storing'
      PROVE  /\ chat'[d].born <= clock'
             /\ \A m \in memories' : m.born # chat'[d].born
             /\ \A e \in Storing' : chat'[d].born = chat'[e].born => d = e
  <2>1. \A e \in Storing : e \in Chats /\ e # c /\ chat'[e] = chat[e]
    BY <1>3 DEF Storing
  <2>2. CASE d = c
    BY <1>1, <1>2, <1>3, <1>4, <1>5, <1>6, <2>1, <2>2
  <2>3. CASE d # c
    <3>1. d \in Storing
      BY <1>6, <2>3
    <3>2. chat'[d].born <= clock' /\ \A m \in memories' : m.born # chat'[d].born
      BY <1>1, <1>5, <2>1, <3>1 DEF CatTypeOK
    <3>3. chat'[d].born # q.born
      BY <1>1, <1>2, <1>5, <2>1, <3>1
    <3> QED BY <1>3, <1>6, <2>1, <3>1, <3>2, <3>3 DEF CatTypeOK
  <2> QED BY <2>2, <2>3
<1>8. /\ memories' \subseteq Memory /\ IsFiniteSet(memories') /\ clock' \in Nat
      /\ answer' \in {200, 204, 422, 500, 503}
      /\ \A m \in memories' : m.born <= clock' /\ \A n \in memories' : m.born = n.born => m = n
  BY <1>1, <1>4 DEF CatTypeOK
<1>9. \A d \in Chats :
       \/ chat'[d] = Quiet
       \/ chat'[d] \in [pc : {"asked"}, matches : SUBSET Patterns]
       \/ chat'[d] \in [pc : {"storing"}, born : Nat, summary : Summaries]
  BY <1>2, <1>3 DEF CatTypeOK
<1> QED BY <1>3, <1>7, <1>8, <1>9 DEF CatTypeOK

\* A chat that stops or asks leaves the lists as they are or shorter.
LEMMA OthersKeepType ==
  ASSUME CatTypeOK, clock' = clock, answer' \in {200, 204, 422, 500, 503},
         memories' \subseteq memories, DOMAIN chat' = Chats, Storing' \subseteq Storing,
         \A d \in Storing' : chat'[d] = chat[d],
         \A d \in Chats : \/ chat'[d] = chat[d]
                          \/ chat'[d] = Quiet
                          \/ chat'[d] \in [pc : {"asked"}, matches : SUBSET Patterns]
  PROVE  CatTypeOK'
<1>1. IsFiniteSet(memories')
  BY FS_Subset DEF CatTypeOK
<1>2. \A d \in Storing' : /\ chat'[d].born <= clock'
                          /\ \A m \in memories' : m.born # chat'[d].born
                          /\ \A e \in Storing' : chat'[d].born = chat'[e].born => d = e
  BY DEF CatTypeOK
<1> QED BY <1>1, <1>2 DEF CatTypeOK

LEMMA StoreMemoryKeepsType ==
  ASSUME CatTypeOK, NEW c \in Chats, StoreMemory(c)
  PROVE  /\ CatTypeOK'
         /\ TellApart(memories) /\ [summary |-> chat[c].summary, born |-> chat[c].born] \in Memory
         /\ \A n \in memories : n.born # chat[c].born
<1> DEFINE m == [summary |-> chat[c].summary, born |-> chat[c].born]
<1>1. /\ chat[c].pc = "storing" /\ memories' = StoredRows(memories, m) /\ answer' = 200
      /\ chat' = [chat EXCEPT ![c] = Quiet] /\ clock' = clock
  BY DEF StoreMemory
<1>2. chat[c] \in [pc : {"storing"}, born : Nat, summary : Summaries] /\ c \in Storing
  BY <1>1, QuietField DEF CatTypeOK, Storing
<1>3. m \in Memory /\ m.born = chat[c].born
  BY <1>2 DEF Memory
<1>4. chat[c].born <= clock /\ \A n \in memories : n.born # chat[c].born
  BY <1>2 DEF CatTypeOK
<1>5. TellApart(memories)
  BY DEF CatTypeOK, TellApart
<1> HIDE DEF m
<1>6. memories' \subseteq memories \cup {m} /\ IsFiniteSet(memories')
  BY <1>1, <1>3, <1>4, <1>5, StoredRowsAreRight
<1>7. DOMAIN chat' = Chats /\ chat'[c] = Quiet /\ \A d \in Chats \ {c} : chat'[d] = chat[d]
  BY <1>1 DEF CatTypeOK
<1>8. Storing' = Storing \ {c} /\ \A d \in Storing' : chat'[d] = chat[d]
  BY <1>7, QuietField DEF Storing
<1>9. \A d \in Storing' : /\ chat'[d].born <= clock'
                          /\ \A n \in memories' : n.born # chat'[d].born
                          /\ \A e \in Storing' : chat'[d].born = chat'[e].born => d = e
  BY <1>1, <1>2, <1>3, <1>6, <1>8 DEF CatTypeOK
<1>10. \A a \in memories' : a.born <= clock' /\ \A b \in memories' : a.born = b.born => a = b
  BY <1>1, <1>3, <1>4, <1>6 DEF CatTypeOK
<1>11. memories' \subseteq Memory
  BY <1>3, <1>6 DEF CatTypeOK
<1>12. CatTypeOK'
  BY <1>1, <1>6, <1>7, <1>9, <1>10, <1>11 DEF CatTypeOK
<1> QED BY <1>3, <1>4, <1>5, <1>12 DEF m

\* Only the end of a storing transaction adds to the list.
OnlyDeletes == memories' \subseteq memories /\ \A c \in Storing : chat'[c] # Quiet

LEMMA CatStep ==
  ASSUME CatTypeOK, [CatNext]_catVars
  PROVE  CatTypeOK' /\ ((\E c \in Chats : StoreMemory(c)) \/ OnlyDeletes)
<1>0. /\ answer \in {200, 204, 422, 500, 503} /\ DOMAIN chat = Chats
      /\ \A c \in Storing : chat[c] # Quiet
  BY QuietField DEF CatTypeOK, Storing
<1>1. CASE UNCHANGED catVars
  BY <1>0, <1>1, OthersKeepType DEF catVars, Storing, OnlyDeletes
<1>2. ASSUME NEW c \in Chats, NEW matches \in SUBSET Patterns, OpenChat(c, matches)
      PROVE  CatTypeOK' /\ OnlyDeletes
  <2> DEFINE q == [pc |-> "asked", matches |-> matches]
  <2>1. chat[c].pc = "quiet" /\ memories' = memories /\ clock' = clock /\ answer' \in {200, answer}
        /\ (chat' = chat \/ chat' = [chat EXCEPT ![c] = q])
    BY <1>2 DEF OpenChat
  <2>2. q.pc = "asked" /\ q \in [pc : {"asked"}, matches : SUBSET Patterns]
    OBVIOUS
  <2> HIDE DEF q
  <2>3. DOMAIN chat' = Chats /\ chat'[c] \in {chat[c], q} /\ \A d \in Chats \ {c} : chat'[d] = chat[d]
    BY <1>0, <2>1
  <2>4. Storing' = Storing /\ \A d \in Storing : d # c /\ chat'[d] = chat[d]
    BY <2>1, <2>2, <2>3 DEF Storing
  <2> QED BY <1>0, <2>1, <2>2, <2>3, <2>4, OthersKeepType DEF OnlyDeletes
<1>3. ASSUME NEW c \in Chats, OpenBlankChat(c)
      PROVE  CatTypeOK' /\ OnlyDeletes
  BY <1>0, <1>3, OthersKeepType DEF OpenBlankChat, Storing, OnlyDeletes
<1>4. ASSUME NEW c \in Chats, chat[c].pc = "asked", chat' = [chat EXCEPT ![c] = Quiet],
             answer' \in {200, 500, 503}, UNCHANGED <<memories, clock>>
      PROVE  CatTypeOK' /\ OnlyDeletes
  <2>1. DOMAIN chat' = Chats /\ chat'[c] = Quiet /\ \A d \in Chats \ {c} : chat'[d] = chat[d]
    BY <1>0, <1>4
  <2>2. Storing' = Storing /\ \A d \in Storing : d # c /\ chat'[d] = chat[d]
    BY <1>4, <2>1, QuietField DEF Storing
  <2> QED BY <1>0, <1>4, <2>1, <2>2, OthersKeepType DEF OnlyDeletes
<1>5. ASSUME NEW c \in Chats, chat[c].pc # "storing", NEW summary \in Summaries,
             BeginStore(c, summary), UNCHANGED memories
      PROVE  CatTypeOK' /\ OnlyDeletes
  <2>1. \A d \in Storing : d \in Chats /\ d # c
    BY <1>5 DEF Storing
  <2>2. \A d \in Chats \ {c} : chat'[d] = chat[d]
    BY <1>0, <1>5 DEF BeginStore
  <2> QED BY <1>0, <1>5, <2>1, <2>2, BeginStoreKeepsType DEF OnlyDeletes
<1>6. ASSUME NEW c \in Chats, ProviderReplies(c)
      PROVE  CatTypeOK' /\ OnlyDeletes
  <2>1. CASE Category(chat[c].matches) \in Remembered
    <3>1. SummaryOf[Category(chat[c].matches)] \in Summaries
      BY <2>1, CatAssumption DEF CatAssumption
    <3> QED BY <1>5, <1>6, <2>1, <3>1 DEF ProviderReplies
  <2>2. CASE Category(chat[c].matches) \notin Remembered
    BY <1>4, <1>6, <2>2 DEF ProviderReplies
  <2> QED BY <2>1, <2>2
<1>7. ASSUME NEW c \in Chats, ProviderFails(c)
      PROVE  CatTypeOK' /\ OnlyDeletes
  <2>1. /\ chat[c].pc = "asked" /\ chat' = [chat EXCEPT ![c] = Quiet]
        /\ answer' \in {200, 500, 503} /\ UNCHANGED <<memories, clock>>
    BY <1>7 DEF ProviderFails
  <2> QED BY <1>4, <2>1
<1>8. ASSUME NEW c \in Chats, NEW summary \in Summaries \cup {Blank}, BeginAdd(c, summary)
      PROVE  CatTypeOK' /\ OnlyDeletes
  <2>1. CASE summary = Blank
    BY <1>0, <1>8, <2>1, OthersKeepType DEF BeginAdd, Storing, OnlyDeletes
  <2>2. CASE summary # Blank
    BY <1>5, <1>8, <2>2 DEF BeginAdd
  <2> QED BY <2>1, <2>2
<1>9. ASSUME answer' = 204, memories' \subseteq memories, UNCHANGED <<clock, chat>>
      PROVE  CatTypeOK' /\ OnlyDeletes
  BY <1>0, <1>9, OthersKeepType DEF Storing, OnlyDeletes
<1>10. ASSUME NEW m \in memories, DeleteMemory(m)
       PROVE  CatTypeOK' /\ OnlyDeletes
  BY <1>9, <1>10 DEF DeleteMemory
<1>11. ASSUME DeleteAllMemories
       PROVE  CatTypeOK' /\ OnlyDeletes
  BY <1>9, <1>11 DEF DeleteAllMemories
<1>12. ASSUME NEW c \in Chats, StoreMemory(c) PROVE CatTypeOK' /\ \E d \in Chats : StoreMemory(d)
  BY <1>12, StoreMemoryKeepsType
<1> QED BY <1>1, <1>2, <1>3, <1>6, <1>7, <1>8, <1>10, <1>11, <1>12 DEF CatNext

\* The types of the list, its rows and the chats, whoever stores and deletes.
THEOREM CatTypeCorrect == CatSpec => []CatTypeOK
BY CatStart, CatStep, PTL DEF CatSpec

\* Whoever stores and whatever the list was, for every limit: it ends up within
\* the limit, without repetitions, and what is lost is older than what is kept.
THEOREM StoringIsRight == CatSpec => StoringKeepsTheNewest
<1> DEFINE Stores == \E c \in Storing : chat'[c] = Quiet
           Right == IF Stores
                    THEN /\ Cardinality(memories') <= MemoryLimit
                         /\ \A m, n \in memories' : m.summary = n.summary => m = n
                         /\ memories' \ memories # {} =>
                              \A gone \in memories \ memories', kept \in memories \cap memories' :
                                \/ gone.born < kept.born
                                \/ \E m \in memories : m.summary = gone.summary /\ m.born > gone.born
                    ELSE memories' \subseteq memories
<1>1. ASSUME CatTypeOK, NEW c \in Chats, StoreMemory(c) PROVE Right
  <2>1. /\ c \in Storing /\ chat'[c] = Quiet
        /\ memories' = StoredRows(memories, [summary |-> chat[c].summary, born |-> chat[c].born])
    BY <1>1 DEF StoreMemory, Storing, CatTypeOK
  <2>2. PICK m \in Memory : m = [summary |-> chat[c].summary, born |-> chat[c].born]
    BY <1>1, StoreMemoryKeepsType
  <2>3. TellApart(memories) /\ \A n \in memories : n.born # m.born
    BY <1>1, <2>2, StoreMemoryKeepsType
  <2>4. memories' = StoredRows(memories, m)
    BY <2>1, <2>2
  <2>5. Stores
    BY <2>1
  <2> HIDE DEF Stores
  <2> QED BY <2>3, <2>4, <2>5, StoredRowsAreRight
<1>2. ASSUME OnlyDeletes PROVE Right
  BY <1>2 DEF OnlyDeletes
<1>3. CatTypeOK /\ [CatNext]_catVars => [Right]_catVars
  <2> HIDE DEF Right
  <2> QED BY <1>1, <1>2, CatStep
<1> QED BY <1>3, CatStart, CatStep, PTL DEF CatSpec, StoringKeepsTheNewest

-----------------------------------------------------------------------------
(* RateLimit: the inductive invariant                                       *)

\* A login that went on found its buckets open, and they stay so while it
\* holds them.
OpenBuckets ==
  \A c \in Clients :
    /\ login[c].pc \in {"findAccount", "lockAccount", "verify"} => ~Blocked(Seen(login[c].ip))
    /\ login[c].pc = "verify" => ~Blocked(Seen(login[c].email))

\* What a bucket knows of the failures of the last Window: those of its own
\* window, the newest, it has counted, and others there are no more than the
\* limit, from before its window began; none came since it was written, nor
\* since it was blocked.
Covers(b, ages) ==
  /\ Len(ages) <= b.attempts + Limit
  /\ \A k \in 1 .. Len(ages) :
       /\ k <= Len(ages) - b.attempts => ages[k] >= b.age
       /\ ages[k] >= b.idle
       /\ b.block # Never => ages[k] >= Block - b.block

OldestFirst(ages) == \A k, l \in 1 .. Len(ages) : k < l => ages[k] >= ages[l]

FailuresAreCovered ==
  /\ failures \in [Ips -> Seq(0 .. Window - 1)]
  /\ \A i \in Ips :
       /\ OldestFirst(failures[i])
       /\ Window <= Block =>
            IF bucket[i] = NoBucket THEN failures[i] = <<>> ELSE Covers(bucket[i], failures[i])

RateInv == RateTypeOK /\ OpenBuckets /\ FailuresAreCovered

-----------------------------------------------------------------------------
(* RateLimit: buckets by themselves                                         *)

LEMMA RateConstants ==
  /\ Window \in Nat /\ Window >= 1 /\ Block \in Nat /\ Block >= 1 /\ Never = Block + 1
  /\ Limit \in Nat /\ Limit >= 2
  /\ Retention \in Nat /\ Retention >= Window
  /\ NoBucket \notin BucketType
BY RateLimitAssumption DEF RateLimitAssumption, Never

LEMMA BucketFields ==
  ASSUME NEW b \in BucketType
  PROVE  /\ b.attempts \in Nat /\ b.attempts <= Limit /\ b.age \in Nat /\ b.age <= Window
         /\ b.block \in Nat /\ b.block <= Never /\ b.idle \in Nat /\ b.idle <= Retention + 1
BY RateConstants DEF BucketType

LEMMA FreshFields ==
  /\ Fresh \in BucketType
  /\ Fresh.attempts = 0 /\ Fresh.age = 0 /\ Fresh.block = Never /\ Fresh.idle = 0
BY RateConstants DEF Fresh, BucketType

LEMMA RefreshedType ==
  ASSUME NEW b \in BucketType
  PROVE  /\ Refreshed(b) \in BucketType
         /\ Refreshed(b) = Fresh \/ Refreshed(b) = b
         /\ Refreshed(b).block # 0
BY FreshFields, RateConstants DEF Refreshed

\* What is examined is a bucket; one that is not blocked has room.
LEMMA ExaminedType ==
  ASSUME NEW b \in BucketType
  PROVE  /\ Examined(b) \in BucketType
         /\ ~Blocked(Examined(b)) => Examined(b).block = Never /\ Examined(b).attempts < Limit
         /\ \/ Examined(b) = Refreshed(b)
            \/ /\ Examined(b).attempts = Refreshed(b).attempts /\ Examined(b).age = Refreshed(b).age
               /\ Examined(b).idle = Refreshed(b).idle /\ Examined(b).block = Block
<1> DEFINE r == Refreshed(b)
<1>1. r \in BucketType /\ r.block # 0
  BY RefreshedType
<1>2. r.block \in Nat /\ r.block <= Never /\ r.attempts \in Nat
  BY <1>1, BucketFields
<1>3. CASE ~Blocked(r) /\ r.attempts >= Limit
  <2> DEFINE e == [r EXCEPT !.block = Block]
  <2>1. /\ e.attempts = r.attempts /\ e.age = r.age /\ e.idle = r.idle /\ e.block = Block
        /\ e \in BucketType
    BY <1>1, RateConstants DEF BucketType
  <2>2. Examined(b) = e
    BY <1>3 DEF Examined
  <2>3. Blocked(e)
    BY <2>1, RateConstants DEF Blocked
  <2> HIDE DEF e, r
  <2> QED BY <2>1, <2>2, <2>3 DEF r
<1>4. CASE ~(~Blocked(r) /\ r.attempts >= Limit)
  <2>1. Examined(b) = r
    BY <1>4 DEF Examined
  <2>2. ~Blocked(r) => r.block = Never /\ r.attempts < Limit
    BY <1>1, <1>2, <1>4, RateConstants DEF Blocked
  <2> QED BY <1>1, <2>1, <2>2
<1> QED BY <1>3, <1>4

LEMMA FailedType ==
  ASSUME NEW b \in BucketType, b.attempts < Limit
  PROVE  /\ Failed(b) \in BucketType
         /\ Failed(b).attempts = b.attempts + 1 /\ Failed(b).age = b.age /\ Failed(b).idle = 0
         /\ Failed(b).block = IF b.attempts + 1 >= Limit THEN Block ELSE b.block
<1>1. b.attempts \in Nat /\ b.age \in Nat /\ b.block \in Nat
  BY BucketFields
<1>2. /\ Failed(b).attempts = b.attempts + 1 /\ Failed(b).age = b.age /\ Failed(b).idle = 0
      /\ Failed(b).block = IF b.attempts + 1 >= Limit THEN Block ELSE b.block
  BY DEF Failed, BucketType
<1>3. Failed(b) = [b EXCEPT !.attempts = Failed(b).attempts, !.idle = Failed(b).idle, !.block = Failed(b).block]
  BY <1>2 DEF Failed, BucketType
<1>4. /\ Failed(b).attempts \in 0 .. Limit /\ Failed(b).idle \in 0 .. Retention + 1
      /\ Failed(b).block \in 0 .. Never
  BY <1>1, <1>2, BucketFields, RateConstants
<1>5. \A n \in 0 .. Limit, idle \in 0 .. Retention + 1, block \in 0 .. Never :
        [b EXCEPT !.attempts = n, !.idle = idle, !.block = block] \in BucketType
  BY DEF BucketType
<1>6. Failed(b) \in BucketType
  <2>1. PICK n \in 0 .. Limit, idle \in 0 .. Retention + 1, block \in 0 .. Never :
          n = Failed(b).attempts /\ idle = Failed(b).idle /\ block = Failed(b).block
    BY <1>4, Zenon
  <2>2. Failed(b) = [b EXCEPT !.attempts = n, !.idle = idle, !.block = block]
    BY <1>3, <2>1, Zenon
  <2>3. [b EXCEPT !.attempts = n, !.idle = idle, !.block = block] \in BucketType
    BY <1>5
  <2> QED BY <2>2, <2>3, Zenon
<1> QED BY <1>2, <1>6

LEMMA AgedType ==
  ASSUME NEW b \in BucketType
  PROVE  /\ Aged(b) \in BucketType
         /\ Aged(b).attempts = b.attempts
         /\ Aged(b).age = IF b.age < Window THEN b.age + 1 ELSE b.age
         /\ Aged(b).idle = IF b.idle < Retention + 1 THEN b.idle + 1 ELSE b.idle
         /\ Aged(b).block = IF b.block = 0 \/ b.block = Never THEN b.block ELSE b.block - 1
<1>1. /\ b.attempts \in Nat /\ b.attempts <= Limit /\ b.age \in Nat /\ b.age <= Window
      /\ b.block \in Nat /\ b.block <= Never /\ b.idle \in Nat /\ b.idle <= Retention + 1
  BY BucketFields
<1>2. /\ Aged(b).attempts = b.attempts
      /\ Aged(b).age = IF b.age < Window THEN b.age + 1 ELSE b.age
      /\ Aged(b).idle = IF b.idle < Retention + 1 THEN b.idle + 1 ELSE b.idle
      /\ Aged(b).block = IF b.block = 0 \/ b.block = Never THEN b.block ELSE b.block - 1
  BY DEF Aged, Older, BucketType
<1>3. Aged(b) = [b EXCEPT !.age = Aged(b).age, !.idle = Aged(b).idle, !.block = Aged(b).block]
  BY <1>2 DEF Aged, Older, BucketType
<1>4. /\ Aged(b).age \in 0 .. Window /\ Aged(b).idle \in 0 .. Retention + 1 /\ Aged(b).block \in 0 .. Never
  BY <1>1, <1>2, RateConstants
<1>5. \A age \in 0 .. Window, idle \in 0 .. Retention + 1, block \in 0 .. Never :
        [b EXCEPT !.age = age, !.idle = idle, !.block = block] \in BucketType
  BY DEF BucketType
<1>6. Aged(b) \in BucketType
  <2>1. PICK age \in 0 .. Window, idle \in 0 .. Retention + 1, block \in 0 .. Never :
          age = Aged(b).age /\ idle = Aged(b).idle /\ block = Aged(b).block
    BY <1>4, Zenon
  <2>2. Aged(b) = [b EXCEPT !.age = age, !.idle = idle, !.block = block]
    BY <1>3, <2>1, Zenon
  <2>3. [b EXCEPT !.age = age, !.idle = idle, !.block = block] \in BucketType
    BY <1>5
  <2> QED BY <2>2, <2>3, Zenon
<1> QED BY <1>2, <1>6

-----------------------------------------------------------------------------
(* RateLimit: what a bucket covers                                          *)

Ages == Seq(0 .. Window - 1)

LEMMA AgesFields ==
  ASSUME NEW ages \in Ages
  PROVE  /\ Len(ages) \in Nat /\ DOMAIN ages = 1 .. Len(ages)
         /\ \A k \in 1 .. Len(ages) : ages[k] \in Nat /\ ages[k] < Window
BY RateConstants DEF Ages

LEMMA AgesAre ==
  ASSUME NEW n \in Nat, NEW s \in [1 .. n -> Nat], \A k \in 1 .. n : s[k] < Window
  PROVE  s \in Ages
<1>1. s \in [1 .. n -> 0 .. Window - 1]
  BY RateConstants
<1>2. \A S : Seq(S) = UNION {[1 .. m -> S] : m \in Nat}
  BY SeqDef
<1> QED BY <1>1, <1>2, Zenon DEF Ages

\* A window that is over has nothing before it, and a block that is over nothing
\* at all: the next window starts with the failures of at most one.
LEMMA RefreshedCovers ==
  ASSUME Window <= Block, NEW b \in BucketType, NEW ages \in Ages, Covers(b, ages)
  PROVE  Covers(Refreshed(b), ages)
<1>1. /\ b.attempts \in Nat /\ b.attempts <= Limit /\ b.age \in Nat /\ b.age <= Window
      /\ b.block \in Nat
  BY BucketFields
<1>2. Len(ages) \in Nat /\ \A k \in 1 .. Len(ages) : ages[k] \in Nat /\ ages[k] < Window
  BY RateConstants DEF Ages
<1>3. CASE b.block = 0 \/ b.age >= Window
  <2>1. Len(ages) <= Limit
    <3>1. CASE b.block = 0
      <4>1. \A k \in 1 .. Len(ages) : ages[k] >= Block
        BY <3>1, RateConstants DEF Covers
      <4> QED BY <1>2, <4>1, RateConstants
    <3>2. CASE b.age >= Window
      <4>1. \A k \in 1 .. Len(ages) : ~(k <= Len(ages) - b.attempts)
        BY <1>1, <1>2, <3>2, RateConstants DEF Covers
      <4> QED BY <1>1, <1>2, <4>1, RateConstants
    <3> QED BY <1>3, <3>1, <3>2
  <2>2. Refreshed(b) = Fresh
    BY <1>3 DEF Refreshed
  <2> QED BY <1>2, <2>1, <2>2, FreshFields, RateConstants DEF Covers
<1>4. CASE ~(b.block = 0 \/ b.age >= Window)
  BY <1>4 DEF Refreshed
<1> QED BY <1>3, <1>4

LEMMA ExaminedCovers ==
  ASSUME Window <= Block, NEW b \in BucketType, NEW ages \in Ages, Covers(b, ages)
  PROVE  Covers(Examined(b), ages)
<1>1. Covers(Refreshed(b), ages)
  BY RefreshedCovers
<1>2. \A k \in 1 .. Len(ages) : ages[k] \in Nat
  BY RateConstants DEF Ages
<1>3. \/ Examined(b) = Refreshed(b)
      \/ /\ Examined(b).attempts = Refreshed(b).attempts /\ Examined(b).age = Refreshed(b).age
         /\ Examined(b).idle = Refreshed(b).idle /\ Examined(b).block = Block
  BY ExaminedType
<1> QED BY <1>1, <1>2, <1>3, RateConstants DEF Covers

\* A failure just now is the last.
LEMMA AppendedAges ==
  ASSUME NEW ages \in Ages
  PROVE  LET more == Append(ages, 0) IN
         /\ more \in Ages /\ Len(more) = Len(ages) + 1
         /\ \A k \in 1 .. Len(more) : more[k] = IF k <= Len(ages) THEN ages[k] ELSE 0
         /\ OldestFirst(ages) => OldestFirst(more)
<1> DEFINE more == Append(ages, 0)
<1>1. ages \in Seq(0 .. Window - 1) /\ 0 \in 0 .. Window - 1
  BY RateConstants DEF Ages
<1>2. more \in Ages
  BY <1>1 DEF Ages
<1>3. /\ Len(more) = Len(ages) + 1 /\ Len(ages) \in Nat
      /\ \A k \in 1 .. Len(more) : more[k] = IF k <= Len(ages) THEN ages[k] ELSE 0
      /\ \A k \in 1 .. Len(ages) : ages[k] \in Nat
  BY <1>1, AgesFields
<1> HIDE DEF more
<1>4. OldestFirst(ages) => OldestFirst(more)
  BY <1>3 DEF OldestFirst
<1> QED BY <1>2, <1>3, <1>4 DEF more

\* A failure is counted by the bucket.
LEMMA FailedCovers ==
  ASSUME NEW b \in BucketType, NEW ages \in Ages, Covers(b, ages), b.attempts < Limit, b.block = Never
  PROVE  Covers(Failed(b), Append(ages, 0))
<1> DEFINE more == Append(ages, 0)
<1>1. /\ Len(more) = Len(ages) + 1 /\ Len(ages) \in Nat
      /\ \A k \in 1 .. Len(more) : more[k] = IF k <= Len(ages) THEN ages[k] ELSE 0
      /\ \A k \in 1 .. Len(ages) : ages[k] \in Nat
  BY AppendedAges, AgesFields
<1> HIDE DEF more
<1>2. /\ b.attempts \in Nat /\ b.age \in Nat
      /\ Failed(b).attempts = b.attempts + 1 /\ Failed(b).age = b.age /\ Failed(b).idle = 0
      /\ Failed(b).block \in {Block, Never}
  BY FailedType, BucketFields
<1>3. Covers(Failed(b), more)
  <2>1. Len(more) <= Failed(b).attempts + Limit
    BY <1>1, <1>2, RateConstants DEF Covers
  <2>2. ASSUME NEW k \in 1 .. Len(more)
        PROVE  /\ k <= Len(more) - Failed(b).attempts => more[k] >= Failed(b).age
               /\ more[k] >= Failed(b).idle
               /\ Failed(b).block # Never => more[k] >= Block - Failed(b).block
    <3>1. more[k] \in Nat
      BY <1>1
    <3>2. k <= Len(more) - Failed(b).attempts => k \in 1 .. Len(ages) /\ k <= Len(ages) - b.attempts
      BY <1>1, <1>2
    <3>3. k <= Len(more) - Failed(b).attempts => more[k] >= Failed(b).age
      BY <1>1, <1>2, <3>2 DEF Covers
    <3>4. more[k] >= Failed(b).idle
      BY <1>2, <3>1
    <3>5. Failed(b).block # Never => more[k] >= Block - Failed(b).block
      BY <1>2, <3>1, RateConstants
    <3> QED BY <3>3, <3>4, <3>5
  <2> QED BY <2>1, <2>2 DEF Covers
<1> QED BY <1>3 DEF more

\* Time passes for a bucket and its failures alike.
LEMMA RecentAges ==
  ASSUME NEW ages \in Ages, OldestFirst(ages)
  PROVE  \E d \in 0 .. Len(ages) :
           LET old == [k \in DOMAIN ages |-> ages[k] + 1] IN
           /\ WithinWindow(old) \in Ages
           /\ Len(WithinWindow(old)) = Len(ages) - d
           /\ \A k \in 1 .. Len(ages) - d : WithinWindow(old)[k] = ages[k + d] + 1
<1> DEFINE n == Len(ages)
           old == [k \in DOMAIN ages |-> ages[k] + 1]
           gone == {k \in DOMAIN old : old[k] >= Window}
           d == Cardinality(gone)
<1>1. n \in Nat /\ DOMAIN ages = 1 .. n /\ \A k \in 1 .. n : ages[k] \in Nat /\ ages[k] < Window
  BY AgesFields
<1>2. old \in Seq(Nat) /\ Len(old) = n /\ DOMAIN old = 1 .. n /\ \A k \in 1 .. n : old[k] = ages[k] + 1
  BY <1>1
<1>3. gone \in SUBSET (1 .. n) /\ IsFiniteSet(1 .. n) /\ Cardinality(1 .. n) = n
  BY <1>1, <1>2, UpTo
<1> HIDE DEF old
<1>4. \A k \in gone, l \in 1 .. n : l < k => l \in gone
  BY <1>1, <1>2, <1>3, RateConstants DEF OldestFirst
<1>5. \E m \in 0 .. n : gone = 1 .. m
  <2> DEFINE stay == {k \in 1 .. n + 1 : k \notin gone}
             Less == {p \in Nat \X Nat : p[1] < p[2]}
  <2>1. stay \subseteq Nat /\ stay # {}
    <3>1. n + 1 \in stay
      BY <1>1, <1>3
    <3> QED BY <1>1, <3>1
  <2>2. IsWellFoundedOn(Less, Nat)
    BY NatLessThanWellFounded DEF OpToRel
  <2>3. PICK k \in stay : \A l \in stay : <<l, k>> \notin Less
    <3> HIDE DEF stay, Less
    <3> QED BY <2>1, <2>2, WFMin
  <2>4. k \in 1 .. n + 1 /\ k \notin gone /\ \A l \in 1 .. n : l < k => l \in gone
    <3> HIDE DEF gone, n
    <3>1. k \in 1 .. n + 1 /\ k \notin gone
      OBVIOUS
    <3>2. ASSUME NEW l \in 1 .. n, l < k, l \notin gone PROVE FALSE
      <4>1. l \in stay /\ <<l, k>> \in Nat \X Nat
        BY <1>1, <3>1, <3>2
      <4>2. <<l, k>> \in Less
        BY <3>2, <4>1
      <4> QED BY <2>3, <4>1, <4>2
    <3> QED BY <3>1, <3>2
  <2> HIDE DEF gone, n, stay, Less
  <2>5. gone = 1 .. k - 1
    <3>1. \A l \in gone : l \in 1 .. n /\ l # k /\ ~(k < l)
      BY <1>1, <1>3, <1>4, <2>4
    <3>2. \A l \in gone : l \in 1 .. k - 1
      BY <1>1, <2>4, <3>1
    <3>3. \A l \in 1 .. k - 1 : l \in gone
      BY <1>1, <2>4
    <3> QED BY <3>2, <3>3
  <2>6. k - 1 \in 0 .. n
    BY <1>1, <2>4
  <2> QED BY <2>5, <2>6, Zenon
<1>6. gone = 1 .. d /\ d \in 0 .. n
  <2>1. PICK m \in 0 .. n : gone = 1 .. m
    BY <1>5
  <2>2. Cardinality(1 .. m) = m
    BY <1>1, <2>1, FS_Interval
  <2> HIDE DEF gone
  <2> QED BY <2>1, <2>2
<1> HIDE DEF gone, n, d
<1>7. WithinWindow(old) = SubSeq(old, d + 1, n)
  BY <1>2 DEF WithinWindow, gone, d
<1>8. /\ WithinWindow(old) \in Seq(Nat) /\ Len(WithinWindow(old)) = n - d
      /\ \A k \in 1 .. n - d : WithinWindow(old)[k] = ages[k + d] + 1
  <2>1. /\ From(old, d) \in Seq(Nat) /\ Len(From(old, d)) = n - d
        /\ \A k \in 1 .. n - d : From(old, d)[k] = old[d + k]
    <3>1. old \in Seq(Nat) /\ Len(old) = n /\ d \in 0 .. Len(old)
      BY <1>2, <1>6
    <3> QED BY <3>1, FromFacts
  <2>2. WithinWindow(old) = From(old, d)
    BY <1>2, <1>7 DEF From
  <2>3. \A k \in 1 .. n - d : d + k = k + d /\ k + d \in 1 .. n
    BY <1>1, <1>6
  <2>4. \A k \in 1 .. n - d : old[d + k] = ages[k + d] + 1
    BY <1>2, <2>3
  <2> QED BY <2>1, <2>2, <2>4
<1>9. ASSUME NEW k \in 1 .. n - d PROVE WithinWindow(old)[k] \in Nat /\ WithinWindow(old)[k] < Window
  <2>1. k + d \in 1 .. n /\ k + d \notin gone
    BY <1>1, <1>6
  <2>2. old[k + d] < Window
    BY <1>1, <1>2, <2>1, RateConstants DEF gone
  <2> QED BY <1>1, <1>2, <1>8, <2>1, <2>2
<1>10. WithinWindow(old) \in Ages
  <2>1. n - d \in Nat
    BY <1>1, <1>6
  <2>2. \A s \in Seq(Nat) : s \in [1 .. Len(s) -> Nat]
    OBVIOUS
  <2>3. WithinWindow(old) \in [1 .. n - d -> Nat]
    BY <1>8, <2>2, Zenon
  <2> QED BY <1>9, <2>1, <2>3, AgesAre
<1> QED BY <1>6, <1>8, <1>10 DEF n, old

\* A failure and what it is compared with grow older by one.
LEMMA OneOlder ==
  \A a, x, y, block \in Nat :
    /\ a >= x /\ y <= x + 1 => a + 1 >= y
    /\ a >= block - x /\ y + 1 >= x => a + 1 >= block - y
OBVIOUS

\* A bucket grows older with the failures of which d are forgotten.
LEMMA AgedKeepsCover ==
  ASSUME NEW ages \in Ages, NEW recent \in Ages, NEW d \in 0 .. Len(ages), Len(recent) = Len(ages) - d,
         \A k \in 1 .. Len(ages) - d : recent[k] = ages[k + d] + 1,
         NEW b \in BucketType, Covers(b, ages)
  PROVE  Covers(Aged(b), recent)
<1>1. Len(ages) \in Nat /\ \A k \in 1 .. Len(ages) : ages[k] \in Nat
  BY AgesFields
<1>2. b.attempts \in Nat /\ b.age \in Nat /\ b.idle \in Nat /\ b.block \in Nat
  BY BucketFields
<1>3. PICK o : o = Aged(b)
  OBVIOUS
<1>4. /\ o.attempts = b.attempts /\ o.age \in Nat /\ o.age <= b.age + 1
      /\ o.idle \in Nat /\ o.idle <= b.idle + 1
      /\ o.block \in Nat /\ (o.block # Never => b.block # Never /\ o.block + 1 >= b.block)
  <2>1. /\ o \in BucketType
        /\ o.attempts = b.attempts
        /\ o.age = IF b.age < Window THEN b.age + 1 ELSE b.age
        /\ o.idle = IF b.idle < Retention + 1 THEN b.idle + 1 ELSE b.idle
        /\ o.block = IF b.block = 0 \/ b.block = Never THEN b.block ELSE b.block - 1
    BY <1>3, AgedType
  <2>2. o.age \in Nat /\ o.idle \in Nat /\ o.block \in Nat
    BY <2>1, BucketFields
  <2>3. o.age <= b.age + 1
    BY <1>2, <2>1, <2>2, RateConstants
  <2>4. o.idle <= b.idle + 1
    BY <1>2, <2>1, <2>2, RateConstants
  <2>5. o.block # Never => b.block # Never /\ o.block + 1 >= b.block
    BY <1>2, <2>1, <2>2
  <2> QED BY <2>1, <2>2, <2>3, <2>4, <2>5
<1>5. Len(recent) <= o.attempts + Limit
  BY <1>1, <1>2, <1>4, RateConstants DEF Covers
<1>6. ASSUME NEW k \in 1 .. Len(recent)
      PROVE  /\ k <= Len(recent) - o.attempts => recent[k] >= o.age
             /\ recent[k] >= o.idle
             /\ o.block # Never => recent[k] >= Block - o.block
  <2>1. PICK l \in 1 .. Len(ages) : l = k + d
    BY <1>1
  <2>2. PICK a \in Nat : a = ages[l]
    BY <1>1
  <2>3. recent[k] = a + 1
    BY <1>1, <2>1, <2>2
  <2>4. k <= Len(recent) - o.attempts => l <= Len(ages) - b.attempts
    <3>1. k \in Nat /\ d \in Nat /\ l = k + d /\ Len(recent) = Len(ages) - d /\ o.attempts = b.attempts
      BY <1>1, <1>4, <2>1
    <3> QED BY <1>1, <1>2, <3>1
  <2>5. /\ l <= Len(ages) - b.attempts => a >= b.age
        /\ a >= b.idle
        /\ b.block # Never => a >= Block - b.block
    BY <2>2 DEF Covers
  <2>6. k <= Len(recent) - o.attempts => a + 1 >= o.age
    <3>1. k <= Len(recent) - o.attempts => a >= b.age
      BY <2>4, <2>5, Zenon
    <3>2. a >= b.age => a + 1 >= o.age
      BY <1>2, <1>4, OneOlder, Zenon
    <3> QED BY <3>1, <3>2, Zenon
  <2>7. a + 1 >= o.idle
    BY <1>2, <1>4, <2>5, OneOlder, Zenon
  <2>8. o.block # Never => a + 1 >= Block - o.block
    BY <1>2, <1>4, <2>5, OneOlder, RateConstants, Zenon
  <2> QED BY <2>3, <2>6, <2>7, <2>8
<1> QED BY <1>3, <1>5, <1>6 DEF Covers

LEMMA AgedCovers ==
  ASSUME NEW ages \in Ages, OldestFirst(ages)
  PROVE  LET recent == WithinWindow([k \in DOMAIN ages |-> ages[k] + 1]) IN
         /\ recent \in Ages /\ OldestFirst(recent)
         /\ ages = <<>> => recent = <<>>
         /\ \A b \in BucketType : Covers(b, ages) => Covers(Aged(b), recent)
<1>1. PICK recent : recent = WithinWindow([k \in DOMAIN ages |-> ages[k] + 1])
  OBVIOUS
<1>2. PICK d \in 0 .. Len(ages) :
        /\ recent \in Ages /\ Len(recent) = Len(ages) - d
        /\ \A k \in 1 .. Len(ages) - d : recent[k] = ages[k + d] + 1
  BY <1>1, RecentAges
<1>3. Len(ages) \in Nat /\ \A k \in 1 .. Len(ages) : ages[k] \in Nat
  BY AgesFields
<1>4. OldestFirst(recent)
  BY <1>2, <1>3 DEF OldestFirst
<1>5. ages = <<>> => recent = <<>>
  <2>1. ages = <<>> => Len(recent) = 0
    BY <1>2, <1>3
  <2>2. recent \in Seq(0 .. Window - 1)
    BY <1>2 DEF Ages
  <2> QED BY <2>1, <2>2, EmptySeq
<1>6. \A b \in BucketType : Covers(b, ages) => Covers(Aged(b), recent)
  BY <1>2, AgedKeepsCover
<1> QED BY <1>1, <1>2, <1>4, <1>5, <1>6

-----------------------------------------------------------------------------
(* RateLimit: the logins                                                    *)

LEMMA NoLoginFields == NoLogin.pc = "idle" /\ NoLogin.held = {}
BY DEF NoLogin

LEMMA LoginFields ==
  ASSUME RateTypeOK, NEW c \in Clients, login[c].pc # "idle"
  PROVE  /\ login[c] \in [pc : LoginPhases, ip : Ips, email : Emails, held : SUBSET Buckets]
         /\ login[c].ip \in Buckets /\ login[c].email \in Buckets /\ login[c].ip # login[c].email
         /\ login[c].held \subseteq {login[c].ip, login[c].email}
<1>1. login[c] # NoLogin
  BY NoLoginFields
<1>2. /\ login[c] \in [pc : LoginPhases, ip : Ips, email : Emails, held : SUBSET Buckets]
      /\ login[c].held \subseteq {login[c].ip, login[c].email}
  BY <1>1 DEF RateTypeOK
<1>3. login[c].ip \in Ips /\ login[c].email \in Emails
  BY <1>2
<1>4. login[c].ip # login[c].email
  BY <1>3, RateLimitAssumption DEF RateLimitAssumption
<1> QED BY <1>2, <1>3, <1>4 DEF Buckets

LEMMA SeenType ==
  ASSUME RateInv, NEW b \in Buckets
  PROVE  /\ Seen(b) \in BucketType
         /\ ~Blocked(Seen(b)) => Seen(b).block = Never /\ Seen(b).attempts < Limit
         /\ b \in Ips /\ Window <= Block => Covers(Seen(b), failures[b])
<1> DEFINE there == IF bucket[b] = NoBucket THEN Fresh ELSE bucket[b]
<1>1. there \in BucketType
  BY FreshFields DEF RateInv, RateTypeOK
<1>2. b \in Ips /\ Window <= Block => Covers(there, failures[b]) /\ failures[b] \in Ages
  <2> SUFFICES ASSUME b \in Ips, Window <= Block PROVE Covers(there, failures[b]) /\ failures[b] \in Ages
    OBVIOUS
  <2>1. failures[b] \in Ages
    BY DEF RateInv, FailuresAreCovered, Ages
  <2>2. CASE bucket[b] = NoBucket
    <3>1. failures[b] = <<>>
      BY <2>2 DEF RateInv, FailuresAreCovered
    <3>2. Covers(Fresh, <<>>)
      BY FreshFields, RateConstants DEF Covers
    <3> QED BY <2>1, <2>2, <3>1, <3>2
  <2>3. CASE bucket[b] # NoBucket
    BY <2>1, <2>3 DEF RateInv, FailuresAreCovered
  <2> QED BY <2>2, <2>3
<1>3. Seen(b) = Examined(there)
  BY DEF Seen
<1> HIDE DEF there
<1> QED BY <1>1, <1>2, <1>3, ExaminedType, ExaminedCovers

LEMMA RateStart == RateInit => RateInv
<1> SUFFICES ASSUME RateInit PROVE RateInv
  OBVIOUS
<1>1. \A c \in Clients : login[c] = NoLogin
  BY DEF RateInit
<1>2. RateTypeOK
  BY <1>1, NoLoginFields DEF RateInit, RateTypeOK
<1>3. OpenBuckets
  BY <1>1, NoLoginFields DEF OpenBuckets
<1>4. FailuresAreCovered
  <2>1. \A i \in Ips : i \in Buckets /\ failures[i] = <<>> /\ bucket[i] = NoBucket
    BY DEF RateInit, Buckets
  <2>2. OldestFirst(<<>>)
    BY DEF OldestFirst
  <2>3. failures \in [Ips -> Seq(0 .. Window - 1)]
    BY DEF RateInit
  <2> QED BY <2>1, <2>2, <2>3 DEF FailuresAreCovered
<1> QED BY <1>2, <1>3, <1>4 DEF RateInv

\* What one login may be.
LoginOK(q) ==
  /\ q \in [pc : LoginPhases, ip : Ips, email : Emails, held : SUBSET Buckets]
  /\ q.held \subseteq {q.ip, q.email}
  /\ q.pc \in {"findAccount", "lockAccount"} => q.ip \in q.held
  /\ q.pc = "verify" => q.held = {q.ip, q.email}

LEMMA LoginIsOK ==
  ASSUME RateTypeOK, NEW c \in Clients, login[c].pc # "idle"
  PROVE  LoginOK(login[c])
BY NoLoginFields DEF RateTypeOK, LoginOK

\* A step of one login that changes no bucket.
LEMMA LoginMoves ==
  ASSUME RateInv, NEW c \in Clients, NEW q, login' = [login EXCEPT ![c] = q],
         UNCHANGED <<bucket, pruned, failures>>,
         q = NoLogin \/ LoginOK(q),
         \A b \in q.held : b \in login[c].held \/ IsFree(b),
         q.pc \in {"findAccount", "lockAccount", "verify"} => ~Blocked(Seen(q.ip)),
         q.pc = "verify" => ~Blocked(Seen(q.email))
  PROVE  RateInv'
<1>1. /\ login'[c] = q /\ \A d \in Clients \ {c} : login'[d] = login[d]
      /\ DOMAIN login' = Clients
  BY DEF RateInv, RateTypeOK
<1>2. \A d \in Clients \ {c} : q.held \cap login[d].held = {}
  BY DEF RateInv, RateTypeOK, IsFree
<1>3. q.held \cap pruned = {}
  BY DEF RateInv, RateTypeOK, IsFree
<1>4. \A d \in Clients : login'[d] # NoLogin => LoginOK(login'[d])
  BY <1>1 DEF RateInv, RateTypeOK, LoginOK
<1>5. /\ \A d, e \in Clients : d # e => login'[d].held \cap login'[e].held = {}
      /\ \A d \in Clients : login'[d].held \cap pruned = {}
  BY <1>1, <1>2, <1>3 DEF RateInv, RateTypeOK
<1>6. RateTypeOK'
  BY <1>1, <1>4, <1>5 DEF RateInv, RateTypeOK, LoginOK, Expired
<1>7. OpenBuckets'
  BY <1>1 DEF RateInv, OpenBuckets, Seen
<1>8. FailuresAreCovered'
  BY DEF RateInv, FailuresAreCovered
<1> QED BY <1>6, <1>7, <1>8 DEF RateInv

LEMMA BeginLoginKeepsInv ==
  ASSUME RateInv, NEW c \in Clients, NEW ip \in Ips, NEW email \in Emails, BeginLogin(c, ip, email)
  PROVE  RateInv'
<1> DEFINE q == [pc |-> "findIp", ip |-> ip, email |-> email, held |-> {}]
<1>1. login' = [login EXCEPT ![c] = q] /\ UNCHANGED <<bucket, pruned, failures>>
  BY DEF BeginLogin
<1>2. q.pc = "findIp" /\ q.held = {} /\ LoginOK(q)
  BY DEF LoginOK, LoginPhases
<1> HIDE DEF q
<1> QED BY <1>1, <1>2, LoginMoves

\* Where a bucket is wanted, it is the IP's or the account's.
LEMMA WantedBucket ==
  ASSUME RateInv, NEW c \in Clients, login[c].pc # "idle"
  PROVE  /\ Wanted(c) \in Buckets
         /\ Wanted(c) = IF login[c].pc \in {"findIp", "lockIp"} THEN login[c].ip ELSE login[c].email
BY LoginFields DEF RateInv, Wanted

LEMMA FindBucketKeepsInv ==
  ASSUME RateInv, NEW c \in Clients, FindBucket(c)
  PROVE  RateInv'
<1> DEFINE p == login[c]
           b == Wanted(c)
           q == [p EXCEPT !.pc = IF @ = "findIp" THEN "lockIp" ELSE "lockAccount",
                          !.held = IF bucket[b] = NoBucket THEN @ \cup {b} ELSE @]
<1>1. /\ p.pc \in {"findIp", "findAccount"} /\ ~IsWaiting(c)
      /\ UNCHANGED <<bucket, pruned, failures>>
  BY DEF FindBucket
<1>2. login' = [login EXCEPT ![c] = q]
  BY DEF FindBucket, RateInv, RateTypeOK
<1>3. LoginOK(p) /\ b \in Buckets /\ b = IF p.pc = "findIp" THEN p.ip ELSE p.email
  BY <1>1, LoginIsOK, WantedBucket DEF RateInv
<1>4. /\ q.ip = p.ip /\ q.email = p.email
      /\ q.pc = IF p.pc = "findIp" THEN "lockIp" ELSE "lockAccount"
      /\ q.held = IF bucket[b] = NoBucket THEN p.held \cup {b} ELSE p.held
      /\ q \in [pc : LoginPhases, ip : Ips, email : Emails, held : SUBSET Buckets]
  BY <1>1, <1>3 DEF LoginOK, LoginPhases
<1>5. bucket[b] = NoBucket => IsFree(b)
  BY <1>1 DEF IsWaiting
<1>6. p.pc = "findAccount" => ~Blocked(Seen(p.ip))
  BY DEF RateInv, OpenBuckets
<1> HIDE DEF q, b
<1>7. LoginOK(q)
  BY <1>1, <1>3, <1>4 DEF LoginOK
<1>8. \A a \in q.held : a \in login[c].held \/ IsFree(a)
  BY <1>4, <1>5
<1>9. /\ q.pc \in {"findAccount", "lockAccount", "verify"} => ~Blocked(Seen(q.ip))
      /\ q.pc # "verify"
  BY <1>1, <1>4, <1>6
<1> HIDE DEF p
<1> QED BY <1>1, <1>2, <1>7, <1>8, <1>9, LoginMoves

\* The buckets a login holds may be written when it ends.
LEMMA LoginWrites ==
  ASSUME RateInv, NEW c \in Clients, login[c].pc # "idle", login' = [login EXCEPT ![c] = NoLogin],
         UNCHANGED pruned,
         NEW held \in SUBSET Buckets, \A b \in held : b \in login[c].held \/ IsFree(b),
         bucket' \in [Buckets -> BucketType \cup {NoBucket}],
         \A b \in Buckets \ held : bucket'[b] = bucket[b],
         FailuresAreCovered'
  PROVE  RateInv'
<1>1. /\ login'[c] = NoLogin /\ \A d \in Clients \ {c} : login'[d] = login[d]
      /\ DOMAIN login' = Clients
  BY DEF RateInv, RateTypeOK
<1>2. \A d \in Clients \ {c} : login[d].held \cap held = {}
  BY DEF RateInv, RateTypeOK, IsFree
<1>3. held \cap pruned = {}
  BY DEF RateInv, RateTypeOK, IsFree
<1>4. RateTypeOK'
  <2>1. pruned' \in SUBSET {b \in Buckets : Expired(b)'}
    BY <1>3 DEF RateInv, RateTypeOK, Expired
  <2>2. /\ \A d, e \in Clients : d # e => login'[d].held \cap login'[e].held = {}
        /\ \A d \in Clients : login'[d].held \cap pruned' = {}
    BY <1>1, NoLoginFields DEF RateInv, RateTypeOK
  <2>3. \A i \in Ips : failures'[i] \in Seq(0 .. Window - 1)
    BY DEF FailuresAreCovered
  <2> QED BY <1>1, <2>1, <2>2, <2>3 DEF RateInv, RateTypeOK
<1>5. OpenBuckets'
  <2> SUFFICES ASSUME NEW d \in Clients
               PROVE  /\ login'[d].pc \in {"findAccount", "lockAccount", "verify"} => ~Blocked(Seen(login[d].ip)')
                      /\ login'[d].pc = "verify" => ~Blocked(Seen(login[d].email)')
    BY DEF OpenBuckets, Blocked
  <2>1. CASE d = c
    BY <1>1, <2>1, NoLoginFields
  <2>2. CASE d # c /\ login[d].pc \in {"findAccount", "lockAccount", "verify"}
    <3>1. LoginOK(login[d]) /\ login[d].ip \in Buckets /\ login[d].email \in Buckets
      BY <2>2, LoginIsOK, LoginFields DEF RateInv
    <3>2. /\ login[d].ip \in login[d].held
          /\ login[d].pc = "verify" => login[d].email \in login[d].held
      BY <2>2, <3>1 DEF LoginOK
    <3>3. /\ bucket'[login[d].ip] = bucket[login[d].ip]
          /\ login[d].pc = "verify" => bucket'[login[d].email] = bucket[login[d].email]
      BY <1>2, <2>2, <3>1, <3>2
    <3> QED BY <1>1, <2>2, <3>3 DEF RateInv, OpenBuckets, Seen
  <2> QED BY <1>1, <2>1, <2>2
<1> QED BY <1>4, <1>5 DEF RateInv

LEMMA LockBucketKeepsInv ==
  ASSUME RateInv, NEW c \in Clients, LockBucket(c)
  PROVE  RateInv'
<1> DEFINE p == login[c]
           b == Wanted(c)
           held == p.held \cup {b}
<1>1. /\ p.pc \in {"lockIp", "lockAccount"} /\ ~IsWaiting(c)
      /\ UNCHANGED <<pruned, failures>>
  BY DEF LockBucket
<1>2. LoginOK(p) /\ b \in Buckets /\ b = IF p.pc = "lockIp" THEN p.ip ELSE p.email
  BY <1>1, LoginIsOK, WantedBucket DEF RateInv
<1>3. b \in p.held \/ IsFree(b)
  BY <1>1 DEF IsWaiting
<1>4. held \in SUBSET Buckets /\ \A a \in held : a \in login[c].held \/ IsFree(a)
  BY <1>2, <1>3 DEF LoginOK
<1>5. CASE Blocked(Seen(b))
  <2>1. /\ bucket' = [a \in Buckets |-> IF a \in held THEN Seen(a) ELSE bucket[a]]
        /\ login' = [login EXCEPT ![c] = NoLogin]
    BY <1>5 DEF LockBucket
  <2> HIDE DEF held
  <2>2. /\ bucket' \in [Buckets -> BucketType \cup {NoBucket}]
        /\ \A a \in Buckets \ held : bucket'[a] = bucket[a]
        /\ \A a \in held : bucket'[a] = Seen(a) /\ bucket'[a] # NoBucket
    BY <1>4, <2>1, SeenType, RateConstants DEF RateInv, RateTypeOK
  <2>3. FailuresAreCovered'
    <3> SUFFICES ASSUME NEW i \in Ips, Window <= Block
                 PROVE  IF bucket'[i] = NoBucket THEN failures[i] = <<>> ELSE Covers(bucket'[i], failures[i])
      BY <1>1 DEF RateInv, FailuresAreCovered
    <3>1. i \in Buckets
      BY DEF Buckets
    <3>2. CASE i \in held
      BY <2>2, <3>1, <3>2, SeenType
    <3>3. CASE i \notin held
      BY <2>2, <3>1, <3>3 DEF RateInv, FailuresAreCovered
    <3> QED BY <3>2, <3>3
  <2>4. p.pc # "idle"
    BY <1>1
  <2> HIDE DEF p
  <2> QED BY <1>1, <1>4, <2>1, <2>2, <2>3, <2>4, LoginWrites DEF p
<1>6. CASE ~Blocked(Seen(b))
  <2> DEFINE q == [p EXCEPT !.pc = IF @ = "lockIp" THEN "findAccount" ELSE "verify", !.held = held]
  <2>1. login' = [login EXCEPT ![c] = q] /\ UNCHANGED <<bucket, pruned, failures>>
    <3>1. /\ login' = [login EXCEPT ![c].pc = IF @ = "lockIp" THEN "findAccount" ELSE "verify", ![c].held = held]
          /\ UNCHANGED bucket
      BY <1>6 DEF LockBucket
    <3>2. c \in DOMAIN login
      BY DEF RateInv, RateTypeOK
    <3> HIDE DEF held
    <3> QED BY <1>1, <3>1, <3>2
  <2>2. /\ q.ip = p.ip /\ q.email = p.email
        /\ q.pc = IF p.pc = "lockIp" THEN "findAccount" ELSE "verify"
        /\ q.held = held
        /\ q \in [pc : LoginPhases, ip : Ips, email : Emails, held : SUBSET Buckets]
    BY <1>2, <1>4 DEF LoginOK, LoginPhases
  <2>3. p.pc = "lockAccount" => ~Blocked(Seen(p.ip))
    BY DEF RateInv, OpenBuckets
  <2> HIDE DEF q
  <2>4. LoginOK(q)
    BY <1>1, <1>2, <2>2 DEF LoginOK
  <2>5. /\ q.pc \in {"findAccount", "lockAccount", "verify"} => ~Blocked(Seen(q.ip))
        /\ q.pc = "verify" => ~Blocked(Seen(q.email))
    BY <1>1, <1>2, <1>6, <2>2, <2>3
  <2> HIDE DEF p, b, held
  <2> QED BY <1>4, <2>1, <2>2, <2>4, <2>5, LoginMoves
<1> QED BY <1>5, <1>6

LEMMA LoginEnds ==
  ASSUME RateInv, NEW c \in Clients, login' = [login EXCEPT ![c] = NoLogin],
         UNCHANGED <<bucket, pruned, failures>>
  PROVE  RateInv'
BY NoLoginFields, LoginMoves

LEMMA VerifyFailsKeepsInv ==
  ASSUME RateInv, NEW c \in Clients, VerifyFails(c)
  PROVE  RateInv'
<1> DEFINE ip == login[c].ip
           held == login[c].held
<1>1. /\ login[c].pc = "verify"
      /\ bucket' = [b \in Buckets |-> IF b \in held THEN Failed(Seen(b)) ELSE bucket[b]]
      /\ failures' = [failures EXCEPT ![ip] = Append(@, 0)]
      /\ login' = [login EXCEPT ![c] = NoLogin]
      /\ UNCHANGED pruned
  BY DEF VerifyFails
<1>2. LoginOK(login[c]) /\ ip # login[c].email /\ held \in SUBSET Buckets
      /\ held = {ip, login[c].email} /\ ip \in Ips /\ login[c].email \in Emails
  BY <1>1, LoginIsOK, LoginFields DEF RateInv, LoginOK
<1>3. \A b \in held : ~Blocked(Seen(b))
  BY <1>1, <1>2 DEF RateInv, OpenBuckets
<1>4. \A b \in held : /\ Seen(b) \in BucketType /\ Seen(b).block = Never /\ Seen(b).attempts < Limit
                      /\ Failed(Seen(b)) \in BucketType
  BY <1>2, <1>3, SeenType, FailedType
<1>5. /\ bucket' \in [Buckets -> BucketType \cup {NoBucket}]
      /\ \A a \in Buckets \ held : bucket'[a] = bucket[a]
      /\ \A a \in held : bucket'[a] = Failed(Seen(a)) /\ bucket'[a] # NoBucket
  BY <1>1, <1>2, <1>4, RateConstants DEF RateInv, RateTypeOK
<1>6. FailuresAreCovered'
  <2> DEFINE more == Append(failures[ip], 0)
  <2>1. failures[ip] \in Ages /\ OldestFirst(failures[ip])
    BY <1>2 DEF RateInv, FailuresAreCovered, Ages
  <2>2. more \in Seq(0 .. Window - 1) /\ OldestFirst(more)
    BY <2>1, AppendedAges DEF Ages
  <2>3. Window <= Block => Covers(bucket'[ip], more)
    <3> HIDE DEF ip, held, more
    <3>1. ip \in held /\ ip \in Buckets
      BY <1>2 DEF Buckets
    <3>2. Window <= Block => Covers(Seen(ip), failures[ip])
      BY <1>2, <3>1, SeenType
    <3> QED BY <1>4, <1>5, <2>1, <3>1, <3>2, FailedCovers DEF more
  <2> HIDE DEF ip, held, more
  <2>4. /\ failures'[ip] = more /\ \A i \in Ips \ {ip} : failures'[i] = failures[i]
        /\ failures' \in [Ips -> Seq(0 .. Window - 1)]
    BY <1>1, <1>2, <2>2 DEF RateInv, FailuresAreCovered, more
  <2>5. ip \in held /\ ip \in Buckets /\ bucket'[ip] # NoBucket
    BY <1>2, <1>5 DEF Buckets
  <2>6. \A i \in Ips \ {ip} : bucket'[i] = bucket[i]
    BY <1>2, <1>5, RateLimitAssumption DEF RateLimitAssumption, Buckets
  <2> QED BY <2>2, <2>3, <2>4, <2>5, <2>6 DEF RateInv, FailuresAreCovered
<1>7. \A b \in held : b \in login[c].held \/ IsFree(b)
  OBVIOUS
<1> HIDE DEF ip, held
<1> QED BY <1>1, <1>2, <1>5, <1>6, <1>7, LoginWrites

LEMMA VerifySucceedsKeepsInv ==
  ASSUME RateInv, NEW c \in Clients, VerifySucceeds(c)
  PROVE  RateInv'
<1> DEFINE ip == login[c].ip
           email == login[c].email
<1>1. /\ login[c].pc = "verify"
      /\ bucket' = [bucket EXCEPT ![email] = Fresh, ![ip] = Seen(ip)]
      /\ login' = [login EXCEPT ![c] = NoLogin]
      /\ UNCHANGED <<pruned, failures>>
  BY DEF VerifySucceeds
<1>2. /\ login[c].held = {ip, email} /\ ip # email
      /\ ip \in Ips /\ email \in Emails /\ ip \in Buckets /\ email \in Buckets
  BY <1>1, LoginIsOK, LoginFields DEF RateInv, LoginOK
<1> HIDE DEF ip, email
<1>3. Seen(ip) \in BucketType /\ Seen(ip) # NoBucket /\ (Window <= Block => Covers(Seen(ip), failures[ip]))
  BY <1>2, SeenType, RateConstants
<1>4. /\ bucket' \in [Buckets -> BucketType \cup {NoBucket}]
      /\ bucket'[ip] = Seen(ip)
      /\ \A b \in Buckets \ {ip, email} : bucket'[b] = bucket[b]
  BY <1>1, <1>2, <1>3, FreshFields DEF RateInv, RateTypeOK
<1>5. FailuresAreCovered'
  <2>1. \A i \in Ips \ {ip} : bucket'[i] = bucket[i]
    BY <1>2, <1>4, RateLimitAssumption DEF RateLimitAssumption, Buckets
  <2> QED BY <1>1, <1>3, <1>4, <2>1 DEF RateInv, FailuresAreCovered
<1> DEFINE held == {ip, email}
<1>6. /\ login[c].pc # "idle" /\ held \in SUBSET Buckets
      /\ \A b \in held : b \in login[c].held \/ IsFree(b)
  BY <1>1, <1>2
<1>7. \A b \in Buckets \ held : bucket'[b] = bucket[b]
  BY <1>4
<1> HIDE DEF held
<1> QED BY <1>1, <1>4, <1>5, <1>6, <1>7, LoginWrites

-----------------------------------------------------------------------------
(* RateLimit: pruning and time                                              *)

LEMMA BreakCycleKeepsInv ==
  ASSUME RateInv, NEW c \in Clients, BreakCycle(c)
  PROVE  RateInv'
<1>1. CASE login' = [login EXCEPT ![c] = NoLogin] /\ UNCHANGED pruned
  BY <1>1, LoginEnds DEF BreakCycle
<1>2. CASE pruned' = {} /\ UNCHANGED login
  <2>1. UNCHANGED <<bucket, failures>>
    BY DEF BreakCycle
  <2>2. RateTypeOK'
    BY <1>2, <2>1 DEF RateInv, RateTypeOK
  <2>3. OpenBuckets'
    BY <1>2, <2>1 DEF RateInv, OpenBuckets, Seen
  <2>4. FailuresAreCovered'
    BY <2>1 DEF RateInv, FailuresAreCovered
  <2> QED BY <2>2, <2>3, <2>4 DEF RateInv
<1> QED BY <1>1, <1>2 DEF BreakCycle

LEMMA PruneRowKeepsInv ==
  ASSUME RateInv, NEW b \in Buckets, PruneRow(b)
  PROVE  RateInv'
<1>1. /\ Expired(b) /\ \A c \in Clients : b \notin login[c].held
      /\ pruned' = pruned \cup {b} /\ UNCHANGED <<bucket, login, failures>>
  BY DEF PruneRow, IsFree
<1>2. RateTypeOK'
  <2>1. pruned' \in SUBSET {a \in Buckets : Expired(a)'}
    BY <1>1 DEF RateInv, RateTypeOK, Expired
  <2>2. \A c \in Clients : login'[c].held \cap pruned' = {}
    BY <1>1 DEF RateInv, RateTypeOK
  <2> QED BY <1>1, <2>1, <2>2 DEF RateInv, RateTypeOK
<1>3. OpenBuckets'
  BY <1>1 DEF RateInv, OpenBuckets, Seen
<1>4. FailuresAreCovered'
  BY <1>1 DEF RateInv, FailuresAreCovered
<1> QED BY <1>2, <1>3, <1>4 DEF RateInv

\* The rows go whose last failure is longer ago than any window.
LEMMA PruneCommitKeepsInv ==
  ASSUME RateInv, PruneCommit
  PROVE  RateInv'
<1>1. /\ bucket' = [b \in Buckets |-> IF b \in pruned THEN NoBucket ELSE bucket[b]]
      /\ pruned' = {} /\ UNCHANGED <<login, failures>>
  BY DEF PruneCommit
<1>2. RateTypeOK'
  <2>1. bucket' \in [Buckets -> BucketType \cup {NoBucket}]
    BY <1>1 DEF RateInv, RateTypeOK
  <2> QED BY <1>1, <2>1 DEF RateInv, RateTypeOK
<1>3. OpenBuckets'
  <2> SUFFICES ASSUME NEW c \in Clients, login[c].pc \in {"findAccount", "lockAccount", "verify"}
               PROVE  /\ ~Blocked(Seen(login[c].ip)')
                      /\ login[c].pc = "verify" => ~Blocked(Seen(login[c].email)')
    BY <1>1 DEF OpenBuckets, Blocked
  <2>1. LoginOK(login[c]) /\ login[c].ip \in Buckets /\ login[c].email \in Buckets
    BY LoginIsOK, LoginFields DEF RateInv
  <2>2. /\ login[c].ip \notin pruned
        /\ login[c].pc = "verify" => login[c].email \notin pruned
    BY <2>1 DEF LoginOK, RateInv, RateTypeOK
  <2>3. /\ bucket'[login[c].ip] = bucket[login[c].ip]
        /\ login[c].pc = "verify" => bucket'[login[c].email] = bucket[login[c].email]
    BY <1>1, <2>1, <2>2
  <2> QED BY <1>1, <2>3 DEF RateInv, OpenBuckets, Seen
<1>4. FailuresAreCovered'
  <2>1. ASSUME NEW i \in Ips, Window <= Block, i \in pruned PROVE failures[i] = <<>>
    <3>1. bucket[i] \in BucketType /\ bucket[i] # NoBucket /\ bucket[i].idle > Retention
      BY <2>1, RateConstants DEF RateInv, RateTypeOK, Expired
    <3>2. Covers(bucket[i], failures[i]) /\ failures[i] \in Ages
      BY <2>1, <3>1 DEF RateInv, FailuresAreCovered, Ages
    <3>3. ~(1 \in 1 .. Len(failures[i]))
      <4> SUFFICES ASSUME 1 \in 1 .. Len(failures[i]) PROVE FALSE
        OBVIOUS
      <4>1. failures[i][1] >= bucket[i].idle
        BY <3>2 DEF Covers
      <4>2. failures[i][1] \in Nat /\ failures[i][1] < Window
        BY <3>2, AgesFields
      <4>3. bucket[i].idle \in Nat
        BY <3>1, BucketFields
      <4> QED BY <3>1, <4>1, <4>2, <4>3, RateConstants
    <3>4. Len(failures[i]) = 0
      BY <3>2, <3>3, AgesFields
    <3> QED BY <3>2, <3>4, EmptySeq DEF Ages
  <2>2. \A i \in Ips : i \in Buckets
    BY DEF Buckets
  <2> QED BY <1>1, <2>1, <2>2 DEF RateInv, FailuresAreCovered
<1> QED BY <1>2, <1>3, <1>4 DEF RateInv

LEMMA TickKeepsInv ==
  ASSUME RateInv, Tick
  PROVE  RateInv'
<1>1. /\ pruned = {} /\ \A c \in Clients : login[c].held = {}
      /\ bucket' = [b \in Buckets |-> IF bucket[b] = NoBucket THEN NoBucket ELSE Aged(bucket[b])]
      /\ failures' = [i \in Ips |-> WithinWindow([k \in DOMAIN failures[i] |-> failures[i][k] + 1])]
      /\ UNCHANGED <<login, pruned>>
  BY DEF Tick
<1>2. \A b \in Buckets : IF bucket[b] = NoBucket THEN bucket'[b] = NoBucket
                         ELSE bucket[b] \in BucketType /\ bucket'[b] = Aged(bucket[b]) /\ bucket'[b] \in BucketType
  BY <1>1, AgedType DEF RateInv, RateTypeOK
<1>3. \A i \in Ips : /\ failures'[i] \in Ages /\ OldestFirst(failures'[i])
                     /\ failures[i] = <<>> => failures'[i] = <<>>
                     /\ \A b \in BucketType : Covers(b, failures[i]) => Covers(Aged(b), failures'[i])
  <2> SUFFICES ASSUME NEW i \in Ips
               PROVE  /\ failures'[i] \in Ages /\ OldestFirst(failures'[i])
                      /\ failures[i] = <<>> => failures'[i] = <<>>
                      /\ \A b \in BucketType : Covers(b, failures[i]) => Covers(Aged(b), failures'[i])
    OBVIOUS
  <2>1. failures[i] \in Ages /\ OldestFirst(failures[i])
    BY DEF RateInv, FailuresAreCovered, Ages
  <2>2. failures'[i] = WithinWindow([k \in DOMAIN failures[i] |-> failures[i][k] + 1])
    BY <1>1
  <2> QED BY <2>1, <2>2, AgedCovers
<1>4. RateTypeOK'
  <2>1. bucket' \in [Buckets -> BucketType \cup {NoBucket}]
    BY <1>1, <1>2
  <2>2. \A i \in Ips : failures'[i] \in Seq(0 .. Window - 1)
    BY <1>3 DEF Ages
  <2>3. \A c \in Clients : login'[c].held = {} /\ pruned' = {}
    BY <1>1
  <2> QED BY <1>1, <2>1, <2>2, <2>3 DEF RateInv, RateTypeOK
<1>5. OpenBuckets'
  <2>1. \A c \in Clients : login[c].pc \notin {"findAccount", "lockAccount", "verify"}
    <3> SUFFICES ASSUME NEW c \in Clients, login[c].pc \in {"findAccount", "lockAccount", "verify"} PROVE FALSE
      OBVIOUS
    <3>1. LoginOK(login[c])
      BY LoginIsOK DEF RateInv
    <3> QED BY <1>1, <3>1 DEF LoginOK
  <2> QED BY <1>1, <2>1 DEF OpenBuckets
<1>6. FailuresAreCovered'
  <2>1. failures' \in [Ips -> Seq(0 .. Window - 1)]
    BY <1>1, <1>3 DEF Ages
  <2>2. \A i \in Ips : i \in Buckets
    BY DEF Buckets
  <2> QED BY <1>2, <1>3, <2>1, <2>2, RateConstants DEF RateInv, FailuresAreCovered
<1> QED BY <1>4, <1>5, <1>6 DEF RateInv

LEMMA RateStep ==
  ASSUME RateInv, [RateNext]_rateVars
  PROVE  RateInv'
<1>1. CASE UNCHANGED rateVars
  <2>1. RateTypeOK'
    BY <1>1 DEF RateInv, RateTypeOK, Expired, rateVars
  <2>2. OpenBuckets' /\ FailuresAreCovered'
    BY <1>1 DEF RateInv, OpenBuckets, FailuresAreCovered, Seen, rateVars
  <2> QED BY <2>1, <2>2 DEF RateInv
<1>2. ASSUME NEW c \in Clients, LoginStep(c) \/ BreakCycle(c)
      PROVE  RateInv'
  <2>1. CASE BucketGone(c)
    BY <2>1, LoginEnds DEF BucketGone
  <2> QED BY <1>2, <2>1, FindBucketKeepsInv, LockBucketKeepsInv, VerifyFailsKeepsInv,
             VerifySucceedsKeepsInv, BreakCycleKeepsInv DEF LoginStep
<1> QED BY <1>1, <1>2, BeginLoginKeepsInv, PruneRowKeepsInv, PruneCommitKeepsInv, TickKeepsInv DEF RateNext

\* However the logins of all clients interleave with each other, with the
\* pruning script and with time, no bucket counts past the limit, no bucket is
\* locked twice, and who checks a password holds both buckets.
THEOREM RateTypeCorrect == RateSpec => []RateTypeOK
<1>1. RateInv => RateTypeOK
  BY DEF RateInv
<1> QED BY <1>1, RateStart, RateStep, PTL DEF RateSpec

\* One IP fails at most twice the limit within a window, for every limit,
\* window and block no shorter than it, whatever else the clients do.
THEOREM FailureLimit == RateSpec => []FailuresAreLimited
<1>1. RateInv => FailuresAreLimited
  <2> SUFFICES ASSUME RateInv, Window <= Block, NEW i \in Ips PROVE Len(failures[i]) <= 2 * Limit
    BY DEF FailuresAreLimited
  <2>1. CASE bucket[i] = NoBucket
    <3>1. failures[i] = <<>>
      BY <2>1 DEF RateInv, FailuresAreCovered
    <3> QED BY <3>1, RateConstants
  <2>2. CASE bucket[i] # NoBucket
    <3>1. bucket[i] \in BucketType
      BY <2>2 DEF RateInv, RateTypeOK, Buckets
    <3>2. Len(failures[i]) <= bucket[i].attempts + Limit /\ failures[i] \in Ages
      BY <2>2 DEF RateInv, FailuresAreCovered, Covers, Ages
    <3> QED BY <3>1, <3>2, AgesFields, BucketFields, RateConstants
  <2> QED BY <2>1, <2>2
<1> QED BY <1>1, RateStart, RateStep, PTL DEF RateSpec
=============================================================================
