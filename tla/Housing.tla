------------------------------ MODULE Housing ------------------------------
(****************************************************************************)
(* One player's room: furniture placements, wallpaper and floor, and what   *)
(* the snapshot of the game shows of them (src/app/modules/housing,         *)
(* game/router.py, game/bootstrap.py, game/service.py and the triggers of   *)
(* the migrations).                                                         *)
(*                                                                          *)
(* Every housing command holds the player's row from its first statement to *)
(* its commit, so it is one step.  The snapshot takes no lock: it grants    *)
(* the starter pack, and reads assets and placements, in separate steps.    *)
(* Operators named Faulty... are plausible bugs no specification uses.      *)
(****************************************************************************)
EXTENDS Integers, FiniteSets

CONSTANTS
  Furniture, Wallpapers, Floors,  \* shop items by category
  StarterCats,                    \* cats of the starter pack, which nobody owns before
  Sized,                          \* furniture the catalogue gives a size
  ItemWidth, ItemHeight,          \* unrotated footprint of sized furniture
  GridWidth, GridHeight,          \* ROOM_GRID_WIDTH, ROOM_GRID_HEIGHT
  Ids, ForeignIds,                \* placement ids: of this player, of others
  StarterIds, StarterRow,         \* rows of STARTER_PLACEMENTS
  StarterQuantity,                \* STARTER_CAT_KEYS and STARTER_ITEM_QUANTITIES
  Places,                         \* positions that clients ask for
  Readers,                        \* snapshot requests in flight
  MaxOwned,                       \* bound: no item is bought beyond this quantity
  None

Items == Furniture \cup Wallpapers \cup Floors
Assets == Items \cup StarterCats

\* The footprint of an object and the room that it is to fit into.
Extent(row) ==
  IF row.at.turn = 1 THEN [w |-> ItemHeight[row.item], h |-> ItemWidth[row.item]]
                     ELSE [w |-> ItemWidth[row.item], h |-> ItemHeight[row.item]]

InsideRoom(row) ==
  /\ row.at.turn \in {0, 1}
  /\ row.at.x >= 0 /\ row.at.x + Extent(row).w <= GridWidth
  /\ row.at.y >= 0 /\ row.at.y + Extent(row).h <= GridHeight

Row == [item : Furniture, at : Places \cup {StarterRow[t].at : t \in StarterIds}]
Rows == Ids \cup StarterIds

ASSUME HousingAssumption ==
  /\ Sized \subseteq Furniture
  /\ ItemWidth \in [Sized -> Nat \ {0}] /\ ItemHeight \in [Sized -> Nat \ {0}]
  /\ GridWidth \in Nat /\ GridHeight \in Nat /\ MaxOwned \in Nat
  /\ Places \subseteq [x : Int, y : Int, turn : Int]
  /\ StarterRow \in [StarterIds -> [item : Furniture, at : [x : Int, y : Int, turn : Int]]]
  /\ StarterQuantity \in [DOMAIN StarterQuantity -> Nat \ {0}]
  /\ DOMAIN StarterQuantity \subseteq Assets
  /\ ForeignIds \cap Rows = {} /\ Ids \cap StarterIds = {}
  /\ StarterCats # {} /\ StarterCats \subseteq DOMAIN StarterQuantity
  /\ IsFiniteSet(Rows)
  /\ \A t \in StarterIds : StarterRow[t].item \in Sized => InsideRoom(StarterRow[t])
  /\ None \notin Row \cup Items

VARIABLES
  owned,    \* assets: quantity of each item and cat
  placed,   \* placed_objects
  surface,  \* users.wallpaper_item_id and floor_item_id
  starter,  \* users.starter_pack_version is current
  told,     \* per id, the placement the client was last told of
  reply,    \* the last answer of a router
  reader    \* what each snapshot request has read

housingVars == <<owned, placed, surface, starter, told, reply, reader>>

HousingIdle == [pc |-> "idle"]

HousingInit ==
  /\ owned = [a \in Assets |-> 0]
  /\ placed = [i \in Rows |-> None]
  /\ surface = [wallpaper |-> None, floor |-> None]
  /\ starter = FALSE
  /\ told = [i \in Ids |-> None]
  /\ reply = [via |-> "game", status |-> 200]
  /\ reader = [s \in Readers |-> HousingIdle]

-----------------------------------------------------------------------------
(* Geometry                                                                 *)

FaultyOverlaps(a, b) == a.at.x = b.at.x /\ a.at.y = b.at.y  \* compares corners only
Overlaps(a, b) ==
  /\ a.at.x < b.at.x + Extent(b).w /\ b.at.x < a.at.x + Extent(a).w
  /\ a.at.y < b.at.y + Extent(b).h /\ b.at.y < a.at.y + Extent(a).h

PlacedOf(item) == {i \in Rows : placed[i] # None /\ placed[i].item = item}

\* _ensure_placement_free: what it says of a row that is to stand at id.
PlacementFree(row, id) ==
  IF row.item \notin Sized THEN "done"
  ELSE IF ~InsideRoom(row) THEN "outside"
  ELSE IF \E i \in Rows \ {id} :
            placed[i] # None /\ placed[i].item \in Sized /\ Overlaps(row, placed[i])
       THEN "occupied" ELSE "done"

\* trg_placed_objects_validate_inventory, after the rows of an item changed.
FaultyInventoryTrigger(rows, assets, item) == TRUE
InventoryTrigger(rows, assets, item) ==
  item \in Furniture /\ Cardinality({i \in Rows : rows[i] # None /\ rows[i].item = item}) <= assets[item]

\* trg_users_validate_surface_asset.
SurfaceTrigger(s) ==
  /\ s.wallpaper # None => s.wallpaper \in Wallpapers /\ owned[s.wallpaper] > 0
  /\ s.floor # None => s.floor \in Floors /\ owned[s.floor] > 0

-----------------------------------------------------------------------------
(* Answers of the two routers                                               *)

\* /game: _http_error knows every refusal of a command.
GameStatus(outcome) ==
  CASE outcome \in {"done", "same"} -> 200
    [] outcome = "missing" -> 404
    [] outcome \in {"conflict", "occupied", "limit"} -> 409
    [] outcome \in {"outside", "category"} -> 422
    [] OTHER -> 500

\* /housing: what no handler catches reaches the middleware of main.py.
HousingStatus(outcome) ==
  CASE outcome \in {"done", "same"} -> 200
    [] outcome = "missing" -> 404
    [] outcome = "limit" -> 409
    [] outcome = "category" -> 422
    [] OTHER -> 500

Answer(via, outcome) ==
  reply' = [via |-> via,
            status |-> IF via = "game" THEN GameStatus(outcome) ELSE HousingStatus(outcome)]

-----------------------------------------------------------------------------
(* Commands                                                                 *)

\* place_furniture, up to its insert.
FaultyPlaceOutcome(id, item, at) ==  \* a known id is taken for a repetition
  IF item \notin Furniture THEN "category"
  ELSE IF id \in ForeignIds THEN "conflict"
  ELSE IF placed[id] # None THEN "same"
  ELSE IF owned[item] = 0 THEN "missing"
  ELSE IF Cardinality(PlacedOf(item)) >= owned[item] THEN "limit"
  ELSE PlacementFree([item |-> item, at |-> at], id)
PlaceOutcome(id, item, at) ==
  IF item \notin Furniture THEN "category"
  ELSE IF id \in ForeignIds THEN "conflict"
  ELSE IF placed[id] # None
       THEN IF placed[id] = [item |-> item, at |-> at] THEN "same" ELSE "conflict"
  ELSE IF owned[item] = 0 THEN "missing"
  ELSE IF Cardinality(PlacedOf(item)) >= owned[item] THEN "limit"
  ELSE PlacementFree([item |-> item, at |-> at], id)

\* The trigger may reject the row that the command was about to write.
Stored(outcome, id, row) ==
  IF outcome = "done" /\ ~InventoryTrigger([placed EXCEPT ![id] = row], owned, row.item)
  THEN "failed" ELSE outcome

\* /game names the new row, /housing leaves the name to the database.
PlaceFurniture(via, id, item, at) ==
  LET row == [item |-> item, at |-> at]
      outcome == Stored(PlaceOutcome(id, item, at), id, row) IN
  /\ via = "housing" => id \in Ids /\ placed[id] = None
  /\ Answer(via, outcome)
  /\ placed' = IF outcome = "done" THEN [placed EXCEPT ![id] = row] ELSE placed
  /\ told' = IF outcome \in {"done", "same"} THEN [told EXCEPT ![id] = row] ELSE told
  /\ UNCHANGED <<owned, surface, starter, reader>>

MoveOutcome(id, at) ==
  IF id \in ForeignIds \/ placed[id] = None THEN "missing"
  ELSE PlacementFree([item |-> placed[id].item, at |-> at], id)

MoveFurniture(via, id, at) ==
  LET row == [item |-> placed[id].item, at |-> at]
      outcome == Stored(MoveOutcome(id, at), id, row) IN
  /\ Answer(via, outcome)
  /\ placed' = IF outcome = "done" THEN [placed EXCEPT ![id] = row] ELSE placed
  /\ told' = IF outcome = "done" /\ id \in Ids THEN [told EXCEPT ![id] = row] ELSE told
  /\ UNCHANGED <<owned, surface, starter, reader>>

RemoveFurniture(via, id) ==
  LET outcome == IF id \in ForeignIds \/ placed[id] = None THEN "missing" ELSE "done" IN
  /\ Answer(via, outcome)
  /\ placed' = IF outcome = "done" THEN [placed EXCEPT ![id] = None] ELSE placed
  /\ told' = IF outcome = "done" /\ id \in Ids THEN [told EXCEPT ![id] = None] ELSE told
  /\ UNCHANGED <<owned, surface, starter, reader>>

Painted(item) ==
  IF item \in Wallpapers THEN [surface EXCEPT !.wallpaper = item] ELSE [surface EXCEPT !.floor = item]

ApplySurface(via, item) ==
  LET outcome == IF item \in Furniture THEN "category"
                 ELSE IF owned[item] = 0 THEN "missing"
                 ELSE IF SurfaceTrigger(Painted(item)) THEN "done" ELSE "failed" IN
  /\ Answer(via, outcome)
  /\ surface' = IF outcome = "done" THEN Painted(item) ELSE surface
  /\ UNCHANGED <<owned, placed, starter, told, reader>>

ClearWallpaper ==
  /\ Answer("game", "done")
  /\ surface' = [surface EXCEPT !.wallpaper = None]
  /\ UNCHANGED <<owned, placed, starter, told, reader>>

\* A purchase or a draw adds to the quantity of an item (add_item_quantity).
ObtainItem(item) ==
  /\ owned[item] < (IF item \in Furniture THEN MaxOwned ELSE 1)
  /\ owned' = [owned EXCEPT ![item] = @ + 1]
  /\ UNCHANGED <<placed, surface, starter, told, reply, reader>>

-----------------------------------------------------------------------------
(* The snapshot                                                             *)

\* Authentication loads the row; bootstrap_starter_pack trusts that copy.
OpenSnapshot(s) ==
  /\ reader[s].pc = "idle"
  /\ reader' = [reader EXCEPT ![s] = [pc |-> IF starter THEN "assets" ELSE "starter"]]
  /\ UNCHANGED <<owned, placed, surface, starter, told, reply>>

\* What the player lacks; then, whether the room is empty.
LookForAssets(s) ==
  /\ reader[s].pc = "starter"
  /\ reader' = [reader EXCEPT ![s] =
       [pc |-> "lacking", lacks |-> {a \in DOMAIN StarterQuantity : owned[a] = 0}]]
  /\ UNCHANGED <<owned, placed, surface, starter, told, reply>>

LookForPlacements(s) ==
  /\ reader[s].pc = "lacking"
  /\ reader' = [reader EXCEPT ![s] =
       [pc |-> "grant", lacks |-> reader[s].lacks,
        empty |-> \A i \in Rows : placed[i] = None]]
  /\ UNCHANGED <<owned, placed, surface, starter, told, reply>>

Granted(lacks) == [a \in Assets |-> IF a \in lacks THEN StarterQuantity[a] ELSE owned[a]]
Furnished(empty) ==
  [i \in Rows |-> IF empty /\ i \in StarterIds THEN StarterRow[i] ELSE placed[i]]

\* The inserts succeed: nobody else inserted these assets, and the trigger
\* accepts each placement.  Nothing looks for objects placed meanwhile.
StarterFits(lacks, empty) ==
  /\ \A a \in lacks : owned[a] = 0
  /\ empty => \A t \in StarterIds :
       InventoryTrigger(Furnished(empty), Granted(lacks), StarterRow[t].item)

GrantStarter(s) ==
  LET r == reader[s] IN
  /\ r.pc = "grant"
  /\ IF StarterFits(r.lacks, r.empty)
     THEN /\ owned' = Granted(r.lacks)
          /\ placed' = Furnished(r.empty)
          /\ starter' = TRUE
          /\ reader' = [reader EXCEPT ![s] = [pc |-> "assets"]]
          /\ UNCHANGED reply
     ELSE /\ reply' = [via |-> "snapshot", status |-> 500]
          /\ reader' = [reader EXCEPT ![s] = HousingIdle]
          /\ UNCHANGED <<owned, placed, starter>>
  /\ UNCHANGED <<surface, told>>

\* Each SELECT sees what is committed when it runs.
ReadAssets(s) ==
  /\ reader[s].pc = "assets"
  /\ reader' = [reader EXCEPT ![s] = [pc |-> "placements", assets |-> [f \in Furniture |-> owned[f]]]]
  /\ UNCHANGED <<owned, placed, surface, starter, told, reply>>

ReadPlacements(s) ==
  /\ reader[s].pc = "placements"
  /\ reader' = [reader EXCEPT ![s] =
       [pc |-> "shown", assets |-> reader[s].assets,
        standing |-> [f \in Furniture |-> Cardinality(PlacedOf(f))]]]
  /\ UNCHANGED <<owned, placed, surface, starter, told, reply>>

ShowSnapshot(s) ==
  /\ reader[s].pc = "shown"
  /\ reader' = [reader EXCEPT ![s] = HousingIdle]
  /\ reply' = [via |-> "snapshot", status |-> 200]
  /\ UNCHANGED <<owned, placed, surface, starter, told>>

-----------------------------------------------------------------------------
HousingCommand ==
  \/ \E via \in {"game", "housing"} :
       \/ \E id \in Rows \cup ForeignIds, at \in Places :
            MoveFurniture(via, id, at)
       \/ \E id \in Ids \cup ForeignIds, item \in Items, at \in Places :
            PlaceFurniture(via, id, item, at)
       \/ \E id \in Rows \cup ForeignIds : RemoveFurniture(via, id)
       \/ \E item \in Items : ApplySurface(via, item)
  \/ ClearWallpaper

SnapshotStep(s) ==
  OpenSnapshot(s) \/ LookForAssets(s) \/ LookForPlacements(s) \/ GrantStarter(s)
  \/ ReadAssets(s) \/ ReadPlacements(s) \/ ShowSnapshot(s)

HousingNext ==
  HousingCommand \/ (\E item \in Items : ObtainItem(item)) \/ (\E s \in Readers : SnapshotStep(s))

HousingSpec == HousingInit /\ [][HousingNext]_housingVars

-----------------------------------------------------------------------------
(* Properties                                                               *)

\* Every variable has its type; what a snapshot request holds fits its stage,
\* and nobody is shown a game without the starter pack.
HousingTypeOK ==
  /\ owned \in [Assets -> Nat]
  /\ placed \in [Rows -> Row \cup {None}]
  /\ surface \in [wallpaper : Items \cup {None}, floor : Items \cup {None}]
  /\ starter \in BOOLEAN
  /\ told \in [Ids -> Row \cup {None}]
  /\ reply \in [via : {"game", "housing", "snapshot"}, status : {200, 404, 409, 422, 500}]
  /\ \A s \in Readers :
       \/ reader[s] \in [pc : {"idle", "starter", "assets"}]
       \/ reader[s] \in [pc : {"lacking"}, lacks : SUBSET DOMAIN StarterQuantity]
       \/ reader[s] \in [pc : {"grant"}, lacks : SUBSET DOMAIN StarterQuantity, empty : BOOLEAN]
       \/ reader[s] \in [pc : {"placements"}, assets : [Furniture -> Nat]]
       \/ reader[s] \in [pc : {"shown"}, assets : [Furniture -> Nat], standing : [Furniture -> Nat]]
  /\ DOMAIN reader = Readers
  /\ \A s \in Readers : reader[s].pc \in {"assets", "placements", "shown"} => starter

\* The cells of the room that an object stands on.
Cells(row) ==
  LET turned == row.at.turn = 1 IN
  {c \in (-1 .. GridWidth) \X (-1 .. GridHeight) :
     /\ c[1] \in row.at.x .. row.at.x - 1 + (IF turned THEN ItemHeight ELSE ItemWidth)[row.item]
     /\ c[2] \in row.at.y .. row.at.y - 1 + (IF turned THEN ItemWidth ELSE ItemHeight)[row.item]}
Shared(i, j) ==
  /\ i # j /\ placed[i] # None /\ placed[j] # None
  /\ placed[i].item \in Sized /\ placed[j].item \in Sized
  /\ Cells(placed[i]) \cap Cells(placed[j]) # {}

\* Whatever requests and grants overlap, there is no more furniture in the room
\* than is owned (docs/architecture/current-erd.md:337), on its wall and floor nothing that is
\* not, and what stands in it stands on its cells.
RoomIsConsistent ==
  /\ \A f \in Furniture : Cardinality(PlacedOf(f)) <= owned[f]
  /\ SurfaceTrigger(surface)
  /\ \A i \in Rows : placed[i] # None /\ placed[i].item \in Sized =>
       Cells(placed[i]) \subseteq (0 .. GridWidth - 1) \X (0 .. GridHeight - 1)

\* No command puts an object on cells that another one covers; only a starter
\* pack whose snapshot read the empty room before the command can
\* (game/router.py:160, "after authoritative bounds and collision checks").
CommandsKeepCellsApart ==
  [][(\A s \in Readers : reader[s].pc = "grant" => reader'[s] = reader[s]) =>
       \A i, j \in Rows : Shared(i, j)' => Shared(i, j)]_housingVars

\* What a client was last told of an object by a successful answer, repeated
\* requests included, is how the object stands; and the game's own router gives
\* every refused command a reason.
AnswersAreTrue ==
  /\ \A i \in Ids : told[i] = placed[i]
  /\ reply.via = "game" => reply.status # 500
=============================================================================
