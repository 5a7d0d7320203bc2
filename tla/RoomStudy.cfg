SPECIFICATION Spec
CONSTANTS
  p1 = p1
  t1 = t1
  f1 = f1
  r1 = r1
  r2 = r2
  sofa = sofa
  plant = plant
  paper = paper
  cat = cat
  None = None
  Furniture = {sofa, plant}
  Wallpapers = {paper}
  Floors = {}
  StarterCats = {cat}
  Sized = {sofa, plant}
  ItemWidth <- MCWidth
  ItemHeight <- MCHeight
  GridWidth = 2
  GridHeight = 2
  Ids = {p1}
  ForeignIds = {f1}
  StarterIds = {t1}
  StarterRow <- MCStarterRow
  StarterQuantity <- MCStarterQuantity
  Places <- MCPlaces
  Readers = {r1, r2}
  MaxOwned = 1
  NoRow = NoRow
  Tasks <- MCTasks
  ConceptOf <- MCConceptOf
  DifficultyOf <- MCDifficultyOf
  ProblemOf <- MCProblemOf
  TaskRank <- MCTaskRank
  ConceptRank <- MCConceptRank
  Shift <- MCShift
  PageSize = 2
  RecentTasks = 1
  RecentAnswers = 2
  MinAnswers = 1
  WeakMax = 50
  HasChoice = {1}
  Opened = {1, 3}
  Retirable = {2}
  Required <- MCRequired
  Percent <- MCPercent
  MaxAttempts = 3
  MaxPresentations = 2
  LastDay = 2
SYMMETRY Symmetry
INVARIANTS RoomIsConsistent AnswersAreTrue  PageIsDue
PROPERTIES CommandsKeepCellsApart  
