SPECIFICATION FairSpec
CONSTANTS
  u1 = u1
  u2 = u2
  h1 = h1
  h2 = h2
  r1 = r1
  r2 = r2
  ink = ink
  forest = forest
  sofa = sofa
  snack = snack
  None = None
  Users = {u1, u2}
  Handlers = {h1, h2}
  Requests = {r1, r2}
  Cats = {ink}
  Wallpapers = {forest}
  Furniture = {sofa}
  Consumables = {snack}
  Price <- MCPrice
  DrawCost <- MCDrawCost
  DuplicateCoins = 1
  Commands <- AllCommands
  StartBalance = 2
  StartQuantity <- MCStartQuantity
INVARIANTS TypeOK ExecutedExactlyOnce CatsAreNewOnce OnlyDrawsDeadlock
PROPERTIES CarriedOutOnce EveryCommandEnds
