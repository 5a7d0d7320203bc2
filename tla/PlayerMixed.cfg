SPECIFICATION MixedSpec
CONSTANTS
  s1 = s1
  s2 = s2
  c1 = c1
  c2 = c2
  k1 = k1
  k2 = k2
  None = None
  Sessions = {s1, s2}
  Cats = {c1, c2}
  Keys = {k1, k2}
  Values = {0, 1}
  DailyKeys = {"solve-one"}
  AttendanceCoins = 3
  DailyCoins <- MCDailyCoins
  MissionCoins = 2
  Deltas <- MCDeltas
  StartBalance = 2
  MaxVersion = 4
  MaxFlow = 7
  Calls = {"c1", "c2"}
  Browsers = {"b1", "b2"}
  HostBrowsers = {"b2"}
  Tokens = {"t1", "t2"}
  IsLocal = TRUE
  NoCookie = "none"
SYMMETRY Symmetry
INVARIANTS BalanceNeverInflated  LoggedOutStaysOut
PROPERTIES OneColumnAtATime  HiddenCatIsReplaced
