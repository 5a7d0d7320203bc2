SPECIFICATION UnitSpec
CONSTANTS
  s1 = s1
  s2 = s2
  c1 = c1
  c2 = c2
  k1 = k1
  k2 = k2
  None = None
  Sessions = {s1, s2}
  Cats = {c1}
  Keys = {k1}
  Values = {0, 1}
  DailyKeys = {}
  AttendanceCoins = 3
  DailyCoins <- MCDailyCoins
  MissionCoins = 2
  Deltas <- MCDeltas
  StartBalance = 2
  MaxVersion = 5
  MaxFlow = 5
  Requests = {s1, s2}
  Ips = {"ip1", "ip2"}
  Emails = {"a", "dev"}
  Hosts = {"h1"}
  OwnEmail <- MCOwnEmail
  DevEmail = "dev"
  Limit = 1
  NoOne = "none"
  Threads = {s1, s2}
  MaxConcurrency = 1
  CaseCount = 2
  Failures = {"WRONG_ANSWER", "TIMEOUT", "MEMORY_LIMIT", "SYSTEM_ERROR"}
  MaxLeft = 1
INVARIANTS BalanceIsExact RegistrationsAreLimited 
PROPERTIES VersionAdvances  EveryRequestEnds
