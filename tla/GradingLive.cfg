SPECIFICATION FairSpec
CONSTANTS
  r1 = r1
  r2 = r2
  u1 = u1
  t1 = t1
  w1 = w1
  w2 = w2
  h1 = h1
  h2 = h2
  None = None
  Requests = {r1, r2}
  Users = {u1}
  Tasks = {t1}
  Workers = {w1, w2}
  Handlers = {h1}
  Payloads <- OptionPayloads
  Reward <- MCReward
  Lease = 1
  DayLength = 3
  MaxTime = 3
  CrashHorizon = 1
PROPERTY EveryAttemptDecided
