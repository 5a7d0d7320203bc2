SPECIFICATION Spec
CONSTANTS
  r1 = r1
  r2 = r2
  u1 = u1
  t1 = t1
  w1 = w1
  w2 = w2
  h1 = h1
  h2 = h2
  None = None
  Requests = {r1, r2}
  Users = {u1}
  Tasks = {t1}
  Workers = {w1}
  Handlers = {h1, h2}
  Payloads <- MixedPayloads
  Reward <- MCReward
  Lease = 1
  DayLength = 2
  MaxTime = 2
  CrashHorizon = 1
SYMMETRY Symmetry
INVARIANTS LeaseExclusive OneRewardPerDay BalanceIsLedger NoCorrectAnswerLost
PROPERTY ImplementsLedger
