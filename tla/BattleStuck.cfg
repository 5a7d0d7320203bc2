SPECIFICATION Spec
CONSTANTS
  p1 = p1
  p2 = p2
  p3 = p3
  t1 = t1
  a1 = a1
  a2 = a2
  a3 = a3
  None = None
  Players = {p1, p2}
  Host = p1
  Tasks = {t1}
  Attempts = {a1, a2}
  MaxParticipants = 2
  Score = 10
  Workers = 2
SYMMETRY Symmetry
CHECK_DEADLOCK FALSE
INVARIANT CompleteIsFinished
