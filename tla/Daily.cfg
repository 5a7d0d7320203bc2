SPECIFICATION Spec
CONSTANTS
  Sessions = {s1, s2}
  LastDate = 3
  TaskCount = 1
  NoSheet = NoSheet
INVARIANTS SheetsCanBePaid StreakNeverInflated
PROPERTIES OnePaymentADay EveryDailyRequestEnds
