SPECIFICATION Spec
CONSTANTS
  Chats = {s1, s2}
  Summaries = {"CODING", "COMPANION", "GOAL"}
  SummaryOf <- MCSummaryOf
  MemoryLimit = 2
  OldMemories <- MCOld
  MaxClock = 7
  Blank = ""
  Clients = {s1, s2}
  Ips = {"ip1"}
  Emails = {"a", "b"}
  Window = 2
  Block = 2
  Limit = 2
  Retention = 2
  NoBucket = NoBucket
INVARIANT FailuresAreLimited
PROPERTIES StoringKeepsTheNewest EveryRequestEnds
