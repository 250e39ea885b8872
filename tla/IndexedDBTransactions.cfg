SPECIFICATION Spec
CONSTANTS
  MaxTransactions = 3
  Store = {s1, s2}
  kMaxStartedTransactions = 2
  MaxTasks = 1
  Incognito = TRUE
INVARIANTS
  WritersRunAlone
  NoLostUpdate
  SeesEarlierWriters
  NobodyIsForgotten
PROPERTY ImplementsScopeLocks
CHECK_DEADLOCK FALSE
