SPECIFICATION FairSpec
CONSTANTS
  MaxTransactions = 3
  Store = {s1, s2}
  kMaxStartedTransactions = 2
  MaxTasks = 1
  Incognito = FALSE
INVARIANTS
  NoWriterIsStranded
  AnsweredOnce
PROPERTY EveryTransactionEnds
CHECK_DEADLOCK FALSE
