SPECIFICATION FairSpec
CONSTANTS
  MaxRequests = 3
  MaxVersion = 2
  JournalFails = FALSE
INVARIANTS
  UpgradeRunsAlone
  DiskAgrees
  AnsweredOnce
  ServedInOrder
  NobodyIsForgotten
  ReleasedWhenUnused
PROPERTIES
  BlockedMeansWaiting
  ImplementsVersionLock
  EveryRequestAnswered
CHECK_DEADLOCK FALSE
