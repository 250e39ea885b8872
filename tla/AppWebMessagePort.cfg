SPECIFICATION FairSpec
CONSTANTS
  MaxMessages = 3
  MaxQueued = 1
  Undecodable = {2}
  Callbacks = {TRUE}
  ReentrantCalls = {"close"}
INVARIANTS
  NativeOutlivesItsUsers
  NoLostWakeup
  NoLockCycle
PROPERTIES
  ImplementsPortDelivery
  MessagesAreRead
  CloseReturns
CHECK_DEADLOCK FALSE
