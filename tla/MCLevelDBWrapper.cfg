SPECIFICATION FairSpec
CONSTANTS
  k1 = k1
  k2 = k2
  Key <- MCKey
  Value = {1, 2}
  Absent = Absent
  Old <- MCOld
  MaxSize = 4
  MaxCalls = 2
  MaxUrges = 2
  MaxFaults = 1
INVARIANTS
  MetaMatchesData
  QuotaIsKept
PROPERTIES
  ImplementsStoredMap
  DiskCatchesUp
  CallsAreServed
