SPECIFICATION Spec
CONSTANTS
  k1 = k1
  k2 = k2
  Key <- MCKey
  Value = {1}
  Absent = Absent
  Old <- MCOld
  MaxSize = 4
  MaxCalls = 3
  MaxUrges = 0
  MaxFaults = 0
INVARIANT OldDatabaseIsDeleted
