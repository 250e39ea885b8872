SPECIFICATION Spec
CONSTANTS
  Database = {d1}
  Slot = {s1}
  Txn = {t1, t2}
  MaxKey = 3
  MaxHeld = 1
  NoBlob = NoBlob
  Faults = {}
INVARIANT UsedFilesExist
CHECK_DEADLOCK FALSE
