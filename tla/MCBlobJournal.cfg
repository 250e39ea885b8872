SPECIFICATION Spec
CONSTANTS
  Database = {d1}
  Slot = {s1, s2}
  Txn = {t1, t2}
  MaxKey = 3
  MaxHeld = 1
  NoBlob = NoBlob
  Faults = {"crash", "commit", "write", "remove", "journal"}
SYMMETRY Symmetry
INVARIANTS
  NamedFilesWhole
  FilesAreAccountedFor
  RegisteredFilesStay
PROPERTY ImplementsAtomicBlobs
CHECK_DEADLOCK FALSE
