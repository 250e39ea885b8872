SPECIFICATION Spec
CONSTANTS
  Renderer = {r1, r2}
  Key = {k1, k2}
  Value = {1, 2}
  Absent = Absent
  Quota = 4
  MaxSize = 5
  MaxCalls = 3
SYMMETRY Symmetry
INVARIANTS
  CacheFollowsTheMap
  ReadsOwnWrites
  AnswersAreExpected
CHECK_DEADLOCK FALSE
