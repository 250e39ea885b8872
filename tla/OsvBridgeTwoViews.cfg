SPECIFICATION Spec
CONSTANTS
  View = {v1, v2}
  Origin = {o1, o2}
  Blank = Blank
  MaxToRenderer = 2
  MaxReceived = 1
  MaxToBrowser = 2
INVARIANT CallbackGetsSendersOrigin
CHECK_DEADLOCK FALSE
