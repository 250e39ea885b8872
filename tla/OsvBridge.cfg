SPECIFICATION FairSpec
CONSTANTS
  View = {v1}
  Origin = {o1, o2}
  Blank = Blank
  MaxToRenderer = 2
  MaxReceived = 2
  MaxToBrowser = 2
INVARIANTS
  CallbackGetsSendersOrigin
  ReplyReachesRequester
PROPERTY DestroyedPageGoes
CHECK_DEADLOCK FALSE
