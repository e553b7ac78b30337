SPECIFICATION Spec
CONSTANTS
  NoId = NoId
  Blank = NoId
  Messages <- TwoMessages
  Injects = {}
  Workers = {w}
  Receivers = {}
  Capacity = 4
  MaxMessages = 2
  Limit = 2
  MaxTime = 2
  MaxClears = 1
  MaxFailures = 0
  MaxStops = 0
INVARIANT ClearIsFinal
CHECK_DEADLOCK FALSE
