SPECIFICATION FairSpec
CONSTANTS
  NoId = NoId
  Blank = NoId
  Messages <- WithRepeat
  Injects = {}
  Workers = {w}
  Receivers = {}
  Capacity = 4
  MaxMessages = 2
  Limit = 2
  MaxTime = 3
  MaxClears = 1
  MaxFailures = 1
  MaxStops = 1
INVARIANTS BannerOnce ClearedStaysCleared RecordedStays SeenWasRecorded
PROPERTY Delivered
CHECK_DEADLOCK FALSE
