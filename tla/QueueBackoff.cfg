SPECIFICATION Spec
CONSTANTS
  Procs = {p1}
  NoStart = {}
  Contents = {c1}
  Nobody = Nobody
  NoFile = NoFile
  HasFcntl = TRUE
  BackoffBase = 1
  BackoffMax = 2
  MaxAge = 4
  PollMax = 1
  DedupTTL = 1
  LastEnqueue = 0
  MaxTime = 4
  MaxCrashes = 0
PROPERTIES RetryBacksOff
CHECK_DEADLOCK FALSE
