SPECIFICATION FairSpec
CONSTANTS
  Procs = {p1, p2}
  NoStart = {}
  Contents = {c1, c2}
  Nobody = Nobody
  NoFile = NoFile
  HasFcntl = TRUE
  BackoffBase = 1
  BackoffMax = 1
  MaxAge = 1
  PollMax = 1
  DedupTTL = 1
  LastEnqueue = 0
  MaxTime = 1
  MaxCrashes = 0
PROPERTIES QueueDrains
CHECK_DEADLOCK FALSE
