SPECIFICATION Spec
CONSTANTS
  Procs = {p1, p2}
  NoStart = {}
  Contents = {c1, c2}
  Nobody = Nobody
  NoFile = NoFile
  HasFcntl = TRUE
  BackoffBase = 3
  BackoffMax = 1
  MaxAge = 2
  PollMax = 1
  DedupTTL = 1
  LastEnqueue = 1
  MaxTime = 2
  MaxCrashes = 1
SYMMETRY Symmetry
INVARIANTS TypeOK SingleWorker NothingLost OneInflight ResentOnlyAfterDeath NeverRevived SkippedIsQueued
PROPERTIES DedupWindow ImplementsOutbox
CHECK_DEADLOCK FALSE
