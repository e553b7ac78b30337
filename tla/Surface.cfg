SPECIFICATION SurfaceSpec
CONSTANTS
  NoId = NoId
  Blank = NoId
  Messages <- AllMessages
  Injects <- Tests
  Workers = {w}
  Receivers = {r}
  Capacity = 4
  MaxMessages = 2
  Limit = 2
  MaxTime = 2
  MaxClears = 1
  MaxFailures = 0
  MaxStops = 1
  Deployments = {"service", "own", "events", "writers"}
  Posted <- PostedIn
  MaxHalts = 2
INVARIANTS SurfaceTypeOK PublishedOnce ClickFinds InStep PageMissesNothing WorkerMissesNothing ClearedStaysAway
PROPERTY RefreshIsFresh
CHECK_DEADLOCK FALSE
