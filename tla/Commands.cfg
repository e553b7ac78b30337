SPECIFICATION FairSpec
CONSTANTS
  Calls = {c1, c2}
  Shell = {c1}
  Ids = {i1}
  None = None
  Requests = {k1}
  Capacity = 1
  MaxLineEvents = 2
  Kept <- KeptLines
  MaxLines <- Lines
  MaxFaults = 1
CONSTRAINT FewDisturbances
INVARIANTS TypeOK FinalTellsTruth StreamIsWhole RegistryTracks
PROPERTIES CancelStops StreamEnds ProducerEnds
CHECK_DEADLOCK FALSE
