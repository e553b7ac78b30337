SPECIFICATION Spec
CONSTANTS
  Posts = {p1, p2}
  Pulls = {g1}
  Polls = {}
  MsgIds = {NoId}
  NoId = NoId
  Clients = {}
  Nobody = Nobody
  Limit = 2
  MaxWait = 1
  FreshFor = 0
  MaxTime = 0
  MaxWipes = 0
  MaxFailures = 0
INVARIANTS PullReturnsAll
CHECK_DEADLOCK FALSE
