SPECIFICATION FairSpec
CONSTANTS
  Posts = {p1}
  Pulls = {}
  Polls = {q1, q2}
  MsgIds = {NoId}
  NoId = NoId
  Clients = {c1}
  Nobody = Nobody
  Limit = 1
  MaxWait = 2
  FreshFor = 0
  MaxTime = 1
  MaxWipes = 1
  MaxFailures = 1
PROPERTIES PollsAnswered
CHECK_DEADLOCK FALSE
