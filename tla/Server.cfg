SPECIFICATION Spec
CONSTANTS
  Posts = {p1, p2, p3}
  Pulls = {g1}
  Polls = {q1, q2, q3}
  MsgIds = {m1, m2, NoId}
  NoId = NoId
  Clients = {c1, c2}
  Nobody = Nobody
  Limit = 2
  MaxWait = 1
  FreshFor = 0
  MaxTime = 1
  MaxWipes = 1
  MaxFailures = 1
SYMMETRY Symmetry
CONSTRAINT PullsOrPolls
INVARIANTS TypeOK AcceptedOnce DuplicateHasOriginal PullMissesFew OncePerClient MarkedIsReturned
CHECK_DEADLOCK FALSE
