SPECIFICATION FairSpec
CONSTANTS
  c1 = c1
  c2 = c2
  q1 = q1
  q2 = q2
  l1 = l1
  id1 = id1
  Conns = {c1, c2}
  Reqs = {q1, q2, l1}
  NoReq = NoReq
  ConnOf <- TwoConns
  Logins = {l1}
  ReqIds = {id1}
  IdOf <- SameId
  NoOwner = NoOwner
  Leaving = {c1}
  MaxTicks = 1
INVARIANTS HandlerInOnePlace OwnHandler NoStaleAnswer
CHECK_DEADLOCK FALSE
PROPERTY AnsweredUnlessMissed
