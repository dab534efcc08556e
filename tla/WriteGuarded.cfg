CONSTANTS
  Requests = {r1}
  Deliveries = {d1, d2}
  Paths = {p1, p2}
  Contents = {c1, c2}
  Auths = {a1}
  Fails = TRUE
  MaxAcp = 2
  None = None
SPECIFICATION FairSpec
INVARIANTS AtMostOnce OkIsEarned
PROPERTIES RevokedIsRevoked Answered
CHECK_DEADLOCK FALSE
