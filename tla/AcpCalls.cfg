CONSTANTS
  Callers = {c1, c2}
  Requests = {r1}
  Capacity = 1
  MaxCalls = 2
  MaxInbox = 2
  None = None
SPECIFICATION FairSpec
INVARIANTS NoOrphan ReplyIsOwn
PROPERTIES EndWakesAll
CHECK_DEADLOCK FALSE
