SPECIFICATION ApplicationsFairSpec
CONSTANTS
  Keys = {k1, k2}
  Pages = {p1,p2,p3,p4}
  NoPage = NoPage
  Statuses = {"Applied", "Interview"}
  Unlisted = "Collected"
  First = "Applied"
  MaxLocal = 1
  MaxRemote = 2
INVARIANTS PageHasOneRow
PROPERTIES Converges
CHECK_DEADLOCK FALSE
