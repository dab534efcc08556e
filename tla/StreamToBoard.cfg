CONSTANTS
  Writers = {w1, w2}
  Foreign = TRUE
  Capacity = 2
  Page = 2
  ReadFails = TRUE
  MaxHead = 5
SPECIFICATION FairSpec
INVARIANTS InOrder
PROPERTIES ImplementsFeed EventuallySeen
CHECK_DEADLOCK FALSE
