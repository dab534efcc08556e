CONSTANTS
  w1 = w1
  w2 = w2
  board = board
  cli = cli
  Workers = {w1, w2}
  Owners = {board, cli}
  OwnerOf <- DistinctOwners
  NoOwner = NoOwner
  t1 = t1
  t2 = t2
  Tasks = {t1}
  NoTask = NoTask
  Leases = {1, 2}
  Outcomes = {"done"}
  MaxClock = 2
  MaxToken = 2
SPECIFICATION FairSpec
INVARIANTS FenceHolds JournalEndsAreTrue
PROPERTIES NoTheft AbandonedIsReclaimed
