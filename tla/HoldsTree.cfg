CONSTANTS
  a1 = a1
  a2 = a2
  alice = alice
  bob = bob
  Agents = {a1, a2}
  Owners = {alice, bob}
  OwnerOf <- DistinctOwners
  NoOwner = NoOwner
  Paths <- Nested
  Leases = {1}
  MaxClock = 2
SPECIFICATION Spec
INVARIANTS Exclusion GrantStands
