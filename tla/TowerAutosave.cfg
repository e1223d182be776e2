SPECIFICATION FairSpec
CONSTANTS
  MaxChain = 3
  Minting = {3}
  MaxSaves = 2
  MaxTrips = 1
  MaxFaults = 1
  MaxRetries = 2
INVARIANTS PillIsHonest
PROPERTIES NothingUnsentIsDropped DirtySettles
CHECK_DEADLOCK FALSE
