SPECIFICATION FairSpec
CONSTANTS
  Exchanges <- Odd
  Qty = 2
  MaxEntries = 2
  MaxPolls = 1
  MaxFaults = 2
INVARIANTS TypeOK MissLeavesNothing
PROPERTIES AckIsTrue ProtectedWhileHeld FlattenSettles
