SPECIFICATION FairSpec
CONSTANTS
  Sides <- ShortOnly
  MaxOrders = 1
  MaxSeq = 3
  MaxWire = 1
  MaxFaults = 2
INVARIANTS TypeOK
PROPERTIES EntersFlatAndArmed HaltNeedsOffOn ReceivedExitFlattens LostBeatsHalt
CHECK_DEADLOCK FALSE
