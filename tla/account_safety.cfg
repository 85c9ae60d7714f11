SPECIFICATION Spec
CONSTANTS
  Long = Long
  Short = Short
  Sides <- BothSides
  Polls <- KillPolls
  Events <- MidDay
  Cap = 1
  MaxRejects = 1
  MaxFaults = 1
  MaxCrash = 1
  MaxDays = 1
SYMMETRY Mirror
INVARIANTS TypeOK EntriesWithinCap SlippedEntryIsOwed
PROPERTIES RowClosedOnlyWhenFlat
CHECK_DEADLOCK FALSE
