SPECIFICATION Spec
CONSTANTS
  Long = Long
  Short = Short
  Sides <- LongOnly
  Polls <- Clear
  Events <- OwnersAll
  Cap = 1
  MaxRejects = 1
  MaxFaults = 1
  MaxCrash = 0
  MaxDays = 0
PROPERTIES FlattenAllHalts
CHECK_DEADLOCK FALSE
