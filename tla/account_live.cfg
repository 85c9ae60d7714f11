SPECIFICATION FairSpec
CONSTANTS
  Long = Long
  Short = Short
  Sides <- LongOnly
  Polls <- KillPolls
  Events <- EndOfDay
  Cap = 1
  MaxRejects = 1
  MaxFaults = 1
  MaxCrash = 0
  MaxDays = 0
PROPERTIES AlarmFlattens HeartbeatsFlatten PositionLeftIsOwned
CHECK_DEADLOCK FALSE
