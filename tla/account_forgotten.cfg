SPECIFICATION Spec
CONSTANTS
  Long = Long
  Short = Short
  Sides <- LongOnly
  Polls <- Clear
  Events <- Fills
  Cap = 2
  MaxRejects = 1
  MaxFaults = 0
  MaxCrash = 0
  MaxDays = 0
PROPERTIES TradeNotForgotten
CHECK_DEADLOCK FALSE
