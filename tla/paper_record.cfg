SPECIFICATION Spec
CONSTANTS
  Policies <- TwoPolicies
  Jev = "jev"
  Sources <- BothFeeds
  Stops <- OneStop
  MaxEvents = 2
  MaxSessions = 2
  MaxFails = 1
  MaxSlips = 1
INVARIANTS TypeOK RowsInOrder EndedIsComplete DayCountsOnce
CHECK_DEADLOCK FALSE
