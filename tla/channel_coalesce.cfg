SPECIFICATION Spec
CONSTANTS
  Targets <- LongOnly
  MaxBoot = 1
  MaxSeq = 1
  MaxLink = 3
  MaxQueue = 3
  MaxLate = 0
  MaxCrash = 0
  MaxFaults = 0
  MaxMoves = 1
PROPERTIES HeartbeatOvertakesNoIntent
