SPECIFICATION FairSpec
CONSTANTS
  Targets <- LongOnly
  MaxBoot = 2
  MaxSeq = 2
  MaxMoves = 2
  MaxLink = 1
  MaxQueue = 1
  MaxLate = 1
  MaxCrash = 1
  MaxFaults = 2
INVARIANTS TypeOK TargetNotOlderThanSeq ActsAtMostOnce
PROPERTIES EventuallyFollows DeliveryPromise
