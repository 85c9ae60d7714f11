SPECIFICATION Spec
CONSTANTS
  OPEN = 1
  MISSING_AFTER = 2
  CHECK_FROM = 2
  CHECK_UNTIL = 8
  EOD = 9
  STALE_S = 0
  STALL_S = 0
  GRACE_S = 1
  CATCH_UP_MAX_S = 3
  RECOVER_COOLDOWN_S = 2
  RECOVER_MAX = 2
  MaxOwner = 1
  MaxFaults = 2
INVARIANTS TypeOK RestartsBounded DownIsRetried
PROPERTIES StopHolds
