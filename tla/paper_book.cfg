CONSTANTS
    Policies = {"jev", "base"}
    Jev = "jev"
    Answers <- MCAnswers
    Start = 1
    Cadence = 2
    GridLen = 3
    Latency = 1
    Delays = {0, 1}
    OpenNs = 0
    Stop = 1
    Target = 2
    Settings <- MCSettings
    FirstTs = {0, 2}
    FirstBid = 5
    Moves <- MCMoves
    MaxTs = 8
    MaxGap = 3
    MaxCancels = 1
SPECIFICATION Spec
INVARIANTS TypeOK ReplayMatchesBacktest NoMissedExit TargetFollowsBook ClosedMeansFlat
CHECK_DEADLOCK FALSE
