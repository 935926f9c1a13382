CONSTANTS
    QueueMax = 3
    Intervals <- MCIntervals
    AdvHandle = 0
    MaxResets = 1
SPECIFICATION BtSpec
INVARIANTS
    BondingInfoIsTrue
CHECK_DEADLOCK FALSE
