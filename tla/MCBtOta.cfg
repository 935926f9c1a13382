CONSTANTS
    QueueMax = 2
    Intervals <- MCIntervals
    AdvHandle = 0
    MaxResets = 0
SPECIFICATION BtSpec
PROPERTIES
    OtaReachesDfu
CHECK_DEADLOCK FALSE
