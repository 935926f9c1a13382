CONSTANTS
    QueueMax = 1
    Intervals <- MCIntervals
    AdvHandle = 0
    MaxResets = 0
    BtnNum = 1
    CacheSize = 2
    ValueNum = 1
    StickNum = 1
    BtStopCauses = {}
SPECIFICATION GamepadSpec
PROPERTIES
    EdgeWakes
    AdvertisesAgain
    EdgeReachesHandler
    CacheDrains
CHECK_DEADLOCK FALSE
