SPECIFICATION SleepLive
CONSTANTS
    high_frequency_min_offtime_tick = 1
    Overhead = 1
    WakeupTimes = {1}
    Timeouts = {2, 4}
    rx_buffer_length = 2
INVARIANTS
    SleepTypeOK
    RequirementsAddUp
    NoByteCut
    ClocksFollowMode
    NoSignalSlept
    RingSound
    ReceiverLetsGo
PROPERTIES
    TimerFindsClocks
    SignalHandled
CHECK_DEADLOCK FALSE
