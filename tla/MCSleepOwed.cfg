SPECIFICATION SleepSpec
CONSTANTS
    high_frequency_min_offtime_tick = 1
    Overhead = 1
    WakeupTimes = {1, 2}
    Timeouts = {2, 4}
    rx_buffer_length = 2
INVARIANT OwedWakes
CHECK_DEADLOCK FALSE
