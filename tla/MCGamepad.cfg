CONSTANTS
    QueueMax = 2
    Intervals <- MCIntervals
    AdvHandle = 0
    MaxResets = 1
    BtnNum = 1
    CacheSize = 2
    ValueNum = 1
    StickNum = 1
    BtStopCauses = {"call_failed", "assert", "app_assert", "not_handled", "dfu"}
SPECIFICATION GamepadSpec
INVARIANTS
    HandledOnlyAfterBoot
PROPERTIES
    ImplementsBt
    ImplementsButton
CHECK_DEADLOCK FALSE
