SPECIFICATION SleepTimerSpec
CONSTANTS
    pm = pm
    app = app
    Timers <- MCTimers
    PmTimer = pm
    NoTimer = NoTimer
    priority <- MCAlike
    Width = 8
    Epochs = 2
    Uses <- MCUses
    Contended = {}
    Latency = 1
    Ticks = 1
INVARIANTS
    TimersTypeOK
    ComparatorCovers
PROPERTIES
    DeadlinesKept
    Tick64IsTrue
CHECK_DEADLOCK FALSE
