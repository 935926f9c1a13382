SPECIFICATION TimersLive
CONSTANTS
    pm = pm
    app = app
    Timers <- MCTimers
    PmTimer = pm
    NoTimer = NoTimer
    priority <- MCAppFirst
    Width = 7
    Epochs = 1
    Uses <- MCEqualUses
    Contended = {}
    Latency = 0
    Ticks = 0
PROPERTY EveryTimerExpires
CHECK_DEADLOCK FALSE
