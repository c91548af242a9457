SPECIFICATION Spec
CONSTANTS
    MaxCalls = 2
    Period = 3
    Latency = 1
    MaxClock = 12
INVARIANTS
    RollingWindow
    NoNeedlessWait
CHECK_DEADLOCK FALSE
