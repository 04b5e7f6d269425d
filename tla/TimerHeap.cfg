SPECIFICATION TimerSpec
CONSTANTS
    Conns = {c1, c2}
    Timeouts = {1, 3}
    Period = 5
    MaxTime = 8
    MaxTimers = 3
PROPERTIES
    NeverEarly
    NoneExpiredLeft
\* Time ends at MaxTime.
CHECK_DEADLOCK FALSE
