SPECIFICATION MCSpec
CONSTANTS
    p = p
    q = q
    r = r
    Timers <- MCTimers
    Interval <- MCInterval
    Count <- MCCount
    Off = Off
    Disarmed = Disarmed
    maxSlots = 2
    SI = 1
    Debug = FALSE
INVARIANTS QueueArmed WheelOnTime
PROPERTIES EarlyOnlyUnderOldKey TimerFires WheelFires
CHECK_DEADLOCK FALSE
