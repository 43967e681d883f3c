SPECIFICATION Spec
CONSTANTS
    DayLen = 18
    OpenAt = 3
    CloseAt = 8
    Weekend <- MCWeekend
    Interval = 2
    Threshold = 3
    Lifetime = 9
    MaxWork = 3
    MaxAuth = 1
    MaxLate = 1
    MaxSkew = 1
    Starts <- MCStarts
    Horizon = 40
CHECK_DEADLOCK FALSE
INVARIANTS
    TicksOnOneDay
    Cadence
    SteadyIsContiguous
    TokenOutlivesTick
PROPERTIES
    TokenKept
    RunEnds
