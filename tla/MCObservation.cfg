SPECIFICATION Spec
CONSTANTS
    e1 = e1
    e2 = e2
    Text = Text
    Expiries = {e1, e2}
    Interval = 2
    Step = 2
    WindowSteps = 1
    Gaps <- MCGaps
    Levels <- MCLevels
    Chains <- MCChains
    TooLarge = 50
    SpotMin = 3
    SpotMax = 6
    VixMin = 3
    VixMax = 5
    RaisingRules <- MCRaisingRules
CHECK_DEADLOCK FALSE
INVARIANTS
    OnlyFatalStops
    EngineAgrees
    CleanVerdictVouches
    VerdictPerRule
