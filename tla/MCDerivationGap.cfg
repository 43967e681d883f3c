SPECIFICATION Spec
CONSTANTS
    e1 = e1
    e2 = e2
    k1 = k1
    k2 = k2
    Expiries = {e1, e2}
    Keys = {k1, k2}
    Interval = 2
    Listed <- MCListed
    Gaps <- MCGaps
    MaxTicks = 3
CHECK_DEADLOCK FALSE
INVARIANTS
    NoChangeSpansGap
