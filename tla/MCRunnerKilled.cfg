SPECIFICATION Spec
CONSTANTS
    MaxRuns = 2
    MaxTicks = 2
CHECK_DEADLOCK FALSE
INVARIANTS
    KilledRunJoinable
