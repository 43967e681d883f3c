SPECIFICATION Spec
CONSTANTS
    MaxTicks = 3
    MaxSignals = 2
CHECK_DEADLOCK FALSE
INVARIANTS
    SigtermCompletesTick
