SPECIFICATION FairSpec
CONSTANTS
    MaxTicks = 3
    MaxSignals = 2
CHECK_DEADLOCK FALSE
INVARIANTS
    NoHoles
    ChainUnbroken
    CountsAgree
    SecondaryAfterRaw
PROPERTIES
    Lifecycle
    EndsClosed
