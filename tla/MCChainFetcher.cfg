SPECIFICATION Spec
CONSTANTS
    Step = 4
    WindowSteps = 1
    Expiries <- MCExpiries
    Listings <- MCListings
    Unresolved = Unresolved
    Spots <- MCSpots
    BatchSize = 2
    Strays <- MCStrays
    Unfetched <- MCUnfetched
    MaxTicks = 2
    MaxBuilds = 2
CHECK_DEADLOCK FALSE
INVARIANTS
    TypeOK
    RequestIsWindow
    UnresolvedFails
    AtmNearSpot
PROPERTIES
    NoPartialChain
    RefinesUniverse
