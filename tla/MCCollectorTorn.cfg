SPECIFICATION CollectorSpec
CONSTANTS
    Records = {r1, r2, r3}
    NoRec = NoRec
    LastDay = 2
    MaxStops = 2
    Clients = {"run"}
CHECK_DEADLOCK FALSE
INVARIANTS
    AckedReadable
