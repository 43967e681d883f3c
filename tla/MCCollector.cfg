SPECIFICATION CollectorSpec
SYMMETRY Symmetry
CONSTANTS
    Records = {r1, r2, r3}
    NoRec = NoRec
    LastDay = 2
    MaxStops = 2
    Clients = {"free", "run"}
CHECK_DEADLOCK FALSE
INVARIANTS
    AckedDurable
    FiledUnderItsDay
    LossOnlyBehindTear
    LosesFirstOnly
PROPERTIES
    AppendOnly
    RefinesDurableLog
