SPECIFICATION Spec
CONSTANTS
    Intervals <- MCIntervals
    Tolerance = 1
    Gaps <- MCGaps
    MaxTicks = 4
    MaxRuns = 2
    MaxFaults = 1
CHECK_DEADLOCK FALSE
INVARIANTS
    TypeOK
    PassesWhatRunsWrite
    LossReported
    EstimatesAgree
