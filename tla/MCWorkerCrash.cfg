SPECIFICATION MCSpec
CONSTANTS
    Jobs = {j1}
    UniqueKeys = {}
    NoKey = NoKey
    Nobody = Nobody
    Procs = {p1, p2}
    Slots = {s1}
    MaxAttempts = 2
    Undecodable = {}
    MaxFaults = 3
    MaxStops = 1
    MaxPostponed = 1
INVARIANTS TypeOK NoJobLost LatestDeliveryStands FailuresWithinMaxAttempts ExhaustedOnlyWhenSpent CleanStopLeavesNoLease
CHECK_DEADLOCK FALSE
SYMMETRY WorkerSymmetry
