SPECIFICATION MCSpec
CONSTANTS
    Jobs = {j1, j2}
    UniqueKeys = {}
    NoKey = NoKey
    Nobody = Nobody
    Procs = {p1}
    Slots = {s1, s2}
    MaxAttempts = 1
    Undecodable = {j2}
    MaxFaults = 2
    MaxStops = 2
    MaxPostponed = 1
INVARIANTS NoJobLost CleanStopLeavesNoLease
CHECK_DEADLOCK FALSE
SYMMETRY WorkerSymmetry
