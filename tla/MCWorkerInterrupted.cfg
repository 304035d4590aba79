SPECIFICATION MCSpec
CONSTANTS
    Jobs = {j1}
    UniqueKeys = {}
    NoKey = NoKey
    Nobody = Nobody
    Procs = {p1, p2}
    Slots = {s1}
    MaxAttempts = 1
    Undecodable = {}
    MaxFaults = 0
    MaxStops = 1
    MaxPostponed = 1
INVARIANT InterruptedRunsAgain
CHECK_DEADLOCK FALSE
SYMMETRY WorkerSymmetry
