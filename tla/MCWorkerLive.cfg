SPECIFICATION MCLiveSpec
CONSTANTS
    Jobs = {j1}
    UniqueKeys = {}
    NoKey = NoKey
    Nobody = Nobody
    Procs = {p1, p2}
    Slots = {s1}
    MaxAttempts = 2
    Undecodable = {}
    MaxFaults = 1
    MaxStops = 1
    MaxPostponed = 1
CHECK_DEADLOCK FALSE
PROPERTY EveryJobSettles
