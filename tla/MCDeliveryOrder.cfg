SPECIFICATION MCSpec
CONSTANTS
    q1 = q1
    Queues = {q1}
    JobIDs = {j1, j2, j3}
    Keys = {}
    OnceKeys = {}
    Tokens = {}
    Orders <- OneQueue
    Leases = {1}
    Delays = {0, 1}
    TTLs = {1}
    Locks = {1}
    Keeps = {1}
    SweepEvery = 2
    NoJob = NoJob
    NoClaim = NoClaim
    NoKey = NoKey
    OnceDoneMarker = OnceDoneMarker
    MaxNow = 3
    MaxSeq = 4
    MaxReceipts = 3
INVARIANTS StatsMatchReserve
PROPERTIES NoJobPassedTwice
CHECK_DEADLOCK FALSE
SYMMETRY JobSymmetry
