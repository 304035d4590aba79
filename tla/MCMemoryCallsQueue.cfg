SPECIFICATION MCSpec
CONSTANTS
    Queues = {q1}
    JobIDs = {j1, j2}
    Keys = {k1}
    OnceKeys = {}
    Tokens = {}
    q1 = q1
    Orders <- OneQueue
    Leases = {1}
    Delays = {0, 1}
    TTLs = {1}
    Locks = {1}
    Keeps = {1}
    SweepEvery = 2
    NoJob = NoJob
    NoClaim = NoClaim
    NoKey = NoKey
    OnceDoneMarker = OnceDoneMarker
    MaxNow = 2
    MaxSeq = 3
    MaxReceipts = 2
PROPERTIES ImplementsQueue OnlyHolderSettles
CHECK_DEADLOCK FALSE
SYMMETRY JobSymmetry
