SPECIFICATION MCSpec
CONSTANTS
    Queues = {q1}
    JobIDs = {j1}
    Keys = {k1}
    OnceKeys = {o1, o2}
    Tokens = {t1, t2}
    q1 = q1
    Orders <- OneQueue
    Leases = {1}
    Delays = {0}
    TTLs = {1}
    Locks = {1, 2}
    Keeps = {2}
    SweepEvery = 2
    NoJob = NoJob
    NoClaim = NoClaim
    NoKey = NoKey
    OnceDoneMarker = OnceDoneMarker
    MaxNow = 3
    MaxSeq = 1
    MaxReceipts = 0
PROPERTIES ImplementsOnceStore
CHECK_DEADLOCK FALSE
SYMMETRY JobSymmetry
