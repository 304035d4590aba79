SPECIFICATION MCSpec
CONSTANTS
    Queues = {q1}
    JobIDs = {j1, j2, j3}
    Keys = {k1}
    OnceKeys = {}
    Tokens = {}
    q1 = q1
    Orders <- OneQueue
    Leases = {1}
    Delays = {0}
    TTLs = {1, 2}
    Locks = {1}
    Keeps = {1}
    SweepEvery = 2
    NoJob = NoJob
    NoClaim = NoClaim
    NoKey = NoKey
    OnceDoneMarker = OnceDoneMarker
    MaxNow = 3
    MaxSeq = 4
    MaxReceipts = 2
INVARIANTS TypeOK OneHolderPerKey WindowStands NoOrphanClaim ReceiptsIdentifyLeases
PROPERTIES LeaseRespected
CHECK_DEADLOCK FALSE
SYMMETRY JobSymmetry
