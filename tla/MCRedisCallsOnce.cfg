SPECIFICATION MCSpec
CONSTANTS
    JobIDs = {}
    Keys = {}
    OnceKeys = {o1, o2}
    Tokens = {t1, t2}
    Leases = {1}
    Delays = {0}
    TTLs = {1}
    Locks = {1, 2}
    Keeps = {2}
    PurgeBatch = 1
    NoHash = NoHash
    NoClaim = NoClaim
    NoKey = NoKey
    OnceDoneMarker = OnceDoneMarker
    MaxNow = 4
    MaxSeq = 1
    MaxReceipts = 1
PROPERTIES
    ImplementsOnceStore
CHECK_DEADLOCK FALSE
