SPECIFICATION MCSpec
CONSTANTS
    JobIDs = {i1, i2, i3}
    Keys = {}
    OnceKeys = {}
    Tokens = {}
    Leases = {1}
    Delays = {0}
    TTLs = {1}
    Locks = {1}
    Keeps = {1}
    PurgeBatch = 1
    NoHash = NoHash
    NoClaim = NoClaim
    NoKey = NoKey
    OnceDoneMarker = OnceDoneMarker
    MaxNow = 2
    MaxSeq = 4
    MaxReceipts = 3
SYMMETRY JobSymmetry
INVARIANTS
    OneSetPerJob
CHECK_DEADLOCK FALSE
