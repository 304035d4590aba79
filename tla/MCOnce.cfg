SPECIFICATION OnceSpec
CONSTANTS
    r1 = r1
    r2 = r2
    r3 = r3
    r4 = r4
    k1 = k1
    k2 = k2
    OnceKeys = {k1, k2}
    Tokens = {r1, r2, r3, r4}
    Free = Free
    Done = Done
    KeyOf <- Keys
INVARIANTS RepeatOnlyAfterLapse EffectExclusive NilMeansEffected
CHECK_DEADLOCK FALSE
