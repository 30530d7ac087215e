SPECIFICATION Spec
CONSTANTS
    Drivers = {d1}
    Calls = {c1}
    Workers = {w1, w2}
    RedisTTL = 2
    FreshWindow = 2
    PgFreshWindow = 1
    FlushInterval = 1
    FlushTime = 0
    CallTime = 0
    Horizon = 5
    None = None
SYMMETRY Symmetry
INVARIANTS
    IndInv
    ListedRecent
    Persisted
CHECK_DEADLOCK FALSE
