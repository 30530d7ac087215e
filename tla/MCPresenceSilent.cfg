SPECIFICATION Spec
CONSTANTS
    Drivers = {d1}
    Calls = {c1, c2}
    Workers = {w1}
    RedisTTL = 2
    FreshWindow = 2
    PgFreshWindow = 1
    FlushInterval = 1
    FlushTime = 1
    CallTime = 0
    Horizon = 5
    None = None
SYMMETRY Symmetry
INVARIANTS
    SilentIsGone
CHECK_DEADLOCK FALSE
