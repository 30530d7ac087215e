SPECIFICATION LockoutSpec
CONSTANTS
    r1 = r1
    r2 = r2
    Requests = {r1, r2}
    MaxFailed = 2
    Duration = 2
    RequestTime = 1
    MaxLosses = 1
    MaxStops = 1
    Horizon = 3
SYMMETRY Symmetry
INVARIANTS
    LocksEnd
    FailuresBounded
CHECK_DEADLOCK FALSE
