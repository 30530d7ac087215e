SPECIFICATION Spec
CONSTANTS
    c1 = c1
    c2 = c2
    t1 = t1
    t2 = t2
    x1 = x1
    r1 = r1
    r2 = r2
    None = None
    Customers = {c1, c2}
    Verified = {c2}
    TopUps = {t1, t2}
    Transfers = {x1}
    Reversals = {r1, r2}
    Amounts <- MCAmounts
    Deltas <- MCDeltas
    Limit = 3
    LimitVerified = 4
    NewStatuses = {"ACTIVE", "FROZEN"}
    Floor <- MCFloor
    Opening = 1
PROPERTIES
    TopUpCreditsNet
CHECK_DEADLOCK FALSE
