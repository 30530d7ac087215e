SPECIFICATION LedgerSpec
CONSTANTS
    Refs = {r1, r2}
    Admins = {}
    Fare = 10
    Fee = 2
    Payouts = {2, 3}
    Initial <- OpeningBalances
    LeastBalance <- LowFloor
    MaxEntries = 13
    NoReading = NoReading
SYMMETRY Symmetry
INVARIANTS
    NegativeOnlyByCash
CHECK_DEADLOCK FALSE
