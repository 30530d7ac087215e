SPECIFICATION LedgerSpec
CONSTANTS
    Refs = {r1, r2}
    Admins = {adm1, adm2}
    Fare = 10
    Fee = 2
    Payouts = {7}
    Initial <- OpeningBalances
    LeastBalance <- LowFloor
    MaxEntries = 13
    NoReading = NoReading
SYMMETRY Symmetry
INVARIANTS
    ReversalRestores
CHECK_DEADLOCK FALSE
