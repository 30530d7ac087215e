SPECIFICATION LocksSpec
CONSTANTS
    Txs = {t1, t2}
    LastWallet = 7
    WithAdjustment = TRUE
SYMMETRY Symmetry
INVARIANTS
    NoDeadlock
