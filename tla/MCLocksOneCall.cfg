SPECIFICATION LocksSpec
CONSTANTS
    Txs = {t1, t2, t3}
    LastWallet = 8
    WithAdjustment = FALSE
SYMMETRY Symmetry
INVARIANTS
    NoDeadlock
