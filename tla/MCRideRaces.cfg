SPECIFICATION Spec
CONSTANTS
    Customers = {c1}
    Drivers = {d1, d2}
    Orders = {o1, o2}
    Requests = {r1, r2}
    Fares = {20}
    Discounts = {0, 15}
    ActualFares = {0, 10}
    FeeAssigned = 5
    FeeArrived = 10
    MinBalance = 0
    NegativeCeiling <- CeilingBelowOneCommission
    CustStart = {27}
    DrvStart = {0}
    None = None
SYMMETRY Symmetry
INVARIANTS
    IndInv
    EscrowBacksRide
    CancelledRefund
    SettledSplit
    DriverExclusive
    CustomerNotOverdrawn
PROPERTIES
    FinalIsFinal
    KeepsPromise
