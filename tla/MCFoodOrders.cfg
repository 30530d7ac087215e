SPECIFICATION Spec
CONSTANTS
    Customers = {c1}
    Merchants = {m1}
    Drivers = {d1, d2}
    Orders = {o1, o2}
    Requests = {r1, r2}
    Subtotals = {20}
    DeliveryFee = 10
    NegativeCeiling <- CeilingBelowOneDelivery
    CustStart = {35}
    DrvStart = {0}
    None = None
SYMMETRY Symmetry
INVARIANTS
    IndInv
    KitchenInStep
    SettledSplit
PROPERTIES
    FinalIsFinal
    KeepsPromise
    KeepsDuty
