SPECIFICATION Spec
CONSTANTS
    Customers = {c1}
    Drivers = {d1}
    Orders = {o1, o2}
    Requests = {r1, r2}
    Fares = {20}
    Discounts = {0, 15, 20}
    ActualFares = {0, 50}
    FeeAssigned = 5
    FeeArrived = 10
    MinBalance = 0
    NegativeCeiling <- CeilingBelowOneCommission
    CustStart = {25}
    DrvStart = {0}
    None = None
SYMMETRY Symmetry
INVARIANTS
    CancelPostable
