SPECIFICATION Spec
CONSTANTS
    Customers = {c1}
    Drivers = {d1}
    Orders = {o1}
    Requests = {r1}
    Parcels <- OneOfHalves
    NegativeCeiling <- CeilingBelowOneDelivery
    MinBalance = 0
    CustStart = {4000000}
    DrvStart = {0}
    None = None
INVARIANTS
    AllocationExact
