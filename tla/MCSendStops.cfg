SPECIFICATION Spec
CONSTANTS
    Customers = {c1}
    Drivers = {d1}
    Orders = {o1, o2}
    Requests = {r1}
    Parcels <- OneLetter
    NegativeCeiling <- CeilingBelowOneDelivery
    MinBalance = 0
    CustStart = {2000000}
    DrvStart = {0}
    None = None
SYMMETRY Symmetry
INVARIANTS
    SettledAllDelivered
