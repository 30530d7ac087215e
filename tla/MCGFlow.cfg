SPECIFICATION FairSpec
CONSTANTS
    Customers = {c1}
    Merchants = {m1}
    Drivers = {d1}
    Rides = {o1}
    Meals = {o2}
    Parcelled = {o3}
    RideRequests = {r1}
    FoodRequests = {r2}
    SendRequests = {r3}
    Fares = {2000000}
    Discounts = {0}
    ActualFares = {3000000}
    FeeAssigned = 500000
    FeeArrived = 1000000
    Subtotals = {2000000}
    DeliveryFee = 2000000
    Parcels <- OneLetter
    MinBalance = 0
    NegativeCeiling <- CeilingBelowOneOrder
    CustStart = {4500000}
    DrvStart = {0}
    None = None
    MaxInFlight = 1
INVARIANTS
    OneOrderAnywhere
    CustomerNotOverdrawn
PROPERTIES
    LateOrdersEnd
