SPECIFICATION FairSpec
CONSTANTS
    Customers = {c1}
    Merchants = {m1}
    Drivers = {d1}
    Orders = {o1}
    Requests = {r1}
    Subtotals = {20}
    DeliveryFee = 10
    NegativeCeiling <- CeilingBelowOneDelivery
    CustStart = {35}
    DrvStart = {0}
    None = None
PROPERTY UnansweredIsCancelled
