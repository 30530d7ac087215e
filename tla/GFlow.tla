-------------------------------- MODULE GFlow --------------------------------
(***************************************************************************)
(* The three services side by side in one process and over one database    *)
(* (cmd/api/main.go): G-Ride, G-Food and G-Send keep their orders and      *)
(* requests to themselves, and share the users and their wallets.  The     *)
(* money of a customer and the working_status of a driver are written by   *)
(* all three, which read nothing of each other's orders: what keeps a      *)
(* driver from carrying a meal during a ride is only that each service     *)
(* locks the driver's row and finds IDLE in it.                            *)
(*                                                                         *)
(* A step of this module is a step of one of the three services that       *)
(* leaves what is private to the other two alone.                          *)
(***************************************************************************)
EXTENDS Integers, FiniteSets

CONSTANTS
    Customers, Merchants, Drivers,
    Rides, Meals, Parcelled,    \* the Orders of each service
    RideRequests, FoodRequests, SendRequests,
    Fares, Discounts, ActualFares, FeeAssigned, FeeArrived, \* G-Ride
    Subtotals, DeliveryFee,                                 \* G-Food
    Parcels,                                                \* G-Send
    MinBalance, NegativeCeiling, CustStart, DrvStart, None,
    MaxInFlight                 \* bound on the requests in flight, of all services

\* Every amount a service adds or compares is of the sign its columns have.
ASSUME AmountsAssumption ==
    /\ Fares \subseteq Nat \ {0}
    /\ Discounts \subseteq Nat
    /\ ActualFares \subseteq Nat
    /\ FeeAssigned \in Nat \ {0}
    /\ FeeArrived \in Nat \ {0}
    /\ Subtotals \subseteq Nat \ {0}
    /\ DeliveryFee \in Nat \ {0}
    /\ DeliveryFee % 10 = 0
    /\ MinBalance \in Nat
    /\ NegativeCeiling \in Int
    /\ CustStart \subseteq Nat
    /\ DrvStart \subseteq Int

\* Users are told apart by their type, and ids are unique over all tables.
ASSUME NamesAssumption ==
    /\ None \notin Customers \cup Merchants \cup Drivers \cup Parcels
    /\ Customers \cap Merchants = {}
    /\ Customers \cap Drivers = {}
    /\ Merchants \cap Drivers = {}
    /\ Rides \cap Meals = {}
    /\ Rides \cap Parcelled = {}
    /\ Meals \cap Parcelled = {}

VARIABLES
    custBal, drvBal, debt, drvStatus, drvWork,  \* users and wallets, shared
    ride, ridePosted, rideReq,
    food, foodPosted, foodReq,
    send, stops, sendPosted, sendReq

users    == <<custBal, drvBal, debt, drvStatus, drvWork>>
rideVars == <<ride, ridePosted, rideReq>>
foodVars == <<food, foodPosted, foodReq>>
sendVars == <<send, stops, sendPosted, sendReq>>
vars     == <<users, rideVars, foodVars, sendVars>>

Ride == INSTANCE RideOrder WITH
    Orders <- Rides, Requests <- RideRequests,
    order <- ride, posted <- ridePosted, req <- rideReq

Food == INSTANCE FoodOrder WITH
    Orders <- Meals, Requests <- FoodRequests,
    order <- food, posted <- foodPosted, req <- foodReq

Send == INSTANCE SendOrder WITH
    Orders <- Parcelled, Requests <- SendRequests,
    order <- send, posted <- sendPosted, req <- sendReq

ASSUME ParcelsAssumption ==
    /\ Parcels \subseteq Send!Parcel
    /\ \A p \in Parcels : \A i \in Send!StopNumbers : i > p.n => p.leg[i] = 0

-----------------------------------------------------------------------------
Init == Ride!Init /\ Food!Init /\ Send!Init

RideStep == Ride!Next /\ UNCHANGED <<foodVars, sendVars>>
FoodStep == Food!Next /\ UNCHANGED <<rideVars, sendVars>>
SendStep == Send!Next /\ UNCHANGED <<rideVars, foodVars>>

\* The requests that have read something and not ended yet.
InFlight ==
    {r \in RideRequests : rideReq[r] # None} \cup
    {r \in FoodRequests : foodReq[r] # None} \cup
    {r \in SendRequests : sendReq[r] # None}

Next ==
    /\ RideStep \/ FoodStep \/ SendStep
    /\ Cardinality(InFlight') <= MaxInFlight

Spec == Init /\ [][Next]_vars

\* One goroutine of the worker sweeps the services in turn, every minute, and
\* goes on to the next order when one fails.
Sweeps ==
    /\ \A o \in Rides     : WF_vars(Ride!AutoCancel(o) /\ UNCHANGED <<foodVars, sendVars>>)
    /\ \A o \in Meals     : WF_vars(Food!AutoCancel(o) /\ UNCHANGED <<rideVars, sendVars>>)
    /\ \A o \in Parcelled : WF_vars(Send!AutoCancel(o) /\ UNCHANGED <<rideVars, foodVars>>)

FairSpec == Spec /\ Sweeps

-----------------------------------------------------------------------------
(* Properties *)

\* What a driver carries, of whichever service.
Carried(d) ==
    {o \in Rides     : ride[o].driver = d /\ ride[o].status \in Ride!Assigned} \cup
    {o \in Meals     : food[o].driver = d /\ food[o].status \in Food!Carried} \cup
    {o \in Parcelled : send[o].driver = d /\ send[o].status \in Send!Carried}

\* A driver carries one order at a time, be it a ride, a meal or a parcel, and
\* is BUSY exactly as long: no service frees a driver another service has just
\* taken, though none looks at the other's orders and each resets the column
\* without a condition when its own order ends.
OneOrderAnywhere ==
    \A d \in Drivers :
        /\ drvWork[d] = "BUSY" <=> Carried(d) # {}
        /\ \A o, p \in Carried(d) : o = p

\* The same as a promise: whichever service's order it is, its driver was idle
\* when taken, and is idle again by the step that ends it and by no other.
Carrier(o) ==
    IF o \in Rides THEN Ride!Carrier(ride[o])
    ELSE IF o \in Meals THEN Food!Carrier(food[o]) ELSE Send!Carrier(send[o])

Duty == INSTANCE DriverDuty WITH
    Orders  <- Rides \cup Meals \cup Parcelled,
    carrier <- [o \in Rides \cup Meals \cup Parcelled |-> Carrier(o)],
    work    <- drvWork

KeepsDuty == Duty!Spec

\* The three services hold, refund and charge one balance, each after its own
\* look at it: together they never spend more than a customer has.
CustomerNotOverdrawn == \A c \in Customers : custBal[c] >= 0

\* No order of any service that found no one in time waits for ever, whatever
\* the other services and their customers, drivers and merchants go on doing.
Late(o) ==
    \/ o \in Rides     /\ ride[o].status = "SEARCHING_DRIVER" /\ ride[o].expired
    \/ o \in Meals     /\ food[o].status = "CREATED" /\ food[o].overdue
    \/ o \in Parcelled /\ send[o].status = "SEARCHING_DRIVER" /\ send[o].overdue

LateOrdersEnd == \A o \in Rides \cup Meals \cup Parcelled : Late(o) ~> ~Late(o)

=============================================================================
