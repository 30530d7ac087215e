---------------------------- MODULE GFlow_proofs ----------------------------
(***************************************************************************)
(* The three services together, for any number of users, orders and        *)
(* requests.  What is proved of each service alone is taken over here: a   *)
(* step of a service keeps what the other two rely on, because it leaves   *)
(* their rows alone and the shared users and wallets in their types.  Only *)
(* working_status cannot be had from the services one by one.  It follows  *)
(* from the duty each of their steps keeps: a driver is taken when idle    *)
(* and freed by the end of the order that took the driver.                 *)
(***************************************************************************)
EXTENDS GFlow, TLAPS

\* The proofs about each service, read over this module's variables.
RP == INSTANCE RideOrder_proofs WITH
    Orders <- Rides, Requests <- RideRequests,
    order <- ride, posted <- ridePosted, req <- rideReq

FP == INSTANCE FoodOrder_proofs WITH
    Orders <- Meals, Requests <- FoodRequests,
    order <- food, posted <- foodPosted, req <- foodReq

SP == INSTANCE SendOrder_proofs WITH
    Orders <- Parcelled, Requests <- SendRequests,
    order <- send, posted <- sendPosted, req <- sendReq

-----------------------------------------------------------------------------
(* The two names of each service's definitions mean the same *)

\* The ride service is the one its proofs are about.
LEMMA SameRide ==
    /\ RP!Init <=> Ride!Init
    /\ RP!Next <=> Ride!Next
    /\ RP!OrdersInv <=> Ride!OrdersInv
<1>1. RP!Init <=> Ride!Init
  BY Zenon DEF RP!Init, RP!NoRow, RP!Zero, RP!Moved, Ride!Init, Ride!NoRow, Ride!Zero,
      Ride!Moved
<1>2. RP!Next <=> Ride!Next
  BY Zenon DEF RP!Next, RP!BookGate, RP!BookCommit, RP!AcceptOrder, RP!Targets, RP!ReadOrder,
      RP!Arrive, RP!StartTrip, RP!Reasons, RP!CancelOrder, RP!CompleteOrder,
      RP!Fail, RP!AutoCancel, RP!Expire, RP!WaitAtPickup, RP!UpdateUserStatus,
      RP!NoRow, RP!FareBasis, RP!Post, RP!Moved, RP!Done, RP!MayAccept,
      RP!ValidTransition, RP!Locked, RP!EffectiveReason, RP!CancellationFee,
      RP!RefundToCustomer, RP!FeeToDriver, RP!ReasonAllowed, RP!RefundPostable,
      RP!ResetDriverIdle, RP!WalletSettlement, RP!CashSettlement,
      RP!SettlementPostable, RP!Sweepable, RP!Plus, RP!Live, RP!Forward,
      RP!Commission, RP!Assigned, Ride!Next, Ride!BookGate, Ride!BookCommit,
      Ride!AcceptOrder, Ride!Targets, Ride!ReadOrder, Ride!Arrive, Ride!StartTrip,
      Ride!Reasons, Ride!CancelOrder, Ride!CompleteOrder, Ride!Fail,
      Ride!AutoCancel, Ride!Expire, Ride!WaitAtPickup, Ride!UpdateUserStatus,
      Ride!NoRow, Ride!FareBasis, Ride!Post, Ride!Moved, Ride!Done, Ride!MayAccept,
      Ride!ValidTransition, Ride!Locked, Ride!EffectiveReason, Ride!CancellationFee,
      Ride!RefundToCustomer, Ride!FeeToDriver, Ride!ReasonAllowed,
      Ride!RefundPostable, Ride!ResetDriverIdle, Ride!WalletSettlement,
      Ride!CashSettlement, Ride!SettlementPostable, Ride!Sweepable, Ride!Plus,
      Ride!Live, Ride!Forward, Ride!Commission, Ride!Assigned
<1>3. RP!OrdersInv <=> Ride!OrdersInv
  BY Zenon DEF RP!OrdersInv, RP!TypeOK, RP!RowsOK, RP!LiveLedger, RP!EscrowBacksRide,
      RP!CancelledRefund, RP!SettledSplit, RP!CustomerNotOverdrawn, RP!Row, RP!Net,
      RP!Booking, RP!Patch, RP!Filled, RP!Live, RP!Moved, RP!HeldFor, RP!Refunded,
      RP!Split, RP!Final, RP!Targets, RP!Forward, RP!Assigned, RP!FareBasis,
      RP!Commission, Ride!OrdersInv, Ride!TypeOK, Ride!RowsOK, Ride!LiveLedger,
      Ride!EscrowBacksRide, Ride!CancelledRefund, Ride!SettledSplit,
      Ride!CustomerNotOverdrawn, Ride!Row, Ride!Net, Ride!Booking, Ride!Patch,
      Ride!Filled, Ride!Live, Ride!Moved, Ride!HeldFor, Ride!Refunded, Ride!Split,
      Ride!Final, Ride!Targets, Ride!Forward, Ride!Assigned, Ride!FareBasis,
      Ride!Commission
<1> QED
  BY <1>1, <1>2, <1>3

\* The food service is the one its proofs are about.
LEMMA SameFood ==
    /\ FP!Init <=> Food!Init
    /\ FP!Next <=> Food!Next
    /\ FP!OrdersInv <=> Food!OrdersInv
<1>1. FP!Init <=> Food!Init
  BY Zenon DEF FP!Init, FP!NoRow, FP!Zero, FP!Moved, Food!Init, Food!NoRow, Food!Zero,
      Food!Moved
<1>2. FP!Next <=> Food!Next
  BY Zenon DEF FP!Next, FP!CreateGate, FP!CreateCommit, FP!AcceptFoodOrder, FP!Targets,
      FP!ReadOrder, FP!Prepare, FP!MoveOn, FP!CancelOrder, FP!Deliver, FP!Fail,
      FP!AutoCancel, FP!GoOverdue, FP!UpdateUserStatus, FP!NoRow, FP!Total, FP!Post,
      FP!Moved, FP!Done, FP!MayAccept, FP!KitchenTargets, FP!Live, FP!Replay,
      FP!ValidTransition, FP!Locked, FP!Kitchen, FP!Refundable, FP!ResetDriverIdle,
      FP!WalletSettlement, FP!CashSettlement, FP!SettlementPostable, FP!Sweepable,
      FP!Unanswered, FP!Plus, FP!Carried, FP!Carry, FP!MerchantEarning,
      FP!DriverEarning, FP!Commission, FP!DeliveryCommission, Food!Next,
      Food!CreateGate, Food!CreateCommit, Food!AcceptFoodOrder, Food!Targets,
      Food!ReadOrder, Food!Prepare, Food!MoveOn, Food!CancelOrder, Food!Deliver,
      Food!Fail, Food!AutoCancel, Food!GoOverdue, Food!UpdateUserStatus, Food!NoRow,
      Food!Total, Food!Post, Food!Moved, Food!Done, Food!MayAccept,
      Food!KitchenTargets, Food!Live, Food!Replay, Food!ValidTransition,
      Food!Locked, Food!Kitchen, Food!Refundable, Food!ResetDriverIdle,
      Food!WalletSettlement, Food!CashSettlement, Food!SettlementPostable,
      Food!Sweepable, Food!Unanswered, Food!Plus, Food!Carried, Food!Carry,
      Food!MerchantEarning, Food!DriverEarning, Food!Commission,
      Food!DeliveryCommission
<1>3. FP!OrdersInv <=> Food!OrdersInv
  BY Zenon DEF FP!OrdersInv, FP!TypeOK, FP!RowsOK, FP!KitchenInStep, FP!LiveLedger,
      FP!ReadingOK, FP!SettledSplit, FP!CustomerNotOverdrawn, FP!Row, FP!Net,
      FP!Cart, FP!Patch, FP!Filled, FP!InStep, FP!Moved, FP!HeldFor, FP!Split,
      FP!Live, FP!Final, FP!KitchenStatus, FP!Targets, FP!Asked, FP!Carried,
      FP!Total, FP!Commission, FP!DeliveryCommission, FP!Unanswered,
      FP!KitchenTargets, FP!Carry, Food!OrdersInv, Food!TypeOK, Food!RowsOK,
      Food!KitchenInStep, Food!LiveLedger, Food!ReadingOK, Food!SettledSplit,
      Food!CustomerNotOverdrawn, Food!Row, Food!Net, Food!Cart, Food!Patch,
      Food!Filled, Food!InStep, Food!Moved, Food!HeldFor, Food!Split, Food!Live,
      Food!Final, Food!KitchenStatus, Food!Targets, Food!Asked, Food!Carried,
      Food!Total, Food!Commission, Food!DeliveryCommission, Food!Unanswered,
      Food!KitchenTargets, Food!Carry
<1> QED
  BY <1>1, <1>2, <1>3

\* The send service is the one its proofs are about.
LEMMA SameSend ==
    /\ SP!Init <=> Send!Init
    /\ SP!Next <=> Send!Next
    /\ SP!OrdersInv <=> Send!OrdersInv
<1>1. SP!Init <=> Send!Init
  BY Zenon DEF SP!Init, SP!NoRow, SP!StopNumbers, SP!Zero, SP!MaxStops, SP!Moved, Send!Init,
      Send!NoRow, Send!StopNumbers, Send!Zero, Send!MaxStops, Send!Moved
<1>2. \A p : SP!TotalFare(p) = Send!TotalFare(p)
  BY SMT DEF SP!TotalFare, SP!Distance, SP!WeightSurcharge, SP!InsuranceFee, SP!RoundDiv,
      Send!TotalFare, Send!Distance, Send!WeightSurcharge, Send!InsuranceFee,
      Send!RoundDiv
<1>3. ASSUME NEW o
      PROVE  SP!Settle(o) <=> Send!Settle(o)
  BY <1>2, Zenon DEF SP!Settle, SP!WalletSettlement, SP!Fare, SP!CashSettlement, SP!Post,
      SP!DriverIdle, SP!Moved, SP!Commission, SP!Plus, SP!RoundDiv, Send!Settle,
      Send!WalletSettlement, Send!Fare, Send!CashSettlement, Send!Post,
      Send!DriverIdle, Send!Moved, Send!Commission, Send!Plus, Send!RoundDiv
<1>4. ASSUME NEW r, NEW o, NEW pay
      PROVE  SP!CreateCommit(r, o, pay) <=> Send!CreateCommit(r, o, pay)
  BY <1>2, Zenon DEF SP!CreateCommit, SP!NoRow, SP!Fare, SP!Post, SP!Moved, SP!Done, SP!Plus,
      SP!RoundDiv, Send!CreateCommit, Send!NoRow, Send!Fare, Send!Post, Send!Moved,
      Send!Done, Send!Plus, Send!RoundDiv
<1>5. ASSUME NEW r
      PROVE  SP!CancelOrder(r) <=> Send!CancelOrder(r)
  BY <1>2, Zenon DEF SP!CancelOrder, SP!Locked, SP!Refundable, SP!Fare, SP!Post, SP!Moved,
      SP!DriverIdle, SP!Done, SP!Plus, SP!RoundDiv, Send!CancelOrder, Send!Locked,
      Send!Refundable, Send!Fare, Send!Post, Send!Moved, Send!DriverIdle, Send!Done,
      Send!Plus, Send!RoundDiv
<1>6. ASSUME NEW o
      PROVE  SP!AutoCancel(o) <=> Send!AutoCancel(o)
  BY <1>2, Zenon DEF SP!AutoCancel, SP!Sweepable, SP!Refundable, SP!Fare, SP!Post, SP!Moved,
      SP!Plus, SP!RoundDiv, Send!AutoCancel, Send!Sweepable, Send!Refundable,
      Send!Fare, Send!Post, Send!Moved, Send!Plus, Send!RoundDiv
<1>7. SP!Next <=> Send!Next
  BY <1>3, <1>4, <1>5, <1>6, Zenon DEF SP!Next, SP!CreateGate, SP!AcceptGate, SP!AcceptCommit, SP!Targets,
      SP!ReadOrder, SP!StopTargets, SP!Stop, SP!ReadStop, SP!MoveOn, SP!Deliver,
      SP!UpdateStop, SP!LastStop, SP!Fail, SP!GoOverdue, SP!UpdateUserStatus,
      SP!StillFree, SP!Done, SP!Live, SP!ValidTransition, SP!StopNumbers, SP!Locked,
      SP!AllDelivered, SP!Completes, SP!Reported, SP!Carried, SP!Carry, SP!MaxStops,
      Send!Next, Send!CreateGate, Send!AcceptGate, Send!AcceptCommit, Send!Targets,
      Send!ReadOrder, Send!StopTargets, Send!Stop, Send!ReadStop, Send!MoveOn,
      Send!Deliver, Send!UpdateStop, Send!LastStop, Send!Fail, Send!GoOverdue,
      Send!UpdateUserStatus, Send!StillFree, Send!Done, Send!Live,
      Send!ValidTransition, Send!StopNumbers, Send!Locked, Send!AllDelivered,
      Send!Completes, Send!Reported, Send!Carried, Send!Carry, Send!MaxStops
<1>8. SP!OrdersInv <=> Send!OrdersInv
  BY <1>2, Zenon DEF SP!OrdersInv, SP!TypeOK, SP!RowsOK, SP!LiveLedger, SP!ReadingOK,
      SP!SettledSplit, SP!CustomerNotOverdrawn, SP!Row, SP!StopNumbers,
      SP!StopStatus, SP!Net, SP!InFlight, SP!Filled, SP!Moved, SP!HeldFor, SP!Split,
      SP!Live, SP!Final, SP!MaxStops, SP!Posting, SP!Accept, SP!Patch, SP!Report,
      SP!Carried, SP!Fare, SP!Targets, SP!Asked, SP!StopTargets, SP!Stop, SP!Carry,
      SP!RoundDiv, Send!OrdersInv, Send!TypeOK, Send!RowsOK, Send!LiveLedger,
      Send!ReadingOK, Send!SettledSplit, Send!CustomerNotOverdrawn, Send!Row,
      Send!StopNumbers, Send!StopStatus, Send!Net, Send!InFlight, Send!Filled,
      Send!Moved, Send!HeldFor, Send!Split, Send!Live, Send!Final, Send!MaxStops,
      Send!Posting, Send!Accept, Send!Patch, Send!Report, Send!Carried, Send!Fare,
      Send!Targets, Send!Asked, Send!StopTargets, Send!Stop, Send!Carry,
      Send!RoundDiv
<1> QED
  BY <1>1, <1>7, <1>8

-----------------------------------------------------------------------------
(* A step of a service, for that service and for the other two *)

\* What the services share, as each of them needs it.
UsersOK ==
    /\ custBal \in [Customers -> Int]
    /\ drvBal \in [Drivers -> Int]
    /\ debt \in [Customers -> Nat]
    /\ drvStatus \in [Drivers -> {"ACTIVE", "SUSPENDED"}]
    /\ drvWork \in [Drivers -> {"IDLE", "BUSY"}]
    /\ CustomerNotOverdrawn

ServicesInv == RP!OrdersInv /\ FP!OrdersInv /\ SP!OrdersInv

\* A step of the ride service is one its own proofs speak of.
LEMMA RideGood == ASSUME RP!OrdersInv, Ride!Next PROVE RP!Good /\ UsersOK'
<1>1. /\ Fares \subseteq Nat \ {0}
      /\ Discounts \subseteq Nat
      /\ ActualFares \subseteq Nat
      /\ FeeAssigned \in Nat \ {0}
      /\ FeeArrived \in Nat \ {0}
      /\ MinBalance \in Nat
      /\ NegativeCeiling \in Int
      /\ CustStart \subseteq Nat
      /\ DrvStart \subseteq Int
  BY AmountsAssumption
<1>2. /\ None \notin Customers \cup Drivers
      /\ Customers \cap Drivers = {}
  BY NamesAssumption
<1>3. RP!Good
  BY <1>1, <1>2, SameRide, RP!NextStep
<1> QED
  BY <1>3 DEF RP!Good, RP!OrdersInv, RP!TypeOK, RP!CustomerNotOverdrawn, UsersOK,
      CustomerNotOverdrawn

LEMMA FoodGood == ASSUME FP!OrdersInv, Food!Next PROVE FP!Good /\ UsersOK'
<1>1. /\ Subtotals \subseteq Nat \ {0}
      /\ DeliveryFee \in Nat \ {0}
      /\ DeliveryFee % 10 = 0
      /\ NegativeCeiling \in Int
      /\ CustStart \subseteq Nat
      /\ DrvStart \subseteq Int
  BY AmountsAssumption
<1>2. /\ None \notin Customers \cup Merchants \cup Drivers
      /\ Customers \cap Merchants = {}
      /\ Customers \cap Drivers = {}
      /\ Merchants \cap Drivers = {}
  BY NamesAssumption
<1>3. FP!Good
  BY <1>1, <1>2, SameFood, FP!NextStep
<1> QED
  BY <1>3 DEF FP!Good, FP!OrdersInv, FP!TypeOK, FP!CustomerNotOverdrawn, UsersOK,
      CustomerNotOverdrawn

LEMMA SendGood == ASSUME SP!OrdersInv, Send!Next PROVE SP!Good /\ UsersOK'
<1>1. /\ NegativeCeiling \in Int
      /\ MinBalance \in Int
      /\ CustStart \subseteq Nat
      /\ DrvStart \subseteq Int
  BY AmountsAssumption
<1>2. /\ None \notin Customers \cup Drivers \cup Parcels
      /\ Customers \cap Drivers = {}
  BY NamesAssumption
<1>3. /\ Parcels \subseteq SP!Parcel
      /\ \A p \in Parcels : \A i \in SP!StopNumbers : i > p.n => p.leg[i] = 0
  BY ParcelsAssumption DEF SP!Parcel, Send!Parcel, SP!StopNumbers, Send!StopNumbers,
      SP!MaxStops, Send!MaxStops
<1>4. SP!Good
  BY <1>1, <1>2, <1>3, SameSend, SP!NextStep
<1> QED
  BY <1>4 DEF SP!Good, SP!OrdersInv, SP!TypeOK, SP!CustomerNotOverdrawn, UsersOK,
      CustomerNotOverdrawn

\* A step of another service leaves alone what a service keeps to itself.
LEMMA RideAside ==
    ASSUME RP!OrdersInv, UsersOK', UNCHANGED rideVars
    PROVE  RP!OrdersInv' /\ RP!FinalKept /\ RP!PromiseStep
<1>1. ride' = ride /\ ridePosted' = ridePosted /\ rideReq' = rideReq
  BY DEF rideVars
<1>2. RP!TypeOK' /\ RP!CustomerNotOverdrawn'
  BY <1>1 DEF RP!OrdersInv, RP!TypeOK, RP!CustomerNotOverdrawn, UsersOK,
      CustomerNotOverdrawn
<1>3. RP!RowsOK' /\ RP!LiveLedger' /\ RP!EscrowBacksRide' /\ RP!CancelledRefund'
      /\ RP!SettledSplit'
  BY <1>1 DEF RP!OrdersInv, RP!RowsOK, RP!LiveLedger, RP!EscrowBacksRide,
      RP!CancelledRefund, RP!SettledSplit
<1>4. RP!FinalKept /\ RP!PromiseStep
  BY <1>1 DEF RP!FinalKept, RP!PromiseStep, RP!Promise!vars
<1> QED
  BY <1>2, <1>3, <1>4 DEF RP!OrdersInv

LEMMA FoodAside ==
    ASSUME FP!OrdersInv, UsersOK', UNCHANGED foodVars
    PROVE  FP!OrdersInv' /\ FP!FinalKept /\ FP!PromiseStep
<1>1. food' = food /\ foodPosted' = foodPosted /\ foodReq' = foodReq
  BY DEF foodVars
<1>2. FP!TypeOK' /\ FP!CustomerNotOverdrawn'
  BY <1>1 DEF FP!OrdersInv, FP!TypeOK, FP!CustomerNotOverdrawn, UsersOK,
      CustomerNotOverdrawn
<1>3. FP!RowsOK' /\ FP!KitchenInStep' /\ FP!LiveLedger' /\ FP!ReadingOK'
      /\ FP!SettledSplit'
  BY <1>1 DEF FP!OrdersInv, FP!RowsOK, FP!KitchenInStep, FP!LiveLedger, FP!ReadingOK,
      FP!SettledSplit
<1>4. FP!FinalKept /\ FP!PromiseStep
  BY <1>1 DEF FP!FinalKept, FP!PromiseStep, FP!Promise!vars
<1> QED
  BY <1>2, <1>3, <1>4 DEF FP!OrdersInv

LEMMA SendAside ==
    ASSUME SP!OrdersInv, UsersOK', UNCHANGED sendVars
    PROVE  SP!OrdersInv' /\ SP!FinalKept /\ SP!PromiseStep
<1>1. send' = send /\ stops' = stops /\ sendPosted' = sendPosted /\ sendReq' = sendReq
  BY DEF sendVars
<1>2. SP!TypeOK' /\ SP!CustomerNotOverdrawn'
  BY <1>1 DEF SP!OrdersInv, SP!TypeOK, SP!CustomerNotOverdrawn, UsersOK,
      CustomerNotOverdrawn
<1>3. SP!RowsOK' /\ SP!LiveLedger' /\ SP!ReadingOK' /\ SP!SettledSplit'
  BY <1>1 DEF SP!OrdersInv, SP!RowsOK, SP!LiveLedger, SP!ReadingOK, SP!SettledSplit
<1>4. SP!FinalKept /\ SP!PromiseStep
  BY <1>1 DEF SP!FinalKept, SP!PromiseStep, SP!Promise!vars
<1> QED
  BY <1>2, <1>3, <1>4 DEF SP!OrdersInv

-----------------------------------------------------------------------------
(* The drivers' duty over all services *)

AllOrders == Rides \cup Meals \cup Parcelled

DutyStep == [Duty!Next]_(Duty!vars)

\* One(c, w): w says of each driver whether c hands the driver an order, and c
\* hands none of them two.
One(c, w) ==
    /\ \A d \in Drivers : w[d] = "BUSY" <=> \E o \in AllOrders : c[o] = d
    /\ \A o, p \in AllOrders : c[o] = c[p] /\ c[o] # None => o = p

\* A step that keeps the duty over the orders of one service, and does not touch
\* who carries any other order, keeps it over all orders.
LEMMA PartStep ==
    ASSUME NEW part \in SUBSET AllOrders, NEW c, NEW d,
           c = [o \in part |-> Carrier(o)],
           d = [o \in part |-> Carrier(o)'],
           \A o \in AllOrders \ part : Carrier(o)' = Carrier(o),
           \/ d = c /\ drvWork' = drvWork
           \/ \E x \in Drivers, o \in part :
                 /\ c[o] = None /\ drvWork[x] = "IDLE"
                 /\ d = [c EXCEPT ![o] = x]
                 /\ drvWork' = [drvWork EXCEPT ![x] = "BUSY"]
           \/ \E o \in part :
                 /\ c[o] # None
                 /\ d = [c EXCEPT ![o] = None]
                 /\ drvWork' = [drvWork EXCEPT ![c[o]] = "IDLE"]
    PROVE  DutyStep
<1> DEFINE all  == [o \in AllOrders |-> Carrier(o)]
           next == [o \in AllOrders |-> Carrier(o)']
<1>1. \A o \in AllOrders : /\ all[o] = Carrier(o)
                           /\ next[o] = Carrier(o)'
                           /\ o \in part => c[o] = all[o] /\ d[o] = next[o]
                           /\ o \notin part => next[o] = all[o]
  OBVIOUS
<1>2. CASE d = c /\ drvWork' = drvWork
  <2>1. next = all
    BY <1>1, <1>2
  <2> QED
    BY <1>2, <2>1 DEF DutyStep, Duty!vars, AllOrders
<1>3. ASSUME NEW x \in Drivers, NEW o \in part,
             c[o] = None, drvWork[x] = "IDLE", d = [c EXCEPT ![o] = x],
             drvWork' = [drvWork EXCEPT ![x] = "BUSY"]
      PROVE  DutyStep
  <2>1. all[o] = None /\ next = [all EXCEPT ![o] = x]
    <3>1. \A p \in AllOrders : next[p] = IF p = o THEN x ELSE all[p]
      BY <1>1, <1>3
    <3> QED
      BY <1>1, <1>3, <3>1
  <2>2. Duty!Take(x, o)
    BY <1>3, <2>1 DEF Duty!Take, AllOrders
  <2> QED
    BY <2>2 DEF DutyStep, Duty!Next, AllOrders
<1>4. ASSUME NEW o \in part,
             c[o] # None, d = [c EXCEPT ![o] = None],
             drvWork' = [drvWork EXCEPT ![c[o]] = "IDLE"]
      PROVE  DutyStep
  <2>1. all[o] # None /\ all[o] = c[o] /\ next = [all EXCEPT ![o] = None]
    <3>1. \A p \in AllOrders : next[p] = IF p = o THEN None ELSE all[p]
      BY <1>1, <1>4
    <3> QED
      BY <1>1, <1>4, <3>1
  <2>2. Duty!Release(o)
    BY <1>4, <2>1 DEF Duty!Release, AllOrders
  <2> QED
    BY <2>2 DEF DutyStep, Duty!Next, AllOrders
<1> QED
  BY <1>2, <1>3, <1>4

LEMMA RideDuty == ASSUME RP!DutyStep, UNCHANGED <<foodVars, sendVars>> PROVE DutyStep
<1> DEFINE c == [o \in Rides |-> Carrier(o)]
           d == [o \in Rides |-> Carrier(o)']
<1>1. /\ c = [o \in Rides |-> RP!Carrier(ride[o])]
      /\ d = [o \in Rides |-> RP!Carrier(ride'[o])]
  BY DEF Carrier, Ride!Carrier, RP!Carrier, Ride!Assigned, RP!Assigned
<1>2. \A o \in AllOrders \ Rides : Carrier(o)' = Carrier(o)
  BY DEF AllOrders, Carrier, foodVars, sendVars
<1>3. \/ d = c /\ drvWork' = drvWork
      \/ \E x \in Drivers, o \in Rides :
            /\ c[o] = None /\ drvWork[x] = "IDLE"
            /\ d = [c EXCEPT ![o] = x]
            /\ drvWork' = [drvWork EXCEPT ![x] = "BUSY"]
      \/ \E o \in Rides :
            /\ c[o] # None
            /\ d = [c EXCEPT ![o] = None]
            /\ drvWork' = [drvWork EXCEPT ![c[o]] = "IDLE"]
  BY <1>1 DEF RP!DutyStep, RP!Duty!Next, RP!Duty!Take, RP!Duty!Release, RP!Duty!vars
<1> QED
  <2> HIDE DEF c, d
  <2>1. Rides \in SUBSET AllOrders
    BY DEF AllOrders
  <2> QED
    BY <1>2, <1>3, <2>1, PartStep DEF c, d

LEMMA FoodDuty == ASSUME FP!DutyStep, UNCHANGED <<rideVars, sendVars>> PROVE DutyStep
<1> DEFINE c == [o \in Meals |-> Carrier(o)]
           d == [o \in Meals |-> Carrier(o)']
<1>1. /\ c = [o \in Meals |-> FP!Carrier(food[o])]
      /\ d = [o \in Meals |-> FP!Carrier(food'[o])]
  BY NamesAssumption DEF Carrier, Food!Carrier, FP!Carrier, Food!Carried, FP!Carried
<1>2. \A o \in AllOrders \ Meals : Carrier(o)' = Carrier(o)
  BY DEF AllOrders, Carrier, rideVars, sendVars
<1>3. \/ d = c /\ drvWork' = drvWork
      \/ \E x \in Drivers, o \in Meals :
            /\ c[o] = None /\ drvWork[x] = "IDLE"
            /\ d = [c EXCEPT ![o] = x]
            /\ drvWork' = [drvWork EXCEPT ![x] = "BUSY"]
      \/ \E o \in Meals :
            /\ c[o] # None
            /\ d = [c EXCEPT ![o] = None]
            /\ drvWork' = [drvWork EXCEPT ![c[o]] = "IDLE"]
  BY <1>1 DEF FP!DutyStep, FP!Duty!Next, FP!Duty!Take, FP!Duty!Release, FP!Duty!vars
<1> QED
  <2> HIDE DEF c, d
  <2>1. Meals \in SUBSET AllOrders
    BY DEF AllOrders
  <2> QED
    BY <1>2, <1>3, <2>1, PartStep DEF c, d

LEMMA SendDuty == ASSUME SP!DutyStep, UNCHANGED <<rideVars, foodVars>> PROVE DutyStep
<1> DEFINE c == [o \in Parcelled |-> Carrier(o)]
           d == [o \in Parcelled |-> Carrier(o)']
<1>1. /\ c = [o \in Parcelled |-> SP!Carrier(send[o])]
      /\ d = [o \in Parcelled |-> SP!Carrier(send'[o])]
  BY NamesAssumption DEF Carrier, Send!Carrier, SP!Carrier, Send!Carried, SP!Carried
<1>2. \A o \in AllOrders \ Parcelled : Carrier(o)' = Carrier(o)
  BY DEF AllOrders, Carrier, rideVars, foodVars
<1>3. \/ d = c /\ drvWork' = drvWork
      \/ \E x \in Drivers, o \in Parcelled :
            /\ c[o] = None /\ drvWork[x] = "IDLE"
            /\ d = [c EXCEPT ![o] = x]
            /\ drvWork' = [drvWork EXCEPT ![x] = "BUSY"]
      \/ \E o \in Parcelled :
            /\ c[o] # None
            /\ d = [c EXCEPT ![o] = None]
            /\ drvWork' = [drvWork EXCEPT ![c[o]] = "IDLE"]
  BY <1>1 DEF SP!DutyStep, SP!Duty!Next, SP!Duty!Take, SP!Duty!Release, SP!Duty!vars
<1> QED
  <2> HIDE DEF c, d
  <2>1. Parcelled \in SUBSET AllOrders
    BY DEF AllOrders
  <2> QED
    BY <1>2, <1>3, <2>1, PartStep DEF c, d

-----------------------------------------------------------------------------
(* The inductive invariant *)

\* What every step of one service or the other does.
Kept ==
    /\ ServicesInv'
    /\ RP!FinalKept /\ FP!FinalKept /\ SP!FinalKept
    /\ RP!PromiseStep /\ FP!PromiseStep /\ SP!PromiseStep
    /\ DutyStep

LEMMA StepKept == ASSUME ServicesInv, [Next]_vars PROVE Kept
<1>1. CASE RideStep
  <2>1. RP!Good /\ UsersOK'
    BY <1>1, RideGood DEF RideStep, ServicesInv
  <2>2. UNCHANGED foodVars /\ UNCHANGED sendVars
    BY <1>1 DEF RideStep
  <2>3. /\ FP!OrdersInv' /\ FP!FinalKept /\ FP!PromiseStep
        /\ SP!OrdersInv' /\ SP!FinalKept /\ SP!PromiseStep
    BY <2>1, <2>2, FoodAside, SendAside DEF ServicesInv
  <2>4. DutyStep
    BY <2>1, <2>2, RideDuty DEF RP!Good
  <2> QED
    BY <2>1, <2>3, <2>4 DEF Kept, ServicesInv, RP!Good
<1>2. CASE FoodStep
  <2>1. FP!Good /\ UsersOK'
    BY <1>2, FoodGood DEF FoodStep, ServicesInv
  <2>2. UNCHANGED rideVars /\ UNCHANGED sendVars
    BY <1>2 DEF FoodStep
  <2>3. /\ RP!OrdersInv' /\ RP!FinalKept /\ RP!PromiseStep
        /\ SP!OrdersInv' /\ SP!FinalKept /\ SP!PromiseStep
    BY <2>1, <2>2, RideAside, SendAside DEF ServicesInv
  <2>4. DutyStep
    BY <2>1, <2>2, FoodDuty DEF FP!Good
  <2> QED
    BY <2>1, <2>3, <2>4 DEF Kept, ServicesInv, FP!Good
<1>3. CASE SendStep
  <2>1. SP!Good /\ UsersOK'
    BY <1>3, SendGood DEF SendStep, ServicesInv
  <2>2. UNCHANGED rideVars /\ UNCHANGED foodVars
    BY <1>3 DEF SendStep
  <2>3. /\ RP!OrdersInv' /\ RP!FinalKept /\ RP!PromiseStep
        /\ FP!OrdersInv' /\ FP!FinalKept /\ FP!PromiseStep
    BY <2>1, <2>2, RideAside, FoodAside DEF ServicesInv
  <2>4. DutyStep
    BY <2>1, <2>2, SendDuty DEF SP!Good
  <2> QED
    BY <2>1, <2>3, <2>4 DEF Kept, ServicesInv, SP!Good
<1>4. CASE UNCHANGED vars
  <2>1. UNCHANGED rideVars /\ UNCHANGED foodVars /\ UNCHANGED sendVars /\ UNCHANGED users
    BY <1>4 DEF vars
  <2>2. UsersOK'
    BY <2>1 DEF ServicesInv, RP!OrdersInv, RP!TypeOK, RP!CustomerNotOverdrawn, UsersOK,
        CustomerNotOverdrawn, users
  <2>3. DutyStep
    BY <2>1 DEF DutyStep, Duty!vars, Carrier, rideVars, foodVars, sendVars, users
  <2> QED
    BY <2>1, <2>2, <2>3, RideAside, FoodAside, SendAside DEF Kept, ServicesInv
<1> QED
  BY <1>1, <1>2, <1>3, <1>4 DEF Next

\* Who carries what, told by the orders of all services.
LEMMA CarriedIs ==
    ASSUME ServicesInv
    PROVE  /\ \A o \in AllOrders : Carrier(o) \in Drivers \cup {None}
           /\ \A d \in Drivers : Carried(d) = {o \in AllOrders : Carrier(o) = d}
<1>1. /\ \A o \in Rides : ride[o].driver \in Drivers \cup {None}
      /\ \A o \in Meals : food[o].driver \in Drivers \cup {None}
      /\ \A o \in Parcelled : send[o].driver \in Drivers \cup {None}
  BY DEF ServicesInv, RP!OrdersInv, RP!TypeOK, RP!Row, FP!OrdersInv, FP!TypeOK, FP!Row,
      SP!OrdersInv, SP!TypeOK, SP!Row
<1>2. \A o \in AllOrders :
         /\ o \in Rides => Carrier(o) = Ride!Carrier(ride[o])
         /\ o \in Meals => Carrier(o) = Food!Carrier(food[o])
         /\ o \in Parcelled => Carrier(o) = Send!Carrier(send[o])
  BY NamesAssumption DEF Carrier
<1>3. \A o \in AllOrders : Carrier(o) \in Drivers \cup {None}
  BY <1>1, <1>2 DEF AllOrders, Ride!Carrier, Food!Carrier, Send!Carrier
<1>4. ASSUME NEW d \in Drivers PROVE Carried(d) = {o \in AllOrders : Carrier(o) = d}
  <2>1. d # None
    BY NamesAssumption
  <2>2. /\ \A o \in Rides : Carrier(o) = d <=>
              ride[o].driver = d /\ ride[o].status \in Ride!Assigned
        /\ \A o \in Meals : Carrier(o) = d <=>
              food[o].driver = d /\ food[o].status \in Food!Carried
        /\ \A o \in Parcelled : Carrier(o) = d <=>
              send[o].driver = d /\ send[o].status \in Send!Carried
    BY <1>2, <2>1 DEF AllOrders, Ride!Carrier, Food!Carrier, Send!Carrier
  <2> QED
    BY <2>2 DEF Carried, AllOrders
<1> QED
  BY <1>3, <1>4

OneCarrier == One([o \in AllOrders |-> Carrier(o)], drvWork)

\* working_status stays inductive once it is told by the carriers alone, and the
\* states of the orders of each service are left to their own invariants.
IndInv == ServicesInv /\ OneCarrier

LEMMA IndInvSays == IndInv => OneOrderAnywhere /\ CustomerNotOverdrawn
<1> SUFFICES ASSUME IndInv PROVE OneOrderAnywhere /\ CustomerNotOverdrawn
  OBVIOUS
<1>1. CustomerNotOverdrawn
  BY DEF IndInv, ServicesInv, RP!OrdersInv, RP!CustomerNotOverdrawn, CustomerNotOverdrawn
<1>2. OneOrderAnywhere
  <2>1. \A d \in Drivers : Carried(d) = {o \in AllOrders : Carrier(o) = d} /\ d # None
    BY CarriedIs, NamesAssumption DEF IndInv
  <2>2. /\ \A d \in Drivers :
              drvWork[d] = "BUSY" <=> \E o \in AllOrders : Carrier(o) = d
        /\ \A o, p \in AllOrders :
              Carrier(o) = Carrier(p) /\ Carrier(o) # None => o = p
    BY DEF IndInv, OneCarrier, One
  <2> QED
    BY <2>1, <2>2 DEF OneOrderAnywhere
<1> QED
  BY <1>1, <1>2

\* At the start each service is empty and nobody carries anything.
LEMMA InitIndInv == Init => IndInv /\ Duty!Init
<1> SUFFICES ASSUME Init PROVE IndInv /\ Duty!Init
  OBVIOUS
<1>1. RP!OrdersInv
  <2>1. /\ Fares \subseteq Nat \ {0}
        /\ Discounts \subseteq Nat
        /\ ActualFares \subseteq Nat
        /\ FeeAssigned \in Nat \ {0}
        /\ FeeArrived \in Nat \ {0}
        /\ MinBalance \in Nat
        /\ NegativeCeiling \in Int
        /\ CustStart \subseteq Nat
        /\ DrvStart \subseteq Int
    BY AmountsAssumption
  <2>2. /\ None \notin Customers \cup Drivers
        /\ Customers \cap Drivers = {}
    BY NamesAssumption
  <2> QED
    BY <2>1, <2>2, SameRide, RP!InitIndInv DEF Init, RP!IndInv
<1>2. FP!OrdersInv
  <2>1. /\ Subtotals \subseteq Nat \ {0}
        /\ DeliveryFee \in Nat \ {0}
        /\ DeliveryFee % 10 = 0
        /\ NegativeCeiling \in Int
        /\ CustStart \subseteq Nat
        /\ DrvStart \subseteq Int
    BY AmountsAssumption
  <2>2. /\ None \notin Customers \cup Merchants \cup Drivers
        /\ Customers \cap Merchants = {}
        /\ Customers \cap Drivers = {}
        /\ Merchants \cap Drivers = {}
    BY NamesAssumption
  <2> QED
    BY <2>1, <2>2, SameFood, FP!InitIndInv DEF Init, FP!IndInv
<1>3. SP!OrdersInv
  <2>1. /\ NegativeCeiling \in Int
        /\ MinBalance \in Int
        /\ CustStart \subseteq Nat
        /\ DrvStart \subseteq Int
    BY AmountsAssumption
  <2>2. /\ None \notin Customers \cup Drivers \cup Parcels
        /\ Customers \cap Drivers = {}
    BY NamesAssumption
  <2>3. /\ Parcels \subseteq SP!Parcel
        /\ \A p \in Parcels : \A i \in SP!StopNumbers : i > p.n => p.leg[i] = 0
    BY ParcelsAssumption DEF SP!Parcel, Send!Parcel, SP!StopNumbers, Send!StopNumbers,
        SP!MaxStops, Send!MaxStops
  <2> QED
    BY <2>1, <2>2, <2>3, SameSend, SP!InitIndInv DEF Init, SP!IndInv
<1>4. \A o \in AllOrders : Carrier(o) = None
  BY DEF AllOrders, Init, Carrier, Ride!Init, Ride!NoRow, Ride!Carrier, Ride!Assigned,
      Food!Init, Food!NoRow, Food!Carrier, Food!Carried,
      Send!Init, Send!NoRow, Send!Carrier, Send!Carried
<1>5. drvWork = [d \in Drivers |-> "IDLE"]
  BY DEF Init, Ride!Init
<1>6. OneCarrier
  BY <1>4, <1>5, NamesAssumption DEF OneCarrier, One
<1>7. Duty!Init
  BY <1>4, <1>5 DEF Duty!Init, AllOrders
<1> QED
  BY <1>1, <1>2, <1>3, <1>6, <1>7 DEF IndInv, ServicesInv

\* An idle driver is taken by one order, and what frees a busy one is the end of the
\* only order the driver had.
LEMMA OneCarrierStep == ASSUME IndInv, Kept PROVE OneCarrier'
<1> DEFINE c == [o \in AllOrders |-> Carrier(o)]
           d == [o \in AllOrders |-> Carrier(o)']
<1>1. One(c, drvWork)
  BY DEF IndInv, OneCarrier
<1>2. \A o \in AllOrders : c[o] \in Drivers \cup {None}
  BY CarriedIs DEF IndInv
<1>3. drvWork \in [Drivers -> {"IDLE", "BUSY"}] /\ c = [o \in AllOrders |-> c[o]]
  BY DEF IndInv, ServicesInv, RP!OrdersInv, RP!TypeOK
<1>4. One(d, drvWork')
  <2>1. CASE UNCHANGED Duty!vars
    <3>1. d = c /\ drvWork' = drvWork
      BY <2>1 DEF Duty!vars, AllOrders
    <3> QED
      BY <1>1, <3>1
  <2>2. ASSUME NEW x \in Drivers, NEW o \in AllOrders, Duty!Take(x, o)
        PROVE  One(d, drvWork')
    <3>1. /\ c[o] = None /\ drvWork[x] = "IDLE"
          /\ d = [c EXCEPT ![o] = x]
          /\ drvWork' = [drvWork EXCEPT ![x] = "BUSY"]
      BY <2>2 DEF Duty!Take, AllOrders
    <3> HIDE DEF c, d
    <3> QED
      BY <1>1, <1>2, <1>3, <3>1, NamesAssumption DEF One
  <2>3. ASSUME NEW o \in AllOrders, Duty!Release(o)
        PROVE  One(d, drvWork')
    <3>1. /\ c[o] # None
          /\ d = [c EXCEPT ![o] = None]
          /\ drvWork' = [drvWork EXCEPT ![c[o]] = "IDLE"]
      BY <2>3 DEF Duty!Release, AllOrders
    <3> HIDE DEF c, d
    <3> QED
      BY <1>1, <1>2, <1>3, <3>1, NamesAssumption DEF One
  <2> QED
    BY <2>1, <2>2, <2>3 DEF Kept, DutyStep, Duty!Next, AllOrders
<1> QED
  BY <1>4 DEF OneCarrier

-----------------------------------------------------------------------------
(* Theorems *)

\* The invariant of all services holds, whatever the sets of users and orders,
\* whatever the amounts and however many requests are in flight.
THEOREM GFlowInvariant == Spec => []IndInv
<1>1. Init => IndInv
  BY InitIndInv
<1>2. IndInv /\ [Next]_vars => IndInv'
  BY StepKept, OneCarrierStep DEF IndInv, Kept
<1> QED
  BY <1>1, <1>2, PTL DEF Spec

\* A driver has one ride, meal or parcel at a time, and is BUSY exactly as long,
\* although no service looks at the orders of another (AcceptOrder,
\* AcceptFoodOrder and AcceptSendOrder under the driver's row lock).
THEOREM GFlowOneOrder == Spec => []OneOrderAnywhere
<1>1. IndInv => OneOrderAnywhere
  BY IndInvSays
<1> QED
  BY <1>1, GFlowInvariant, PTL

\* Three services drawing on one wallet never overdraw it (holdEscrow and
\* collectShortfallDelta compare the balance under the wallet's lock).
THEOREM GFlowNoOverdraft == Spec => []CustomerNotOverdrawn
<1>1. IndInv => CustomerNotOverdrawn
  BY IndInvSays
<1> QED
  BY <1>1, GFlowInvariant, PTL

\* Over all services, working_status goes to BUSY only from IDLE and for one order,
\* and to IDLE only by the end of that order: the services together implement the
\* drivers' duty.
THEOREM GFlowKeepsDuty == Spec => KeepsDuty
<1>1. Init => Duty!Init
  BY InitIndInv
<1>2. IndInv /\ [Next]_vars => [Duty!Next]_(Duty!vars)
  BY StepKept DEF IndInv, Kept, DutyStep
<1> QED
  BY <1>1, <1>2, GFlowInvariant, PTL DEF Spec, KeepsDuty, Duty!Spec

\* Sharing the users changes nothing in what each service says of its own orders:
\* the escrow of every live ride is there and what ended was split, refunded or
\* settled as it is for the service alone, though the balances move under it.
THEOREM GFlowServices ==
    Spec => []/\ Ride!EscrowBacksRide /\ Ride!CancelledRefund /\ Ride!SettledSplit
              /\ Food!KitchenInStep /\ Food!SettledSplit
              /\ Send!SettledSplit
<1>1. IndInv => /\ Ride!EscrowBacksRide /\ Ride!CancelledRefund /\ Ride!SettledSplit
                /\ Food!KitchenInStep /\ Food!SettledSplit
                /\ Send!SettledSplit
  BY SameRide, SameFood, SameSend DEF IndInv, ServicesInv, Ride!OrdersInv,
      Food!OrdersInv, Send!OrdersInv
<1> QED
  BY <1>1, GFlowInvariant, PTL

\* An order that ended stays as it is, whatever any service does next.
THEOREM GFlowFinal == Spec => Ride!FinalIsFinal /\ Food!FinalIsFinal /\ Send!FinalIsFinal
<1>1. IndInv /\ [Next]_vars => /\ [Ride!FinalKept]_(Ride!vars)
                               /\ [Food!FinalKept]_(Food!vars)
                               /\ [Send!FinalKept]_(Send!vars)
  <2> SUFFICES ASSUME IndInv, [Next]_vars
               PROVE  Ride!FinalKept /\ Food!FinalKept /\ Send!FinalKept
    OBVIOUS
  <2>1. RP!FinalKept /\ FP!FinalKept /\ SP!FinalKept
    BY StepKept DEF IndInv, Kept
  <2> QED
    BY <2>1 DEF RP!FinalKept, FP!FinalKept, SP!FinalKept, Ride!FinalKept,
        Food!FinalKept, Send!FinalKept, RP!Final, FP!Final, SP!Final, Ride!Final,
        Food!Final, Send!Final
<1> QED
  BY <1>1, GFlowInvariant, PTL
     DEF Spec, Ride!FinalIsFinal, Food!FinalIsFinal, Send!FinalIsFinal

\* Each service goes on keeping the promise of the escrow for its orders while the
\* other two move the same wallets.
THEOREM GFlowKeepsPromises ==
    Spec => Ride!KeepsPromise /\ Food!KeepsPromise /\ Send!KeepsPromise
<1>1. Init => Ride!Promise!Init /\ Food!Promise!Init /\ Send!Promise!Init
  <2> SUFFICES ASSUME Init
               PROVE  Ride!Promise!Init /\ Food!Promise!Init /\ Send!Promise!Init
    OBVIOUS
  <2>1. Ride!Promise!Init
    BY DEF Init, Ride!Init, Ride!Zero, Ride!Moved, Ride!NoRow, Ride!Phase,
        Ride!Promise!Init
  <2>2. Food!Promise!Init
    BY DEF Init, Food!Init, Food!Zero, Food!Moved, Food!NoRow, Food!Phase,
        Food!Promise!Init
  <2>3. Send!Promise!Init
    BY DEF Init, Send!Init, Send!Zero, Send!Moved, Send!NoRow, Send!Phase,
        Send!Promise!Init
  <2> QED
    BY <2>1, <2>2, <2>3
<1>2. IndInv /\ [Next]_vars =>
          /\ [Ride!Promise!Next]_(Ride!Promise!vars)
          /\ [Food!Promise!Next]_(Food!Promise!vars)
          /\ [Send!Promise!Next]_(Send!Promise!vars)
  <2> SUFFICES ASSUME IndInv, [Next]_vars
               PROVE  /\ [Ride!Promise!Next]_(Ride!Promise!vars)
                      /\ [Food!Promise!Next]_(Food!Promise!vars)
                      /\ [Send!Promise!Next]_(Send!Promise!vars)
    OBVIOUS
  <2>1. RP!PromiseStep /\ FP!PromiseStep /\ SP!PromiseStep
    BY StepKept DEF IndInv, Kept
  <2>2. [Ride!Promise!Next]_(Ride!Promise!vars)
    BY <2>1, Zenon DEF RP!PromiseStep, RP!Promise!Next, RP!Promise!Open,
        RP!Promise!Close, RP!Promise!vars, RP!Phase, RP!Live, RP!Assigned,
        Ride!Promise!Next, Ride!Promise!Open, Ride!Promise!Close, Ride!Promise!vars,
        Ride!Phase, Ride!Live, Ride!Assigned
  <2>3. [Food!Promise!Next]_(Food!Promise!vars)
    BY <2>1, Zenon DEF FP!PromiseStep, FP!Promise!Next, FP!Promise!Open,
        FP!Promise!Close, FP!Promise!vars, FP!Phase, FP!Live, FP!Unanswered,
        FP!Carried, Food!Promise!Next, Food!Promise!Open, Food!Promise!Close,
        Food!Promise!vars, Food!Phase, Food!Live, Food!Unanswered, Food!Carried
  <2>4. [Send!Promise!Next]_(Send!Promise!vars)
    BY <2>1, Zenon DEF SP!PromiseStep, SP!Promise!Next, SP!Promise!Open,
        SP!Promise!Close, SP!Promise!vars, SP!Phase, SP!Live, SP!Carried,
        Send!Promise!Next, Send!Promise!Open, Send!Promise!Close, Send!Promise!vars,
        Send!Phase, Send!Live, Send!Carried
  <2> QED
    BY <2>2, <2>3, <2>4
<1> QED
  BY <1>1, <1>2, GFlowInvariant, PTL
     DEF Spec, Ride!KeepsPromise, Food!KeepsPromise, Send!KeepsPromise,
         Ride!Promise!Spec, Food!Promise!Spec, Send!Promise!Spec

=============================================================================
