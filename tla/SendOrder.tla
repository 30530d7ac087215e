------------------------------ MODULE SendOrder ------------------------------
(***************************************************************************)
(* The life of a G-Send order: a parcel with one to three drop-off stops   *)
(* is priced and posted, a driver accepts it, picks it up and reports each *)
(* stop; the last stop delivered settles the order; sender and driver may  *)
(* cancel, and the worker cancels orders that found no driver              *)
(* (internal/send/service.go, internal/send/repository.go,                 *)
(* internal/worker/worker.go).                                             *)
(*                                                                         *)
(* As in RideOrder and FoodOrder, a transaction over locked rows is one    *)
(* action, what is read before the transaction is a step of its own kept   *)
(* in req, and a failing branch is a guard.  Amounts are hundredths of a   *)
(* rupiah, distances metres, weights grams.                                *)
(***************************************************************************)
EXTENDS Integers

CONSTANTS
    Customers, Drivers, \* users of the two types
    Orders,             \* identifiers of send_orders rows
    Requests,           \* HTTP requests in flight at one time
    Parcels,            \* parcels that may be sent
    NegativeCeiling,    \* sendMaxDriverNegativeBalance
    MinBalance,         \* users.min_balance_threshold of the drivers
    CustStart, DrvStart,\* balances a wallet may start from
    None

MaxStops == 3
StopNumbers == 1..MaxStops

\* A parcel: n stops, the distance of each from the one before (those past n
\* are zero), its weight and its declared value.
Parcel == [n : StopNumbers, leg : [StopNumbers -> Nat], weight : Nat, value : Nat]

ASSUME ParcelsAssumption ==
    /\ Parcels \subseteq Parcel
    /\ \A p \in Parcels : \A i \in StopNumbers : i > p.n => p.leg[i] = 0

ASSUME AmountsAssumption ==
    /\ NegativeCeiling \in Int
    /\ MinBalance \in Int
    /\ CustStart \subseteq Nat
    /\ DrvStart \subseteq Int

ASSUME NamesAssumption ==
    /\ None \notin Customers \cup Drivers \cup Parcels
    /\ Customers \cap Drivers = {}

VARIABLES
    order,      \* rows of send_orders
    stops,      \* status of the rows of send_order_stops, by order and number
    custBal,    \* wallets.balance of the CUSTOMER wallets
    drvBal,     \* wallets.balance of the DRIVER wallets
    debt,       \* users.overdue_debt
    drvStatus,  \* users.status of the drivers
    drvWork,    \* users.working_status of the drivers
    posted,     \* net effect of the ledger_entries of each order, by wallet
    req         \* what each request in flight has read so far

vars == <<order, stops, custBal, drvBal, debt, drvStatus, drvWork, posted, req>>

-----------------------------------------------------------------------------
(* Rows and requests *)

Carried == {"DRIVER_ASSIGNED", "PICKED_UP", "IN_TRANSIT"}
Live    == {"SEARCHING_DRIVER"} \cup Carried
Final   == {"CANCELLED", "SETTLED"}

StopStatus  == {"PENDING", "PICKED_UP", "DELIVERED", "CANCELLED"}
StopTargets == {"PICKED_UP", "DELIVERED", "CANCELLED"}
Stop        == Orders \X StopNumbers

\* The driver's steps.
Carry == {<<"DRIVER_ASSIGNED", "PICKED_UP">>, <<"PICKED_UP", "IN_TRANSIT">>,
          <<"IN_TRANSIT", "DELIVERED">>}

Targets == {"PICKED_UP", "IN_TRANSIT", "DELIVERED", "CANCELLED"}

\* A row of send_orders; overdue says that ten minutes have passed since
\* created_at.
Row == [status   : Live \cup Final \cup {"NONE"},
        customer : Customers \cup {None},
        driver   : Drivers \cup {None},
        pay      : {"WALLET", "CASH"},
        parcel   : Parcels \cup {None},
        settled  : BOOLEAN,
        overdue  : BOOLEAN]

NoRow == [status |-> "NONE", customer |-> None, driver |-> None, pay |-> "CASH",
          parcel |-> None, settled |-> FALSE, overdue |-> FALSE]

\* Net change of the four wallets an order's ledger entries touch.
Net == [escrow : Int, customer : Int, driver : Int, platform : Int]

Moved(e, c, d, p) == [escrow |-> e, customer |-> c, driver |-> d, platform |-> p]

Zero == Moved(0, 0, 0, 0)

Plus(a, b) == Moved(a.escrow + b.escrow, a.customer + b.customer,
                    a.driver + b.driver, a.platform + b.platform)

\* A priced parcel, an acceptance that passed its checks, a status change and
\* a stop report that read their order.  Asked is what validateSendTransition
\* let through.
Posting == [op : {"create"}, customer : Customers, parcel : Parcels]
Accept  == [op : {"accept"}, driver : Drivers, order : Orders]

Asked(p) ==
    \/ <<p.seen, p.target>> \in Carry /\ p.actor \in Drivers
    \/ p.target = "CANCELLED" /\ p.actor \in Customers /\ p.seen = "SEARCHING_DRIVER"
    \/ p.target = "CANCELLED" /\ p.actor \in Drivers /\ p.seen \in Carried

Patch == {p \in [op : {"patch"}, order : Orders, actor : Customers \cup Drivers,
                 target : Targets, seen : Live] : Asked(p)}

Report == [op : {"stop"}, order : Orders, actor : Drivers, target : StopTargets,
           seen : {"PICKED_UP", "IN_TRANSIT"}, at : Stop]

InFlight == Posting \cup Accept \cup Patch \cup Report

-----------------------------------------------------------------------------
(* Amounts *)

\* calculateDistances
Distance(p) == p.leg[1] + p.leg[2] + p.leg[3]

\* Half-up division, as decimal's Round for amounts that are not negative.
RoundDiv(a, b) == (a + b \div 2) \div b

\* 2.000 for each kilogram above five.
WeightSurcharge(p) == IF p.weight > 5000 THEN 200 * (p.weight - 5000) ELSE 0

\* 1% of a declared value above 100.000, at most 50.000.
InsuranceFee(p) ==
    IF p.value <= 10000000 THEN 0
    ELSE IF RoundDiv(p.value, 100) > 5000000 THEN 5000000 ELSE RoundDiv(p.value, 100)

\* calculateFare: 15.000, 3.000 for a kilometre, and the two surcharges.
TotalFare(p) == 1500000 + 300 * Distance(p) + WeightSurcharge(p) + InsuranceFee(p)

\* The quotient of two distances is a decimal of 16 places, the last one rounded
\* half up: what long division leaves after them.
LeftAfterPlaces(a, d) ==
    LET r[k \in 0..16] == IF k = 0 THEN a % d ELSE (10 * r[k - 1]) % d
    IN  r[16]

\* The part of fare t for distance a of d: the fare times that quotient, rounded.
\* A quotient that was rounded down changes the result where the exact part lies on
\* half a hundredth, and nowhere else while t * d is below 10^16.
Part(t, a, d) ==
    IF /\ 2 * ((t * a) % d) = d
       /\ LeftAfterPlaces(a, d) > 0
       /\ 2 * LeftAfterPlaces(a, d) < d
    THEN (t * a) \div d
    ELSE RoundDiv(t * a, d)

\* allocateFares: the stops before the last share the fare by distance, the
\* last takes what remains, but never less than nothing.
Share(p, i) ==
    LET part(k) == Part(TotalFare(p), p.leg[k], Distance(p))
        before  == (IF p.n > 1 THEN part(1) ELSE 0) + (IF p.n > 2 THEN part(2) ELSE 0)
        rest    == TotalFare(p) - before
    IN  IF i > p.n THEN 0
        ELSE IF Distance(p) = 0 THEN IF i = p.n THEN TotalFare(p) ELSE 0
        ELSE IF i < p.n THEN part(i)
        ELSE IF rest < 0 THEN 0 ELSE rest

\* platform_commission, Round(0.10 * total_fare, 2).
Commission(fare) == RoundDiv(fare, 10)

\* Mutant of WalletSettlement: the driver gets the whole fare.
SettlementWholeFare(fare) == Moved(-fare, 0, fare, Commission(fare))

\* The escrow goes to the driver and the platform.
WalletSettlement(fare) == Moved(-fare, 0, fare - Commission(fare), Commission(fare))

\* The driver, who was paid in cash, hands over the commission.
CashSettlement(fare) == Moved(0, 0, -Commission(fare), Commission(fare))

-----------------------------------------------------------------------------
(* Steps shared by the actions *)

\* Insert ledger entries under reference o; the trigger on ledger_entries
\* moves the balances of the wallets in the same transaction.
Post(o, c, d, n) ==
    /\ posted' = [posted EXCEPT ![o] = Plus(posted[o], n)]
    /\ custBal' = [x \in Customers |->
                      IF x = c THEN custBal[x] + n.customer ELSE custBal[x]]
    /\ drvBal' = [x \in Drivers |->
                      IF x = d THEN drvBal[x] + n.driver ELSE drvBal[x]]

\* Mutant of DriverIdle: the update matches no row.
KeepDriverBusy(d) == UNCHANGED drvWork

\* UpdateDriverWorkingStatus to IDLE.
DriverIdle(d) ==
    drvWork' = [x \in Drivers |-> IF x = d THEN "IDLE" ELSE drvWork[x]]

Done(r) == req' = [req EXCEPT ![r] = None]

Fare(row) == TotalFare(row.parcel)

\* Every stop the parcel has is DELIVERED in st.
AllDelivered(row, st) == \A i \in 1..row.parcel.n : st[i] = "DELIVERED"

-----------------------------------------------------------------------------
Init ==
    /\ order = [o \in Orders |-> NoRow]
    /\ stops = [o \in Orders |-> [i \in StopNumbers |-> "PENDING"]]
    /\ custBal \in [Customers -> CustStart]
    /\ drvBal \in [Drivers -> DrvStart]
    /\ debt = [c \in Customers |-> 0]
    /\ drvStatus = [d \in Drivers |-> "ACTIVE"]
    /\ drvWork = [d \in Drivers |-> "IDLE"]
    /\ posted = [o \in Orders |-> Zero]
    /\ req = [r \in Requests |-> None]

\* CreateSendOrder reads the customer's debt and prices the parcel outside the
\* transaction.
CreateGate(r, c, p) ==
    /\ req[r] = None
    /\ debt[c] = 0
    /\ req' = [req EXCEPT ![r] = [op |-> "create", customer |-> c, parcel |-> p]]
    /\ UNCHANGED <<order, stops, custBal, drvBal, debt, drvStatus, drvWork, posted>>

\* CreateSendOrder's transaction: the order is born SEARCHING_DRIVER with its
\* stops PENDING, a WALLET order's fare held in escrow if the balance under
\* the wallet lock covers it.
CreateCommit(r, o, pay) ==
    /\ req[r] # None
    /\ req[r].op = "create"
    /\ order[o].status = "NONE"
    /\ LET c    == req[r].customer
           row  == [NoRow EXCEPT !.status = "SEARCHING_DRIVER", !.customer = c,
                                 !.pay = pay, !.parcel = req[r].parcel]
           hold == IF pay = "WALLET" THEN Fare(row) ELSE 0
       IN  /\ hold <= custBal[c]
           /\ order' = [order EXCEPT ![o] = row]
           /\ Post(o, c, None, Moved(hold, -hold, 0, 0))
    /\ Done(r)
    /\ UNCHANGED <<stops, debt, drvStatus, drvWork>>

\* AcceptSendOrder's checks outside the transaction, all on the driver: the
\* order, any that exists, is not looked at.  The count of at most three running
\* send orders, read here too, is zero for an idle driver.
AcceptGate(r, d, o) ==
    /\ req[r] = None
    /\ drvStatus[d] = "ACTIVE"
    /\ drvWork[d] = "IDLE"
    /\ drvBal[d] >= MinBalance
    /\ order[o].status # "NONE"
    /\ req' = [req EXCEPT ![r] = [op |-> "accept", driver |-> d, order |-> o]]
    /\ UNCHANGED <<order, stops, custBal, drvBal, debt, drvStatus, drvWork, posted>>

\* Mutant of StillFree: the driver's row is locked but not checked again.
StillFreeUnchecked(d) == TRUE

\* LockDriverUserForAccept checks status and working_status again, and the
\* balance no more.
StillFree(d) == drvStatus[d] = "ACTIVE" /\ drvWork[d] = "IDLE"

\* AcceptSendOrder's transaction.
AcceptCommit(r) ==
    /\ req[r] # None
    /\ req[r].op = "accept"
    /\ LET d == req[r].driver
           o == req[r].order
       IN  /\ StillFree(d)
           /\ order[o].status = "SEARCHING_DRIVER"
           /\ order[o].driver = None
           /\ order' = [order EXCEPT ![o] = [@ EXCEPT !.driver = d,
                                                      !.status = "DRIVER_ASSIGNED"]]
           /\ drvWork' = [drvWork EXCEPT ![d] = "BUSY"]
    /\ Done(r)
    /\ UNCHANGED <<stops, custBal, drvBal, debt, drvStatus, posted>>

\* validateSendTransition: what the sender and the driver may ask for.
ValidTransition(row, actor, target) ==
    \/ actor = row.customer /\ target = "CANCELLED" /\ row.status = "SEARCHING_DRIVER"
    \/ actor = row.driver /\ <<row.status, target>> \in Carry
    \/ actor = row.driver /\ target = "CANCELLED" /\ row.status \in Carried

\* updateSendOrderStatusTx reads the order and validates the transition before
\* it opens the transaction; a request for the status the order already has is
\* answered as a replay.
ReadOrder(r, o, actor, target) ==
    /\ req[r] = None
    /\ order[o].status \in Live
    /\ order[o].status # target
    /\ ValidTransition(order[o], actor, target)
    /\ req' = [req EXCEPT ![r] = [op |-> "patch", order |-> o, actor |-> actor,
                                  target |-> target, seen |-> order[o].status]]
    /\ UNCHANGED <<order, stops, custBal, drvBal, debt, drvStatus, drvWork, posted>>

\* UpdateSendOrderStop reads the order of the path and lets only its driver
\* report; the stop is named by its identifier alone.
ReadStop(r, o, target, s) ==
    /\ req[r] = None
    /\ order[o].driver # None
    /\ order[o].status \in {"PICKED_UP", "IN_TRANSIT"}
    /\ order[s[1]].status # "NONE"
    /\ s[2] <= order[s[1]].parcel.n
    /\ req' = [req EXCEPT ![r] = [op |-> "stop", order |-> o, actor |-> order[o].driver,
                                  target |-> target, seen |-> order[o].status, at |-> s]]
    /\ UNCHANGED <<order, stops, custBal, drvBal, debt, drvStatus, drvWork, posted>>

\* Mutant of Locked: the status is not compared again after the lock.
LockedUnchecked(r, op) == req[r] # None /\ req[r].op = op

\* The order row is locked; the transaction goes on only if the status is
\* still the one that was read.
Locked(r, op) ==
    /\ req[r] # None
    /\ req[r].op = op
    /\ order[req[r].order].status = req[r].seen

\* The driver reports pickup and departure.
MoveOn(r) ==
    /\ Locked(r, "patch")
    /\ req[r].target \in {"PICKED_UP", "IN_TRANSIT"}
    /\ order' = [order EXCEPT ![req[r].order] = [@ EXCEPT !.status = req[r].target]]
    /\ Done(r)
    /\ UNCHANGED <<stops, custBal, drvBal, debt, drvStatus, drvWork, posted>>

\* Mutant of Refundable: a CASH order is refunded too.
RefundableAny(row) == ~row.settled

Refundable(row) == row.pay = "WALLET" /\ ~row.settled

\* cancelSendOrderTx: the whole fare goes back to the sender of a WALLET
\* order, and the driver, if there is one, is idle again.
CancelOrder(r) ==
    /\ Locked(r, "patch")
    /\ req[r].target = "CANCELLED"
    /\ LET o    == req[r].order
           row  == order[o]
           back == IF Refundable(row) THEN Fare(row) ELSE 0
       IN  /\ order' = [order EXCEPT ![o] = [@ EXCEPT !.status = "CANCELLED"]]
           /\ Post(o, row.customer, None, Moved(-back, back, 0, 0))
           /\ DriverIdle(row.driver)
    /\ Done(r)
    /\ UNCHANGED <<stops, debt, drvStatus>>

\* MarkSendOrderDelivered and settleSendOrderTx, in one transaction: the row
\* is only ever seen SETTLED.
Settle(o) ==
    LET row == order[o]
        net == IF row.pay = "WALLET" THEN WalletSettlement(Fare(row))
               ELSE CashSettlement(Fare(row))
    IN  /\ row.status = "IN_TRANSIT"
        /\ row.driver # None
        /\ order' = [order EXCEPT ![o] = [@ EXCEPT !.status = "SETTLED",
                                                   !.settled = TRUE]]
        /\ Post(o, row.customer, row.driver, net)
        /\ drvStatus' = [drvStatus EXCEPT ![row.driver] =
              IF row.pay = "CASH" /\ drvBal[row.driver] + net.driver < NegativeCeiling
              THEN "SUSPENDED" ELSE @]
        /\ DriverIdle(row.driver)

\* The driver asks for DELIVERED: all stops must be.
Deliver(r) ==
    /\ Locked(r, "patch")
    /\ req[r].target = "DELIVERED"
    /\ AllDelivered(order[req[r].order], stops[req[r].order])
    /\ Settle(req[r].order)
    /\ Done(r)
    /\ UNCHANGED <<stops, debt>>

\* The update of UpdateSendOrderStopStatus.
Reported(r) == [stops EXCEPT ![req[r].at[1]] = [@ EXCEPT ![req[r].at[2]] = req[r].target]]

\* Whether the stops read after the update are all DELIVERED.
Completes(r) ==
    req[r].target = "DELIVERED" /\ AllDelivered(order[req[r].order], Reported(r)[req[r].order])

\* UpdateSendOrderStop, a stop that leaves others open.
UpdateStop(r) ==
    /\ Locked(r, "stop")
    /\ ~Completes(r)
    /\ stops' = Reported(r)
    /\ Done(r)
    /\ UNCHANGED <<order, custBal, drvBal, debt, drvStatus, drvWork, posted>>

\* UpdateSendOrderStop, the stop that completes the order and settles it.
LastStop(r) ==
    /\ Locked(r, "stop")
    /\ Completes(r)
    /\ stops' = Reported(r)
    /\ Settle(req[r].order)
    /\ Done(r)
    /\ UNCHANGED debt

\* A request ends in an error and its transaction rolls back.
Fail(r) ==
    /\ req[r] # None
    /\ Done(r)
    /\ UNCHANGED <<order, stops, custBal, drvBal, debt, drvStatus, drvWork, posted>>

\* What the worker's query selects and its check under the row lock confirms.
Sweepable(o) == order[o].status = "SEARCHING_DRIVER" /\ order[o].overdue

\* cancelOneSendOrder
AutoCancel(o) ==
    /\ Sweepable(o)
    /\ LET row  == order[o]
           back == IF Refundable(row) THEN Fare(row) ELSE 0
       IN  /\ order' = [order EXCEPT ![o] = [@ EXCEPT !.status = "CANCELLED"]]
           /\ Post(o, row.customer, None, Moved(-back, back, 0, 0))
    /\ UNCHANGED <<stops, debt, drvStatus, drvWork, req>>

\* Time passes: no driver has been found for ten minutes.
GoOverdue(o) ==
    /\ order[o].status = "SEARCHING_DRIVER"
    /\ ~order[o].overdue
    /\ order' = [order EXCEPT ![o] = [@ EXCEPT !.overdue = TRUE]]
    /\ UNCHANGED <<stops, custBal, drvBal, debt, drvStatus, drvWork, posted, req>>

\* An administrator suspends or reactivates a driver.
UpdateUserStatus(d, status) ==
    /\ drvStatus' = [drvStatus EXCEPT ![d] = status]
    /\ UNCHANGED <<order, stops, custBal, drvBal, debt, drvWork, posted, req>>

Next ==
    \/ \E r \in Requests, c \in Customers, p \in Parcels : CreateGate(r, c, p)
    \/ \E r \in Requests, o \in Orders, pay \in {"WALLET", "CASH"} :
          CreateCommit(r, o, pay)
    \/ \E r \in Requests, d \in Drivers, o \in Orders : AcceptGate(r, d, o)
    \/ \E r \in Requests : AcceptCommit(r)
    \/ \E r \in Requests, o \in Orders, actor \in Customers \cup Drivers,
          target \in Targets : ReadOrder(r, o, actor, target)
    \/ \E r \in Requests, o \in Orders, target \in StopTargets, s \in Stop :
          ReadStop(r, o, target, s)
    \/ \E r \in Requests : MoveOn(r)
    \/ \E r \in Requests : CancelOrder(r)
    \/ \E r \in Requests : Deliver(r)
    \/ \E r \in Requests : UpdateStop(r)
    \/ \E r \in Requests : LastStop(r)
    \/ \E r \in Requests : Fail(r)
    \/ \E o \in Orders : AutoCancel(o)
    \/ \E o \in Orders : GoOverdue(o)
    \/ \E d \in Drivers, s \in {"ACTIVE", "SUSPENDED"} : UpdateUserStatus(d, s)

Spec == Init /\ [][Next]_vars

-----------------------------------------------------------------------------
(* Properties *)

TypeOK ==
    /\ order \in [Orders -> Row]
    /\ stops \in [Orders -> [StopNumbers -> StopStatus]]
    /\ custBal \in [Customers -> Int]
    /\ drvBal \in [Drivers -> Int]
    /\ debt \in [Customers -> Nat]
    /\ drvStatus \in [Drivers -> {"ACTIVE", "SUSPENDED"}]
    /\ drvWork \in [Drivers -> {"IDLE", "BUSY"}]
    /\ posted \in [Orders -> Net]
    /\ req \in [Requests -> InFlight \cup {None}]

\* What a live order's sender paid in and nobody has received yet.
HeldFor(row) == IF row.status \in Live /\ row.pay = "WALLET" THEN Fare(row) ELSE 0

\* A settled send order paid the platform a tenth of the fare, to within half
\* a hundredth, and the driver exactly the rest: out of escrow for WALLET, out
\* of the driver's cash for CASH.  Two endpoints settle it, and only one does.
Split(row, n) ==
    /\ 10 * n.platform - Fare(row) \in -5..5
    /\ row.pay = "WALLET" =>
          n.customer = -Fare(row) /\ n.driver + n.platform = Fare(row)
    /\ row.pay = "CASH" => n.customer = 0 /\ n.driver = -n.platform

SettledSplit ==
    \A o \in Orders : order[o].status = "SETTLED" => Split(order[o], posted[o])

\* A driver is BUSY exactly while one send order of the driver runs, and never
\* has two, although the checks of two acceptances may both have passed before
\* either is committed.
Carrying(row) == row.status \in Carried /\ row.driver # None

DriverExclusive ==
    /\ \A d \in Drivers :
          drvWork[d] = "BUSY" <=>
             \E o \in Orders : order[o].driver = d /\ order[o].status \in Carried
    /\ \A o, p \in Orders :
          /\ Carrying(order[o])
          /\ Carrying(order[p])
          /\ order[o].driver = order[p].driver
          => o = p

\* A send order that was cancelled or settled stays as it is.
FinalKept ==
    \A o \in Orders : order[o].status \in Final =>
        order'[o] = order[o] /\ posted'[o] = posted[o]

FinalIsFinal == [][FinalKept]_vars

\* No stop of an order is allotted less than nothing, and together its stops
\* are allotted the fare; or one hundredth more, but only when the shares before
\* the last were rounded up past the fare and the last one has nothing.
Allotted(p) == Share(p, 1) + Share(p, 2) + Share(p, 3)

Close(p) ==
    /\ \A i \in StopNumbers : Share(p, i) >= 0
    /\ \/ Allotted(p) = TotalFare(p)
       \/ Allotted(p) = TotalFare(p) + 1 /\ p.n = 3 /\ Share(p, 3) = 0

AllocationClose ==
    \A o \in Orders : order[o].status # "NONE" => Close(order[o].parcel)

\* The order's money: opened once with the fare in escrow, closed once, in
\* balance and with nothing left behind, by whichever of the sender, the
\* driver's two endpoints and the worker ends it.
Phase(row) == IF row.status = "NONE" THEN "none"
              ELSE IF row.status \in Live THEN "open" ELSE "closed"

Promise == INSTANCE EscrowPromise WITH
    phase  <- [o \in Orders |-> Phase(order[o])],
    escrow <- [o \in Orders |-> posted[o].escrow],
    payer  <- [o \in Orders |-> posted[o].customer],
    others <- [o \in Orders |-> posted[o].driver + posted[o].platform]

KeepsPromise == Promise!Spec

\* The driver who has the parcel in hand.
Carrier(row) == IF row.status \in Carried THEN row.driver ELSE None

Duty == INSTANCE DriverDuty WITH
    carrier <- [o \in Orders |-> Carrier(order[o])],
    work    <- drvWork

\* Whoever moves the send order, an idle driver takes it, and is made idle again by
\* the very step that takes it out of the driver's hands.
KeepsDuty == Duty!Spec

-----------------------------------------------------------------------------
(* The inductive invariant behind the safety properties *)

\* Which columns of a row are set at which status.
Filled(row) ==
    /\ row.status # "NONE" => row.customer \in Customers /\ row.parcel \in Parcels
    /\ row.status = "NONE" => row.customer = None /\ row.parcel = None
    /\ row.status \in {"NONE", "SEARCHING_DRIVER"} => row.driver = None
    /\ row.status \in Carried \cup {"SETTLED"} => row.driver \in Drivers
    /\ row.settled <=> row.status = "SETTLED"

RowsOK == \A o \in Orders : Filled(order[o])

\* A live order has posted its hold and nothing else, a cancelled one has
\* given it back.
LiveLedger ==
    \A o \in Orders : order[o].status # "SETTLED" =>
        posted[o] = Moved(HeldFor(order[o]), -HeldFor(order[o]), 0, 0)

\* A driver who asked for a change still has the order, whatever the order's
\* status is by now.
ReadingOK ==
    \A r \in Requests :
        /\ req[r] # None /\ req[r].op = "patch" /\ req[r].actor \in Drivers
              => order[req[r].order].driver = req[r].actor
        /\ req[r] # None /\ req[r].op = "stop"
              => /\ order[req[r].order].driver = req[r].actor
                 /\ order[req[r].order].status # "NONE"

CustomerNotOverdrawn == \A c \in Customers : custBal[c] >= 0

\* What holds whoever else writes working_status.
OrdersInv ==
    /\ TypeOK
    /\ RowsOK
    /\ LiveLedger
    /\ ReadingOK
    /\ SettledSplit
    /\ CustomerNotOverdrawn

IndInv == OrdersInv /\ DriverExclusive

-----------------------------------------------------------------------------
(* Statements of the code's comments that the code breaks *)

\* "Semua stop wajib COMPLETED sebelum order utama boleh DELIVERED": an order
\* that was settled has delivered all of its stops.
SettledAllDelivered ==
    \A o \in Orders : order[o].status = "SETTLED" => AllDelivered(order[o], stops[o])

\* "SUM(allocated_fare) == total_fare persis"
AllocationExact ==
    \A o \in Orders : order[o].status # "NONE" =>
        Allotted(order[o].parcel) = TotalFare(order[o].parcel)

=============================================================================
