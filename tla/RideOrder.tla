------------------------------ MODULE RideOrder ------------------------------
(***************************************************************************)
(* The life of a G-Ride order: booking, driver acceptance, the driver's    *)
(* progress reports, cancellation with its fee, completion with the        *)
(* actual-fare adjustment and settlement, and the auto-cancel worker       *)
(* (internal/ride/service.go, internal/ride/repository.go,                 *)
(* internal/worker/worker.go).                                             *)
(*                                                                         *)
(* A database transaction that locks the rows it reads is one action.      *)
(* What a handler reads before it opens its transaction is a step of its   *)
(* own, kept in req, and is stale by the time the transaction runs.        *)
(* A transaction that returns an error rolls back and changes nothing: a   *)
(* failing branch of the code is a guard here.  Amounts are hundredths of  *)
(* a rupiah, the precision of NUMERIC(15,2).                               *)
(***************************************************************************)
EXTENDS Integers, FiniteSetsExt

CONSTANTS
    Customers, Drivers,     \* users of either type
    Orders,                 \* identifiers of ride_orders rows
    Requests,               \* HTTP requests in flight at one time
    Fares,                  \* values of estimated_fare
    Discounts,              \* values of discount_amount, 0 for no voucher
    ActualFares,            \* values of actual_fare in the request, 0 if absent
    FeeAssigned, FeeArrived,\* CancellationFeeAssigned, CancellationFeeArrived
    MinBalance,             \* users.min_balance_threshold
    NegativeCeiling,        \* maxDriverNegativeBalance
    CustStart, DrvStart,    \* balances a wallet may start from
    None

ASSUME AmountsAssumption ==
    /\ Fares \subseteq Nat \ {0}
    /\ Discounts \subseteq Nat
    /\ ActualFares \subseteq Nat
    /\ FeeAssigned \in Nat \ {0}
    /\ FeeArrived \in Nat \ {0}
    /\ MinBalance \in Nat
    /\ NegativeCeiling \in Int
    /\ CustStart \subseteq Nat
    /\ DrvStart \subseteq Int

ASSUME NamesAssumption ==
    /\ None \notin Customers \cup Drivers
    /\ Customers \cap Drivers = {}

VARIABLES
    order,      \* rows of ride_orders
    custBal,    \* wallets.balance of the CUSTOMER wallets
    drvBal,     \* wallets.balance of the DRIVER wallets
    debt,       \* users.overdue_debt
    drvStatus,  \* users.status of the drivers
    drvWork,    \* users.working_status of the drivers
    posted,     \* net effect of the ledger_entries of each order, by wallet
    req         \* what each request in flight has read so far

vars == <<order, custBal, drvBal, debt, drvStatus, drvWork, posted, req>>

-----------------------------------------------------------------------------
(* Rows and requests *)

Assigned == {"DRIVER_ASSIGNED", "DRIVER_ARRIVED", "TRIP_STARTED"}
Live     == {"SEARCHING_DRIVER"} \cup Assigned
Final    == {"CANCELLED", "SETTLED"}
Targets  == {"CANCELLED", "DRIVER_ARRIVED", "TRIP_STARTED", "COMPLETED"}
Forward  == {<<"DRIVER_ASSIGNED", "DRIVER_ARRIVED">>,
             <<"DRIVER_ARRIVED", "TRIP_STARTED">>,
             <<"TRIP_STARTED", "COMPLETED">>}
Reasons  == {"", "NO_SHOW", "DRIVER_EMERGENCY", "OTHER"}

\* A row of ride_orders.  expired is expires_at < NOW(), waited that five
\* minutes have passed since arrived_at.  "NONE" is a row not yet inserted.
Row == [status   : Live \cup Final \cup {"NONE"},
        customer : Customers \cup {None},
        driver   : Drivers \cup {None},
        pay      : {"WALLET", "CASH"},
        est      : Nat,
        disc     : Nat,
        actual   : Nat,
        settled  : BOOLEAN,
        waited   : BOOLEAN,
        expired  : BOOLEAN]

NoRow == [status |-> "NONE", customer |-> None, driver |-> None,
          pay |-> "CASH", est |-> 0, disc |-> 0, actual |-> 0,
          settled |-> FALSE, waited |-> FALSE, expired |-> FALSE]

\* Net change of the five wallets an order's ledger entries touch.
Net == [escrow : Int, customer : Int, driver : Int, platform : Int,
        subsidy : Int]

Moved(e, c, d, p, s) ==
    [escrow |-> e, customer |-> c, driver |-> d, platform |-> p, subsidy |-> s]

Zero == Moved(0, 0, 0, 0, 0)

Plus(m, n) == Moved(m.escrow + n.escrow, m.customer + n.customer,
                    m.driver + n.driver, m.platform + n.platform,
                    m.subsidy + n.subsidy)

\* A booking that passed the gate, or a status change that read its order.
Booking == [op : {"book"}, customer : Customers]
Patch   == {p \in [op : {"patch"}, order : Orders, actor : Customers \cup Drivers,
                   target : Targets, seen : Live] :
               p.target = "CANCELLED" \/ <<p.seen, p.target>> \in Forward}

-----------------------------------------------------------------------------
(* Amounts *)

\* estimated_fare - discount_amount, never below zero.
FareBasis(row) == IF row.disc > row.est THEN 0 ELSE row.est - row.disc

\* Round(0.20 * fare, 2), halves away from zero, in hundredths.
Commission(fare) == (2 * fare + 5) \div 10

CancellationFee(status, reason) ==
    CASE reason = "NO_SHOW"          -> FeeArrived
      [] reason = "DRIVER_EMERGENCY" -> 0
      [] reason \notin {"NO_SHOW", "DRIVER_EMERGENCY"} ->
            CASE status = "DRIVER_ASSIGNED" -> FeeAssigned
              [] status \in {"DRIVER_ARRIVED", "TRIP_STARTED"} -> FeeArrived
              [] OTHER -> 0

\* Mutant of RefundToCustomer: the refund forgets the fee already paid out.
RefundInFull(row, fee) == FareBasis(row)

\* The amounts of the entries that give the escrow back when a WALLET order
\* is cancelled for a fee; the whole basis goes back when the fee is zero.
FeeToDriver(row, fee)      == IF fee > FareBasis(row) THEN FareBasis(row) ELSE fee
RefundToCustomer(row, fee) == FareBasis(row) - FeeToDriver(row, fee)

\* CreateLedgerEntries refuses an entry whose amount is not positive.
RefundPostable(row, fee) ==
    /\ RefundToCustomer(row, fee) > 0
    /\ fee > 0 => FeeToDriver(row, fee) > 0

SettlementPostable(row, fare) ==
    /\ Commission(fare) > 0
    /\ row.pay = "WALLET" => fare > Commission(fare)

-----------------------------------------------------------------------------
(* Steps shared by the actions *)

\* Insert ledger entries under reference o; the trigger on ledger_entries
\* moves the balances of the wallets in the same transaction.
Post(o, c, d, n) ==
    /\ posted' = [posted EXCEPT ![o] = Plus(posted[o], n)]
    /\ custBal' = [x \in Customers |->
                      IF x = c THEN custBal[x] + n.customer ELSE custBal[x]]
    /\ drvBal' = [x \in Drivers |->
                      IF x = d THEN drvBal[x] + n.driver ELSE drvBal[x]]

\* Mutant of ResetDriverIdle: the update matches no row.
KeepDriverBusy(d) == UNCHANGED drvWork

ResetDriverIdle(d) ==
    drvWork' = [x \in Drivers |-> IF x = d THEN "IDLE" ELSE drvWork[x]]

Done(r) == req' = [req EXCEPT ![r] = None]

-----------------------------------------------------------------------------
Init ==
    /\ order = [o \in Orders |-> NoRow]
    /\ custBal \in [Customers -> CustStart]
    /\ drvBal \in [Drivers -> DrvStart]
    /\ debt = [c \in Customers |-> 0]
    /\ drvStatus = [d \in Drivers |-> "ACTIVE"]
    /\ drvWork = [d \in Drivers |-> "IDLE"]
    /\ posted = [o \in Orders |-> Zero]
    /\ req = [r \in Requests |-> None]

\* BookRide reads the customer outside the transaction: the debt gate.
BookGate(r, c) ==
    /\ req[r] = None
    /\ debt[c] = 0
    /\ req' = [req EXCEPT ![r] = [op |-> "book", customer |-> c]]
    /\ UNCHANGED <<order, custBal, drvBal, debt, drvStatus, drvWork, posted>>

\* BookRide's transaction: the order is inserted and starts searching; a
\* WALLET order holds its basis in escrow if the balance, read under the
\* wallet lock, covers it.
BookCommit(r, o, pay, est, disc) ==
    /\ req[r] # None
    /\ req[r].op = "book"
    /\ order[o].status = "NONE"
    /\ disc <= est
    /\ LET c    == req[r].customer
           row  == [NoRow EXCEPT !.status = "SEARCHING_DRIVER",
                                 !.customer = c, !.pay = pay,
                                 !.est = est, !.disc = disc]
           hold == IF pay = "WALLET" THEN FareBasis(row) ELSE 0
       IN  /\ hold <= custBal[c]
           /\ order' = [order EXCEPT ![o] = row]
           /\ Post(o, c, None, Moved(hold, -hold, 0, 0, 0))
    /\ Done(r)
    /\ UNCHANGED <<debt, drvStatus, drvWork>>

\* Mutant of MayAccept: working_status is trusted from the reading before the
\* lock.
MayAcceptBusy(d) == drvStatus[d] = "ACTIVE" /\ drvBal[d] >= MinBalance

\* An order may be accepted by an active, idle driver whose balance reaches
\* the minimum.
MayAccept(d) ==
    /\ drvStatus[d] = "ACTIVE"
    /\ drvWork[d] = "IDLE"
    /\ drvBal[d] >= MinBalance

\* AcceptOrder: the driver's row is locked first and everything about the
\* driver is read again under the lock, then the order is locked.
AcceptOrder(d, o) ==
    /\ MayAccept(d)
    /\ order[o].status = "SEARCHING_DRIVER"
    /\ order' = [order EXCEPT ![o] = [@ EXCEPT !.status = "DRIVER_ASSIGNED",
                                               !.driver = d]]
    /\ drvWork' = [drvWork EXCEPT ![d] = "BUSY"]
    /\ UNCHANGED <<custBal, drvBal, debt, drvStatus, posted, req>>

\* The owner or the driver may cancel; only the driver may move forward.
ValidTransition(row, actor, target) ==
    \/ /\ target = "CANCELLED"
       /\ row.status \in Live
       /\ actor \in {row.customer, row.driver}
    \/ /\ <<row.status, target>> \in Forward
       /\ actor = row.driver

\* updateRideStatusTx reads the order and validates the transition before it
\* opens the transaction.
ReadOrder(r, o, actor, target) ==
    /\ req[r] = None
    /\ ValidTransition(order[o], actor, target)
    /\ req' = [req EXCEPT ![r] = [op |-> "patch", order |-> o, actor |-> actor,
                                  target |-> target, seen |-> order[o].status]]
    /\ UNCHANGED <<order, custBal, drvBal, debt, drvStatus, drvWork, posted>>

\* Mutant of Locked: the status is not compared again after the lock.
LockedUnchecked(r, target) ==
    req[r] # None /\ req[r].op = "patch" /\ req[r].target = target

\* The order row is locked; the transaction goes on only if the status is
\* still the one that was read.
Locked(r, target) ==
    /\ req[r] # None
    /\ req[r].op = "patch"
    /\ req[r].target = target
    /\ order[req[r].order].status = req[r].seen

Arrive(r) ==
    /\ Locked(r, "DRIVER_ARRIVED")
    /\ order' = [order EXCEPT ![req[r].order] =
                    [@ EXCEPT !.status = "DRIVER_ARRIVED", !.waited = FALSE]]
    /\ Done(r)
    /\ UNCHANGED <<custBal, drvBal, debt, drvStatus, drvWork, posted>>

StartTrip(r) ==
    /\ Locked(r, "TRIP_STARTED")
    /\ order' = [order EXCEPT ![req[r].order] =
                    [@ EXCEPT !.status = "TRIP_STARTED"]]
    /\ Done(r)
    /\ UNCHANGED <<custBal, drvBal, debt, drvStatus, drvWork, posted>>

\* An empty reason is filled in from who is cancelling.
EffectiveReason(row, actor, reason) ==
    IF reason # "" THEN reason
    ELSE IF actor = row.driver THEN "DRIVER_EMERGENCY" ELSE "CUSTOMER_CANCEL"

\* Only the driver may give these two reasons, and a no-show only after
\* waiting for five minutes at the pickup point.
ReasonAllowed(row, actor, reason) ==
    /\ reason \in {"NO_SHOW", "DRIVER_EMERGENCY"} => actor = row.driver
    /\ reason = "NO_SHOW" => row.status = "DRIVER_ARRIVED" /\ row.waited

\* cancelOrderTx: the order is cancelled, the escrow of a WALLET order goes
\* back less the fee, and its driver is idle again.
CancelOrder(r, reason) ==
    /\ Locked(r, "CANCELLED")
    /\ LET o    == req[r].order
           row  == order[o]
           why  == EffectiveReason(row, req[r].actor, reason)
           fee  == CancellationFee(row.status, why)
           back == RefundToCustomer(row, fee)
           cut  == FeeToDriver(row, fee)
       IN  /\ ReasonAllowed(row, req[r].actor, why)
           /\ ~row.settled
           /\ order' = [order EXCEPT ![o] = [@ EXCEPT !.status = "CANCELLED"]]
           /\ \/ /\ row.pay = "WALLET"
                 /\ RefundPostable(row, fee)
                 /\ fee > 0 => row.driver # None
                 /\ Post(o, row.customer, row.driver,
                         Moved(-(cut + back), back, cut, 0, 0))
              \/ /\ row.pay = "CASH"
                 /\ UNCHANGED <<custBal, drvBal, posted>>
           /\ ResetDriverIdle(row.driver)
    /\ Done(r)
    /\ UNCHANGED <<debt, drvStatus>>

\* Mutants of WalletSettlement: the subsidy is left out of the escrow, the
\* driver is paid from the basis, the customer's balance is not looked at.
SettlementWithoutSubsidy(row, fare, balance) ==
    LET delta == fare - FareBasis(row)
        paid  == IF delta > balance THEN balance ELSE delta
    IN  Moved(paid - fare, -paid, fare - Commission(fare), Commission(fare), 0)

SettlementOnBasis(row, fare, balance) ==
    LET basis == FareBasis(row)
    IN  Moved(-basis, 0, basis - Commission(basis), Commission(basis), 0)

SettlementUnchecked(row, fare, balance) ==
    LET delta == fare - FareBasis(row)
    IN  Moved(delta - fare, -delta, fare - Commission(fare), Commission(fare), 0)

\* What a completed WALLET order posts: the adjustment of the held basis to
\* the actual fare (the customer pays as much of a shortfall as the wallet
\* holds, the subsidy wallet the rest), then the release of the escrow.
WalletSettlement(row, fare, balance) ==
    LET delta == fare - FareBasis(row)
        lacks == delta > 0 /\ balance < delta
        fromCustomer == IF ~lacks THEN delta ELSE IF balance > 0 THEN balance ELSE 0
        shortfall    == IF lacks THEN delta - balance ELSE 0
    IN  Moved(fromCustomer + shortfall - fare, -fromCustomer,
              fare - Commission(fare), Commission(fare), -shortfall)

CashSettlement(fare) == Moved(0, 0, -Commission(fare), Commission(fare), 0)

\* completeOrderTx: adjustment, COMPLETED and settlement in one transaction.
\* The row is only ever seen SETTLED.  A second attempt of the request finds it
\* so and is answered without a change.
CompleteOrder(r, actual) ==
    /\ Locked(r, "COMPLETED")
    /\ LET o    == req[r].order
           row  == order[o]
           fare == IF actual > 0 THEN actual ELSE FareBasis(row)
           net  == IF row.pay = "WALLET"
                   THEN WalletSettlement(row, fare, custBal[row.customer])
                   ELSE CashSettlement(fare)
       IN  /\ row.driver # None
           /\ SettlementPostable(row, fare)
           /\ order' = [order EXCEPT ![o] = [@ EXCEPT !.status = "SETTLED",
                                                      !.actual = fare,
                                                      !.settled = TRUE]]
           /\ Post(o, row.customer, row.driver, net)
           /\ debt' = [debt EXCEPT ![row.customer] = @ - net.subsidy]
           /\ drvStatus' = [drvStatus EXCEPT ![row.driver] =
                 IF row.pay = "CASH"
                    /\ drvBal[row.driver] + net.driver < NegativeCeiling
                 THEN "SUSPENDED" ELSE @]
           /\ ResetDriverIdle(row.driver)
    /\ Done(r)

\* A request ends in an error: a guard of its transaction failed, the
\* statement timed out, the connection was lost.  The transaction rolls back.
Fail(r) ==
    /\ req[r] # None
    /\ Done(r)
    /\ UNCHANGED <<order, custBal, drvBal, debt, drvStatus, drvWork, posted>>

\* What the worker's query selects and the check under the row lock confirms.
Sweepable(o) ==
    /\ order[o].status = "SEARCHING_DRIVER"
    /\ order[o].expired
    /\ ~order[o].settled

\* cancelOneRideOrder: the worker found the order searching past expires_at,
\* locks it and cancels it, refunding what a WALLET order holds.
AutoCancel(o) ==
    /\ Sweepable(o)
    /\ order' = [order EXCEPT ![o] = [@ EXCEPT !.status = "CANCELLED"]]
    /\ LET row  == order[o]
           back == IF row.pay = "WALLET" THEN FareBasis(row) ELSE 0
       IN  Post(o, row.customer, None, Moved(-back, back, 0, 0, 0))
    /\ UNCHANGED <<debt, drvStatus, drvWork, req>>

\* Time passes: expires_at lies in the past, or five minutes since arrival.
Expire(o) ==
    /\ order[o].status = "SEARCHING_DRIVER"
    /\ ~order[o].expired
    /\ order' = [order EXCEPT ![o] = [@ EXCEPT !.expired = TRUE]]
    /\ UNCHANGED <<custBal, drvBal, debt, drvStatus, drvWork, posted, req>>

WaitAtPickup(o) ==
    /\ order[o].status = "DRIVER_ARRIVED"
    /\ ~order[o].waited
    /\ order' = [order EXCEPT ![o] = [@ EXCEPT !.waited = TRUE]]
    /\ UNCHANGED <<custBal, drvBal, debt, drvStatus, drvWork, posted, req>>

\* An administrator suspends or reactivates a driver.
UpdateUserStatus(d, status) ==
    /\ drvStatus' = [drvStatus EXCEPT ![d] = status]
    /\ UNCHANGED <<order, custBal, drvBal, debt, drvWork, posted, req>>

Next ==
    \/ \E r \in Requests, c \in Customers : BookGate(r, c)
    \/ \E r \in Requests, o \in Orders, pay \in {"WALLET", "CASH"},
          est \in Fares, disc \in Discounts : BookCommit(r, o, pay, est, disc)
    \/ \E d \in Drivers, o \in Orders : AcceptOrder(d, o)
    \/ \E r \in Requests, o \in Orders, actor \in Customers \cup Drivers,
          target \in Targets : ReadOrder(r, o, actor, target)
    \/ \E r \in Requests : Arrive(r)
    \/ \E r \in Requests : StartTrip(r)
    \/ \E r \in Requests, reason \in Reasons : CancelOrder(r, reason)
    \/ \E r \in Requests, actual \in ActualFares : CompleteOrder(r, actual)
    \/ \E r \in Requests : Fail(r)
    \/ \E o \in Orders : AutoCancel(o)
    \/ \E o \in Orders : Expire(o)
    \/ \E o \in Orders : WaitAtPickup(o)
    \/ \E d \in Drivers, s \in {"ACTIVE", "SUSPENDED"} : UpdateUserStatus(d, s)

Spec == Init /\ [][Next]_vars

-----------------------------------------------------------------------------
(* Properties *)

TypeOK ==
    /\ order \in [Orders -> Row]
    /\ custBal \in [Customers -> Int]
    /\ drvBal \in [Drivers -> Int]
    /\ debt \in [Customers -> Nat]
    /\ drvStatus \in [Drivers -> {"ACTIVE", "SUSPENDED"}]
    /\ drvWork \in [Drivers -> {"IDLE", "BUSY"}]
    /\ posted \in [Orders -> Net]
    /\ req \in [Requests -> Booking \cup Patch \cup {None}]

\* What a live order's customer paid in and nobody has received yet: the
\* basis of a searching or running WALLET ride is in escrow in full, and once
\* the ride is cancelled or settled nothing of it is left behind, whatever
\* the fee, the discount, the actual fare and the customer's balance were
\* (holdEscrow, refundEscrow, refundCancellationFee, applyFareDelta,
\* settleOrderTx and the worker's refundRideEscrow have to agree on it).
HeldFor(row) ==
    IF row.status \in Live /\ row.pay = "WALLET" THEN FareBasis(row) ELSE 0

EscrowBacksRide ==
    \A o \in Orders : posted[o].escrow = HeldFor(order[o])

\* A cancelled ride moved money only from its customer to its driver, never
\* more than the fee of a driver who had arrived, and none if it was paid in
\* cash or no driver had been assigned: two cancellations, or a cancellation
\* racing the worker or a completion, never refund or charge twice.
Refunded(row, n) ==
    /\ n.platform = 0
    /\ n.subsidy = 0
    /\ n.customer = -n.driver
    /\ n.driver # 0 => /\ row.pay = "WALLET"
                       /\ row.driver # None
                       /\ n.driver \in {FeeAssigned, FeeArrived}

CancelledRefund ==
    \A o \in Orders : order[o].status = "CANCELLED" => Refunded(order[o], posted[o])

\* A settled ride split exactly the actual fare between driver and platform;
\* for a WALLET ride the customer and, for what the wallet could not cover,
\* the subsidy wallet paid it, for a CASH ride the driver paid the commission.
Split(row, n) ==
    /\ n.platform = Commission(row.actual)
    /\ row.pay = "WALLET" =>
          /\ n.driver = row.actual - Commission(row.actual)
          /\ n.customer + n.subsidy = -row.actual
          /\ n.subsidy <= 0
          /\ n.customer <= 0
    /\ row.pay = "CASH" =>
          n.customer = 0 /\ n.subsidy = 0 /\ n.driver = -Commission(row.actual)

SettledSplit ==
    \A o \in Orders : order[o].status = "SETTLED" => Split(order[o], posted[o])

\* A driver serves one ride at a time, and working_status says so: a driver
\* is BUSY exactly while some assigned order is live.  Every path that ends a
\* ride must free its driver and no path may free the driver of another ride.
DriverExclusive ==
    /\ \A d \in Drivers :
          drvWork[d] = "BUSY" <=>
             \E o \in Orders : order[o].driver = d /\ order[o].status \in Assigned
    /\ \A o, p \in Orders :
          /\ order[o].status \in Assigned
          /\ order[p].status \in Assigned
          /\ order[o].driver = order[p].driver
          => o = p

\* Rides never push a customer's wallet below zero: the balance checks of
\* holdEscrow and collectShortfallDelta are made under the wallet lock.
CustomerNotOverdrawn == \A c \in Customers : custBal[c] >= 0

\* A ride that was cancelled or settled stays as it is: neither its row nor
\* its ledger entries change again, however many requests still hold an old
\* reading of it.
FinalKept ==
    \A o \in Orders : order[o].status \in Final =>
        order'[o] = order[o] /\ posted'[o] = posted[o]

FinalIsFinal == [][FinalKept]_vars

\* The ride's money: opened once with the basis in escrow, closed once, in
\* balance and with nothing left behind, by whichever of the customer, the
\* driver and the worker ends the ride, and whatever the actual fare was.
Phase(row) == IF row.status = "NONE" THEN "none"
              ELSE IF row.status \in Live THEN "open" ELSE "closed"

Promise == INSTANCE EscrowPromise WITH
    phase  <- [o \in Orders |-> Phase(order[o])],
    escrow <- [o \in Orders |-> posted[o].escrow],
    payer  <- [o \in Orders |-> posted[o].customer],
    others <- [o \in Orders |->
                  posted[o].driver + posted[o].platform + posted[o].subsidy]

KeepsPromise == Promise!Spec

\* The ride's driver: taken when idle, released when the ride ends.
Carrier(row) == IF row.status \in Assigned THEN row.driver ELSE None

Duty == INSTANCE DriverDuty WITH
    carrier <- [o \in Orders |-> Carrier(order[o])],
    work    <- drvWork

\* Whoever moves the ride, an idle driver takes it, and is made idle again by
\* the very step that takes it out of the driver's hands.
KeepsDuty == Duty!Spec

-----------------------------------------------------------------------------
(* The inductive invariant behind the safety properties *)

\* Which columns of a row are set at which status.
Filled(row) ==
    /\ row.status # "NONE" => row.customer \in Customers
    /\ row.status \in {"NONE", "SEARCHING_DRIVER"} => row.driver = None
    /\ row.status \in Assigned \cup {"SETTLED"} => row.driver \in Drivers
    /\ row.settled <=> row.status = "SETTLED"

RowsOK == \A o \in Orders : Filled(order[o])

\* A live ride has posted its hold and nothing else.
LiveLedger ==
    \A o \in Orders : order[o].status \in Live \cup {"NONE"} =>
        posted[o] = Moved(HeldFor(order[o]), -HeldFor(order[o]), 0, 0, 0)

\* The escrow, refund and settlement properties hold because a live ride has
\* posted nothing but its hold, and a row that ended is locked out of every
\* later step by its status.  None of this depends on who else writes
\* working_status.
OrdersInv ==
    /\ TypeOK
    /\ RowsOK
    /\ LiveLedger
    /\ EscrowBacksRide
    /\ CancelledRefund
    /\ SettledSplit
    /\ CustomerNotOverdrawn

IndInv == OrdersInv /\ DriverExclusive

-----------------------------------------------------------------------------
(* Statements of the code's comments and documents that the code breaks *)

\* "overdue_debt = 0": no order is inserted for a customer in debt.
DebtGate ==
    [][\A o \in Orders : order[o].status = "NONE" /\ order'[o].status # "NONE" =>
           debt[order'[o].customer] = 0]_vars

\* A customer can cancel a ride that is not final yet: the entries that the
\* cancellation posts are acceptable to the ledger.
CancelPostable ==
    \A o \in Orders : order[o].status \in Live /\ order[o].pay = "WALLET" =>
        RefundPostable(order[o], CancellationFee(order[o].status, "CUSTOMER_CANCEL"))


=============================================================================
