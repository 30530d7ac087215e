------------------------------ MODULE FoodOrder ------------------------------
(***************************************************************************)
(* The life of a G-Food order: the cart is turned into an order, the       *)
(* merchant answers and prepares it, a driver accepts and delivers it, and *)
(* delivery settles it; customer, merchant and driver may cancel, and the  *)
(* worker cancels unanswered orders (internal/food/service.go,             *)
(* internal/food/repository.go, internal/worker/worker.go).                *)
(*                                                                         *)
(* As in RideOrder, a transaction over locked rows is one action, what is  *)
(* read before the transaction is a step of its own kept in req, and a     *)
(* failing branch is a guard.  Amounts are hundredths of a rupiah.         *)
(***************************************************************************)
EXTENDS Integers

CONSTANTS
    Customers, Merchants, Drivers,  \* users of the three types
    Orders,             \* identifiers of food_orders rows
    Requests,           \* HTTP requests in flight at one time
    Subtotals,          \* values of item_subtotal a cart may come to
    DeliveryFee,        \* foodDeliveryFee
    NegativeCeiling,    \* maxDriverNegativeBalance
    CustStart, DrvStart,\* balances a wallet may start from
    None

ASSUME AmountsAssumption ==
    /\ Subtotals \subseteq Nat \ {0}
    /\ DeliveryFee \in Nat \ {0}
    /\ DeliveryFee % 10 = 0
    /\ NegativeCeiling \in Int
    /\ CustStart \subseteq Nat
    /\ DrvStart \subseteq Int

ASSUME NamesAssumption ==
    /\ None \notin Customers \cup Merchants \cup Drivers
    /\ Customers \cap Merchants = {}
    /\ Customers \cap Drivers = {}
    /\ Merchants \cap Drivers = {}

VARIABLES
    order,      \* rows of food_orders
    custBal,    \* wallets.balance of the CUSTOMER wallets
    drvBal,     \* wallets.balance of the DRIVER wallets
    debt,       \* users.overdue_debt
    drvStatus,  \* users.status of the drivers
    drvWork,    \* users.working_status of the drivers
    posted,     \* net effect of the ledger_entries of each order, by wallet
    req         \* what each request in flight has read so far

vars == <<order, custBal, drvBal, debt, drvStatus, drvWork, posted, req>>

-----------------------------------------------------------------------------
(* Rows and requests *)

Unanswered == {"CREATED", "CONFIRMED"}
Carried    == {"READY_FOR_PICKUP", "PICKED_UP", "IN_TRANSIT"}
Live       == Unanswered \cup {"PREPARING"} \cup Carried
Final      == {"CANCELLED", "SETTLED"}

\* The merchant's targets with the merchant_status each is taken from and
\* leaves behind.
Kitchen == {<<"CONFIRMED", "WAITING", "CONFIRMED">>,
            <<"PREPARING", "CONFIRMED", "PREPARING">>,
            <<"READY_FOR_PICKUP", "PREPARING", "READY">>}
KitchenTargets == {"CONFIRMED", "PREPARING", "READY_FOR_PICKUP"}
KitchenStatus  == {"WAITING", "CONFIRMED", "PREPARING", "READY"}

\* The driver's steps.
Carry == {<<"READY_FOR_PICKUP", "PICKED_UP">>, <<"PICKED_UP", "IN_TRANSIT">>,
          <<"IN_TRANSIT", "DELIVERED">>}

Targets == KitchenTargets \cup {"PICKED_UP", "IN_TRANSIT", "DELIVERED", "CANCELLED"}

\* A row of food_orders; endedBy is triggered_by of its cancellation event,
\* overdue that fifteen minutes have passed since created_at.
Row == [status   : Live \cup Final \cup {"NONE"},
        kitchen  : KitchenStatus,
        customer : Customers \cup {None},
        merchant : Merchants \cup {None},
        driver   : Drivers \cup {None},
        pay      : {"WALLET", "CASH"},
        sub      : Nat,
        refunded : BOOLEAN,
        settled  : BOOLEAN,
        endedBy  : Customers \cup Merchants \cup Drivers \cup {None},
        overdue  : BOOLEAN]

NoRow == [status |-> "NONE", kitchen |-> "WAITING", customer |-> None,
          merchant |-> None, driver |-> None, pay |-> "CASH", sub |-> 0,
          refunded |-> FALSE, settled |-> FALSE, endedBy |-> None,
          overdue |-> FALSE]

\* Net change of the five wallets an order's ledger entries touch.
Net == [escrow : Int, customer : Int, merchant : Int, driver : Int, platform : Int]

Moved(e, c, m, d, p) ==
    [escrow |-> e, customer |-> c, merchant |-> m, driver |-> d, platform |-> p]

Zero == Moved(0, 0, 0, 0, 0)

Plus(a, b) == Moved(a.escrow + b.escrow, a.customer + b.customer,
                    a.merchant + b.merchant, a.driver + b.driver,
                    a.platform + b.platform)

\* A cart that passed the checks, or a status change that read its order; Asked
\* is what validateFoodTransition let through.
Cart  == [op : {"create"}, customer : Customers, merchant : Merchants, sub : Subtotals]

Asked(p) ==
    \/ p.target = "CONFIRMED" /\ p.seen \in Unanswered
    \/ p.target = "PREPARING" /\ p.seen = "CONFIRMED"
    \/ p.target = "READY_FOR_PICKUP" /\ p.seen = "PREPARING"
    \/ <<p.seen, p.target>> \in Carry /\ p.actor \in Drivers
    \/ p.target = "CANCELLED" /\ p.actor \notin Drivers /\ p.seen \in Unanswered
    \/ p.target = "CANCELLED" /\ p.actor \in Drivers
          /\ p.seen \in {"READY_FOR_PICKUP", "PICKED_UP"}

Patch == {p \in [op : {"patch"}, order : Orders,
                 actor : Customers \cup Merchants \cup Drivers,
                 target : Targets, seen : Live] : Asked(p)}

-----------------------------------------------------------------------------
(* Amounts *)

Total(row) == row.sub + DeliveryFee

\* platform_commission, Round(0.15 * item_subtotal, 2).
Commission(sub) == (15 * sub + 50) \div 100

MerchantEarning(sub) == sub - Commission(sub)
DeliveryCommission   == DeliveryFee \div 10
DriverEarning        == 9 * (DeliveryFee \div 10)

\* CreateLedgerEntries refuses an entry whose amount is not positive.
SettlementPostable(row) ==
    /\ MerchantEarning(row.sub) > 0
    /\ row.pay = "CASH" => Commission(row.sub) > 0

\* Mutant of WalletSettlement: the driver gets the whole delivery fee.
SettlementWholeFee(row) ==
    Moved(-Total(row), 0, MerchantEarning(row.sub), DeliveryFee,
          Commission(row.sub) + DeliveryCommission)

\* The escrow goes to the merchant, the driver and the platform.
WalletSettlement(row) ==
    Moved(-Total(row), 0, MerchantEarning(row.sub), DriverEarning,
          Commission(row.sub) + DeliveryCommission)

\* The driver, who was paid in cash, hands over the merchant's part and both
\* commissions.
CashSettlement(row) ==
    Moved(0, 0, MerchantEarning(row.sub),
          -(MerchantEarning(row.sub) + Commission(row.sub) + DeliveryCommission),
          Commission(row.sub) + DeliveryCommission)

-----------------------------------------------------------------------------
(* Steps shared by the actions *)

\* Insert ledger entries under reference o; the trigger on ledger_entries
\* moves the balances of the wallets in the same transaction.
Post(o, c, d, n) ==
    /\ posted' = [posted EXCEPT ![o] = Plus(posted[o], n)]
    /\ custBal' = [x \in Customers |->
                      IF x = c THEN custBal[x] + n.customer ELSE custBal[x]]
    /\ drvBal' = [x \in Drivers |->
                      IF x = d THEN drvBal[x] + n.driver ELSE drvBal[x]]

\* Mutant of ResetDriverIdle: the update matches no row.
KeepDriverBusy(d) == UNCHANGED drvWork

ResetDriverIdle(d) ==
    drvWork' = [x \in Drivers |-> IF x = d THEN "IDLE" ELSE drvWork[x]]

Done(r) == req' = [req EXCEPT ![r] = None]

-----------------------------------------------------------------------------
Init ==
    /\ order = [o \in Orders |-> NoRow]
    /\ custBal \in [Customers -> CustStart]
    /\ drvBal \in [Drivers -> DrvStart]
    /\ debt = [c \in Customers |-> 0]
    /\ drvStatus = [d \in Drivers |-> "ACTIVE"]
    /\ drvWork = [d \in Drivers |-> "IDLE"]
    /\ posted = [o \in Orders |-> Zero]
    /\ req = [r \in Requests |-> None]

\* CreateFoodOrder reads the customer's debt, the merchant and the items of
\* the cart, with their prices, outside the transaction.
CreateGate(r, c, m, sub) ==
    /\ req[r] = None
    /\ debt[c] = 0
    /\ req' = [req EXCEPT ![r] = [op |-> "create", customer |-> c,
                                  merchant |-> m, sub |-> sub]]
    /\ UNCHANGED <<order, custBal, drvBal, debt, drvStatus, drvWork, posted>>

\* CreateFoodOrder's transaction: a WALLET order is born CONFIRMED, its total
\* held in escrow if the balance under the wallet lock covers it; a CASH order
\* is born CREATED.  Either waits for its merchant.
CreateCommit(r, o, pay) ==
    /\ req[r] # None
    /\ req[r].op = "create"
    /\ order[o].status = "NONE"
    /\ LET c    == req[r].customer
           row  == [NoRow EXCEPT !.status = IF pay = "WALLET" THEN "CONFIRMED"
                                            ELSE "CREATED",
                                 !.customer = c, !.merchant = req[r].merchant,
                                 !.pay = pay, !.sub = req[r].sub]
           hold == IF pay = "WALLET" THEN Total(row) ELSE 0
       IN  /\ hold <= custBal[c]
           /\ order' = [order EXCEPT ![o] = row]
           /\ Post(o, c, None, Moved(hold, -hold, 0, 0, 0))
    /\ Done(r)
    /\ UNCHANGED <<debt, drvStatus, drvWork>>

\* Mutant of MayAccept: working_status is trusted from the reading before the
\* lock.
MayAcceptBusy(d) == drvStatus[d] = "ACTIVE"

\* The driver's row is locked only while active and idle.  The count of at
\* most three running food orders, read before, is zero for an idle driver.
MayAccept(d) == drvStatus[d] = "ACTIVE" /\ drvWork[d] = "IDLE"

\* AcceptFoodOrder: the driver is set on the order, whose status stays, and
\* becomes BUSY.
AcceptFoodOrder(d, o) ==
    /\ MayAccept(d)
    /\ order[o].status = "READY_FOR_PICKUP"
    /\ order[o].driver = None
    /\ order' = [order EXCEPT ![o] = [@ EXCEPT !.driver = d]]
    /\ drvWork' = [drvWork EXCEPT ![d] = "BUSY"]
    /\ UNCHANGED <<custBal, drvBal, debt, drvStatus, posted, req>>

\* validateFoodTransition: what each party to the order may ask for.
ValidTransition(row, actor, target) ==
    \/ /\ actor = row.customer
       /\ target = "CANCELLED"
       /\ row.status \in Unanswered
    \/ /\ actor = row.merchant
       /\ \/ target = "CANCELLED" /\ row.kitchen = "WAITING"
          \/ \E k \in Kitchen : k[1] = target /\ k[2] = row.kitchen
    \/ /\ actor = row.driver
       /\ \/ <<row.status, target>> \in Carry
          \/ target = "CANCELLED" /\ row.status \in {"READY_FOR_PICKUP", "PICKED_UP"}

\* A request for the status an order already has is answered as a replay,
\* unless it is the confirmation of a WALLET order that still waits.
Replay(row, target) ==
    row.status = target /\ ~(target = "CONFIRMED" /\ row.kitchen = "WAITING")

\* updateFoodOrderStatusTx reads the order, its merchant_status with it, and
\* validates the transition before it opens the transaction.
ReadOrder(r, o, actor, target) ==
    /\ req[r] = None
    /\ order[o].status \in Live
    /\ ~Replay(order[o], target)
    /\ ValidTransition(order[o], actor, target)
    /\ req' = [req EXCEPT ![r] = [op |-> "patch", order |-> o, actor |-> actor,
                                  target |-> target, seen |-> order[o].status]]
    /\ UNCHANGED <<order, custBal, drvBal, debt, drvStatus, drvWork, posted>>

\* Mutant of Locked: the status is not compared again after the lock.
LockedUnchecked(r, targets) ==
    req[r] # None /\ req[r].op = "patch" /\ req[r].target \in targets

\* The order row is locked; the transaction goes on only if the status, and
\* the status alone, is still the one that was read.
Locked(r, targets) ==
    /\ req[r] # None
    /\ req[r].op = "patch"
    /\ req[r].target \in targets
    /\ order[req[r].order].status = req[r].seen

\* The merchant moves the order and its merchant_status forward.
Prepare(r) ==
    /\ Locked(r, KitchenTargets)
    /\ \E k \in Kitchen :
          /\ k[1] = req[r].target
          /\ order' = [order EXCEPT ![req[r].order] =
                          [@ EXCEPT !.status = k[1], !.kitchen = k[3]]]
    /\ Done(r)
    /\ UNCHANGED <<custBal, drvBal, debt, drvStatus, drvWork, posted>>

\* The driver reports pickup and departure.
MoveOn(r) ==
    /\ Locked(r, {"PICKED_UP", "IN_TRANSIT"})
    /\ order' = [order EXCEPT ![req[r].order] = [@ EXCEPT !.status = req[r].target]]
    /\ Done(r)
    /\ UNCHANGED <<custBal, drvBal, debt, drvStatus, drvWork, posted>>

\* Mutant of Refundable: a CASH order is refunded too.
RefundableAny(row) == ~row.refunded /\ ~row.settled

Refundable(row) == row.pay = "WALLET" /\ ~row.refunded /\ ~row.settled

\* Cancellation by the customer, the merchant or the driver: the whole total
\* goes back to the customer of a WALLET order, and a driver who cancels is
\* idle again.
CancelOrder(r) ==
    /\ Locked(r, {"CANCELLED"})
    /\ LET o    == req[r].order
           row  == order[o]
           back == IF Refundable(row) THEN Total(row) ELSE 0
       IN  /\ order' = [order EXCEPT ![o] =
                          [@ EXCEPT !.status = "CANCELLED",
                                    !.refunded = row.refunded \/ Refundable(row),
                                    !.endedBy = req[r].actor]]
           /\ Post(o, row.customer, None, Moved(-back, back, 0, 0, 0))
           /\ IF req[r].actor \in Drivers THEN ResetDriverIdle(req[r].actor)
              ELSE UNCHANGED drvWork
    /\ Done(r)
    /\ UNCHANGED <<debt, drvStatus>>

\* DELIVERED and its settlement are one transaction: the row is only ever
\* seen SETTLED.
Deliver(r) ==
    /\ Locked(r, {"DELIVERED"})
    /\ LET o   == req[r].order
           row == order[o]
           net == IF row.pay = "WALLET" THEN WalletSettlement(row)
                  ELSE CashSettlement(row)
       IN  /\ row.driver # None
           /\ SettlementPostable(row)
           /\ order' = [order EXCEPT ![o] = [@ EXCEPT !.status = "SETTLED",
                                                      !.settled = TRUE]]
           /\ Post(o, row.customer, row.driver, net)
           /\ drvStatus' = [drvStatus EXCEPT ![row.driver] =
                 IF row.pay = "CASH"
                    /\ drvBal[row.driver] + net.driver < NegativeCeiling
                 THEN "SUSPENDED" ELSE @]
           /\ ResetDriverIdle(row.driver)
    /\ Done(r)
    /\ UNCHANGED debt

\* A request ends in an error and its transaction rolls back.
Fail(r) ==
    /\ req[r] # None
    /\ Done(r)
    /\ UNCHANGED <<order, custBal, drvBal, debt, drvStatus, drvWork, posted>>

\* Mutant of Sweepable: only orders that a merchant has seen are taken.
SweepableSeen(o) ==
    order[o].status = "CREATED" /\ order[o].overdue /\ order[o].kitchen # "WAITING"

\* What the worker's query selects and its check under the row lock confirms.
Sweepable(o) == order[o].status = "CREATED" /\ order[o].overdue

\* cancelOneFoodOrder: the refund comes before the cancellation and is the
\* same as the customer's.
AutoCancel(o) ==
    /\ Sweepable(o)
    /\ LET row  == order[o]
           back == IF Refundable(row) THEN Total(row) ELSE 0
       IN  /\ order' = [order EXCEPT ![o] =
                          [@ EXCEPT !.status = "CANCELLED",
                                    !.refunded = row.refunded \/ Refundable(row)]]
           /\ Post(o, row.customer, None, Moved(-back, back, 0, 0, 0))
    /\ UNCHANGED <<debt, drvStatus, drvWork, req>>

\* Time passes: the merchant has left the order unanswered for 15 minutes.
GoOverdue(o) ==
    /\ order[o].status \in Unanswered
    /\ order[o].kitchen = "WAITING"
    /\ ~order[o].overdue
    /\ order' = [order EXCEPT ![o] = [@ EXCEPT !.overdue = TRUE]]
    /\ UNCHANGED <<custBal, drvBal, debt, drvStatus, drvWork, posted, req>>

\* An administrator suspends or reactivates a driver.
UpdateUserStatus(d, status) ==
    /\ drvStatus' = [drvStatus EXCEPT ![d] = status]
    /\ UNCHANGED <<order, custBal, drvBal, debt, drvWork, posted, req>>

Next ==
    \/ \E r \in Requests, c \in Customers, m \in Merchants, sub \in Subtotals :
          CreateGate(r, c, m, sub)
    \/ \E r \in Requests, o \in Orders, pay \in {"WALLET", "CASH"} :
          CreateCommit(r, o, pay)
    \/ \E d \in Drivers, o \in Orders : AcceptFoodOrder(d, o)
    \/ \E r \in Requests, o \in Orders,
          actor \in Customers \cup Merchants \cup Drivers, target \in Targets :
          ReadOrder(r, o, actor, target)
    \/ \E r \in Requests : Prepare(r)
    \/ \E r \in Requests : MoveOn(r)
    \/ \E r \in Requests : CancelOrder(r)
    \/ \E r \in Requests : Deliver(r)
    \/ \E r \in Requests : Fail(r)
    \/ \E o \in Orders : AutoCancel(o)
    \/ \E o \in Orders : GoOverdue(o)
    \/ \E d \in Drivers, s \in {"ACTIVE", "SUSPENDED"} : UpdateUserStatus(d, s)

Spec == Init /\ [][Next]_vars

\* The worker's sweep runs every minute, over all orders its query finds.
FairSpec == Spec /\ \A o \in Orders : WF_vars(AutoCancel(o))

-----------------------------------------------------------------------------
(* Properties *)

TypeOK ==
    /\ order \in [Orders -> Row]
    /\ custBal \in [Customers -> Int]
    /\ drvBal \in [Drivers -> Int]
    /\ debt \in [Customers -> Nat]
    /\ drvStatus \in [Drivers -> {"ACTIVE", "SUSPENDED"}]
    /\ drvWork \in [Drivers -> {"IDLE", "BUSY"}]
    /\ posted \in [Orders -> Net]
    /\ req \in [Requests -> Cart \cup Patch \cup {None}]

\* What a live order's customer paid in and nobody has received yet.
HeldFor(row) == IF row.status \in Live /\ row.pay = "WALLET" THEN Total(row) ELSE 0

\* status and merchant_status are two columns that one merchant action writes
\* together after reading them apart from the lock: they stay in step, so that
\* no order is carried that its merchant has not finished, and none that its
\* merchant is working on still looks unanswered.
InStep(row) ==
    \/ row.status \in {"NONE", "CREATED"} /\ row.kitchen = "WAITING"
    \/ row.status = "CONFIRMED" /\ row.pay = "WALLET" /\ row.kitchen = "WAITING"
    \/ row.status = "CONFIRMED" /\ row.kitchen = "CONFIRMED"
    \/ row.status = "PREPARING" /\ row.kitchen = "PREPARING"
    \/ row.status \in Carried \cup {"SETTLED"} /\ row.kitchen = "READY"
    \/ row.status = "CANCELLED" /\ row.kitchen # "PREPARING"

KitchenInStep == \A o \in Orders : InStep(order[o])

\* A settled food order paid the merchant the items less the commission, the
\* platform both commissions, and the driver the rest of the delivery fee:
\* out of escrow for WALLET, out of the driver's cash for CASH.
Split(row, n) ==
    /\ n.merchant + Commission(row.sub) = row.sub
    /\ n.platform = Commission(row.sub) + DeliveryCommission
    /\ row.pay = "WALLET" =>
          n.customer = -Total(row) /\ n.driver = DeliveryFee - DeliveryCommission
    /\ row.pay = "CASH" =>
          n.customer = 0 /\ n.driver = -(row.sub + DeliveryCommission)

SettledSplit ==
    \A o \in Orders : order[o].status = "SETTLED" => Split(order[o], posted[o])

\* A driver is BUSY exactly while one order of the driver is on its way, and
\* never has two, although AcceptFoodOrder counts orders outside the lock and
\* the order's own status does not change when it is accepted.
Carrying(row) == row.status \in Carried /\ row.driver # None

DriverExclusive ==
    /\ \A d \in Drivers :
          drvWork[d] = "BUSY" <=>
             \E o \in Orders : order[o].driver = d /\ order[o].status \in Carried
    /\ \A o, p \in Orders :
          /\ Carrying(order[o])
          /\ Carrying(order[p])
          /\ order[o].driver = order[p].driver
          => o = p

\* A food order that was cancelled or settled stays as it is.
FinalKept ==
    \A o \in Orders : order[o].status \in Final =>
        order'[o] = order[o] /\ posted'[o] = posted[o]

FinalIsFinal == [][FinalKept]_vars

\* The order's money: opened once with the total in escrow, closed once, in
\* balance and with nothing left behind, by whichever of the customer, the
\* merchant, the driver and the worker ends it.
Phase(row) == IF row.status = "NONE" THEN "none"
              ELSE IF row.status \in Live THEN "open" ELSE "closed"

Promise == INSTANCE EscrowPromise WITH
    phase  <- [o \in Orders |-> Phase(order[o])],
    escrow <- [o \in Orders |-> posted[o].escrow],
    payer  <- [o \in Orders |-> posted[o].customer],
    others <- [o \in Orders |->
                  posted[o].merchant + posted[o].driver + posted[o].platform]

KeepsPromise == Promise!Spec

\* The driver who has the meal in hand.
Carrier(row) == IF row.status \in Carried THEN row.driver ELSE None

Duty == INSTANCE DriverDuty WITH
    carrier <- [o \in Orders |-> Carrier(order[o])],
    work    <- drvWork

\* Whoever moves the food order, an idle driver takes it, and is made idle again by
\* the very step that takes it out of the driver's hands.
KeepsDuty == Duty!Spec

-----------------------------------------------------------------------------
(* The inductive invariant behind the safety properties *)

\* Which columns of a row are set at which status.
Filled(row) ==
    /\ row.status # "NONE" => row.customer \in Customers
    /\ row.status = "NONE" => row.customer = None /\ row.merchant = None
    /\ row.status \in {"NONE", "CREATED", "CONFIRMED", "PREPARING"} => row.driver = None
    /\ row.status \in {"PICKED_UP", "IN_TRANSIT", "SETTLED"} => row.driver \in Drivers
    /\ row.settled <=> row.status = "SETTLED"
    /\ row.refunded => row.status = "CANCELLED"

RowsOK == \A o \in Orders : Filled(order[o])

\* A live order has posted its hold and nothing else, a cancelled one has
\* given it back.
LiveLedger ==
    \A o \in Orders : order[o].status # "SETTLED" =>
        posted[o] = Moved(HeldFor(order[o]), -HeldFor(order[o]), 0, 0, 0)

\* A driver who asked for a change still has the order, whatever the order's
\* status is by now.
ReadingOK ==
    \A r \in Requests :
        req[r] # None /\ req[r].op = "patch" /\ req[r].actor \in Drivers
            => order[req[r].order].driver = req[r].actor

CustomerNotOverdrawn == \A c \in Customers : custBal[c] >= 0

\* What holds whoever else writes working_status.
OrdersInv ==
    /\ TypeOK
    /\ RowsOK
    /\ KitchenInStep
    /\ LiveLedger
    /\ ReadingOK
    /\ SettledSplit
    /\ CustomerNotOverdrawn

IndInv == OrdersInv /\ DriverExclusive

-----------------------------------------------------------------------------
(* Statements of the code's comments and documents that the code breaks *)

\* Every order whose merchant stays silent is cancelled by the worker, with
\* its refund if it was paid from the wallet.
UnansweredIsCancelled ==
    \A o \in Orders :
        (order[o].status \in Unanswered /\ order[o].kitchen = "WAITING"
            /\ order[o].overdue)
            ~> ~(order[o].status \in Unanswered /\ order[o].kitchen = "WAITING")

\* "WAITING -> CANCELLED (reject + refund WALLET)": a merchant rejects an
\* order only while merchant_status is WAITING.
RejectedWaiting ==
    \A o \in Orders :
        (order[o].status = "CANCELLED" /\ order[o].endedBy \in Merchants)
            => order[o].kitchen = "WAITING"

=============================================================================
