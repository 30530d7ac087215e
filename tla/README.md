# TLA+ models of G-Flow

G-Flow is a Go modular monolith (about 20,000 lines under `cmd/` and `internal/`) for wallets, ride
hailing, food delivery and parcel delivery in Indonesia, on PostgreSQL and Redis. This directory
holds models of the parts where money and scarce resources depend on the order of concurrent steps,
the TLC configurations that check them, and TLAPS proofs of the central results.

Paths below are relative to the repository; `PROJECT.json` maps each definition to its lines.

## 1. The system

| Component | State | Operations | Module |
|---|---|---|---|
| Ride orders (`internal/ride`) | `ride_orders`, drivers' `working_status`, customers' `overdue_debt` | book, accept, status changes, cancel with fee, complete and settle | `RideOrder` |
| Food orders (`internal/food`) | `food_orders` with the merchant's status | order, kitchen steps, accept, deliver and settle, cancel | `FoodOrder` |
| Send orders (`internal/send`) | `send_orders`, `send_order_stops` | price and post, accept, move, report stops, settle, cancel | `SendOrder` |
| The three together (`cmd/api/main.go`) | users and wallets they share | everything above over one driver and one wallet | `GFlow` |
| Auto-cancel worker (`internal/worker`) | a Redis lock | sweep late orders of three services, purge idempotency rows | sweeps in the order modules, purge in `Idempotency` |
| Wallet service (`internal/wallet/service.go`) | wallets, top-ups, transfers, withdrawals, `overdue_debt` | top up with debt settlement, transfer, pay withdrawals | `CustomerWallet`, withdrawals also in `Ledger` |
| Ledger and reversal (`internal/wallet/ledger.go`, `internal/admin`, triggers of `migrations/001`) | `ledger_entries`, `wallets.balance` | post, reverse, reverse with clawback | `Ledger` |
| Idempotency keys (same code in `wallet`, `ride`, `food`, `send`) | Redis entry (L1), row of `idempotency_cache` (L2) | look up, claim, execute, store, take over | `Idempotency` |
| Wallet row locks (`lockWalletsAsc`, six copies) | row locks | lock the wallets of a transaction in ascending id | `WalletLocks` |
| Location (`internal/location`) | Redis hashes with a TTL, `driver_locations`, `is_online` | report, go online or offline, flush, find nearby | `DriverPresence` |
| Authentication (`internal/auth`, `internal/middleware/auth.go`) | tokens; blacklist and revocation keys in Redis | log in, log out, check, revoke | `Sessions` |
| Admin (`internal/admin`) | lockouts, action log | reverse, suspend, approve, log in with a second factor | `Ledger`, `CustomerWallet`, `Sessions`, `AdminLockout` |
| Merchants and menus, driver service, vouchers, retry, wiring | see section 6 | | not modelled |

How they interact. The handlers call the services; the services share one PostgreSQL database. The
services never call each other except through the ledger service, so their interaction is the
shared rows: wallets (balances and locks), users (`overdue_debt`, `status`, `working_status`) and
`idempotency_cache`. Every financial transaction posts ledger entries and a trigger moves
`wallets.balance`; no service writes a balance itself. The worker and the administrators act on the
same rows from outside. Location, authentication and lockout live in Redis and PostgreSQL at once,
without a transaction over both.

What is hard. Handlers read rows before they open their transaction and act on them after locking
other rows. The key claim, the business transaction and the response are three commits with crashes
between them. The wallets locked by one call are ordered, those of several calls are not. Amounts
meet discounts, actual fares, fees and partial balances at their boundaries. Three services reset
one `working_status`. Redis keys expire, get lost and are written beside PostgreSQL rows.
`PROJECT.json` "hazards" lists each at its line with the properties that cover it.

What makes each part correct:
- orders: escrow holds what a live order's customer paid and nothing of an ended one; each ending
  moves the right amounts once; ended orders stay as they are; late ones end;
- drivers: one order at a time over all services, and `working_status` says so;
- wallet: no overdraft but by settling a debt or reversing what was received, no debt from nowhere,
  escrow covers what is held;
- idempotency: copies of a request execute once, are answered only with what was committed, and a
  key is not lost to a crash;
- ledger: balances are the projection of standing entries, each reference is in balance;
- locks: no circle of waiting transactions;
- location: what a search shows is recent, and what stays in Redis reaches the table;
- sessions: a suspended user's tokens go, and a rejected token stays rejected;
- lockout: failures in a window are bounded and no lock lasts for ever.

## 2. How the project is built

There are two abstract specifications. `EscrowPromise` says what becomes of an order's money: it is put
into escrow once and paid out once, in balance. `DriverDuty` says what becomes of its driver: an idle
driver takes one order, and is idle again by the step that ends it. `RideOrder`, `FoodOrder` and
`SendOrder` each implement both (`KeepsPromise` and `KeepsDuty` are proved; TLC checks the promise of
all three and the duty of meals and parcels, whose `DriverExclusive` is a conjunct of `IndInv`).
`GFlow` composes the three over shared users and wallets, and implements both as well. The other
modules stand alone.

`MCX` with its `.cfg` files instantiates `X` for TLC, and `X_proofs` extends `X`, except that
`Money_proofs` is about `CustomerWallet` and `Ledger`, which share the theory of sums it begins with,
and `RequestGuards_proofs` about what requests are guarded with: `Idempotency`, `WalletLocks` and
`AdminLockout`. A proof module extends what it is about, so `Ledger`, `WalletLocks` and `AdminLockout`
put their own name before names every module has (`LedgerSpec`, `LocksSpec`, `LockoutSpec`).

The plan of the first version (wallet, food, send, shared drivers, location, revocation, lockout, the
refinement) is carried out. What remains of it: the worker's Redis lock and vouchers' limits
(section 6).

## 3. The modules

In all of them a transaction over locked rows is one action; what a handler reads before its
transaction is a step of its own, kept in a request (`req`) and stale by the time it is used; a
transaction that fails rolls back, so a failing branch is a guard and a request may always end in
`Fail`.

### RideOrder (`internal/ride/service.go`, `repository.go`; `internal/worker/worker.go`)
`order` holds the rows of `ride_orders` with the columns control depends on; `expired` and `waited`
stand for the comparisons of `expires_at` and `arrived_at` with the clock. `posted[o]` is the net
effect of the ledger entries with reference `o` on the five wallets they touch, and `custBal`,
`drvBal` the wallets' balances moved by the same postings. The booking transaction inserts CREATED
and moves on to SEARCHING_DRIVER before it commits, and the completion passes through COMPLETED
before SETTLED, so neither intermediate status is ever visible.

| Code | Action |
|---|---|
| `BookRide` before / in its transaction | `BookGate`, `BookCommit` |
| `AcceptOrder` | `AcceptOrder` (everything is read again under the driver's row lock) |
| `updateRideStatusTx` before its transaction | `ReadOrder` |
| its transaction, per target | `Arrive`, `StartTrip`, `CancelOrder`, `CompleteOrder` |
| an error or a lost connection | `Fail` (rolls back) |
| `cancelOneRideOrder` | `AutoCancel` |
| time | `Expire`, `WaitAtPickup` |
| `UpdateUserStatus` of the administrator | `UpdateUserStatus` |

Abstractions: fares and discounts are inputs instead of haversine and voucher formulas; a discount
never exceeds the fare (`computeVoucherDiscount` caps it). All non-active account statuses are
SUSPENDED. Replaying a completion on a SETTLED order changes nothing and is left out. The customer's
account status, top-ups, the floor of the balance column (a posting it refuses is a `Fail`), ratings,
events and history are left out.

### FoodOrder (`internal/food/service.go` from 881, `repository.go`)
As `RideOrder`, with the merchant. `kitchen` is `merchant_status`, `endedBy` the actor in the
cancellation event, `overdue` fifteen minutes without an answer.

| Code | Action |
|---|---|
| `CreateFoodOrder` before / in its transaction | `CreateGate`, `CreateCommit` |
| `AcceptFoodOrder` | `AcceptFoodOrder` (the status stays READY_FOR_PICKUP) |
| `updateFoodOrderStatusTx` before its transaction | `ReadOrder` |
| its transaction, per target | `Prepare` (merchant), `MoveOn` (driver), `CancelOrder`, `Deliver` with settlement |
| `cancelOneFoodOrder` | `AutoCancel` |

A cart is its subtotal; items, prices and opening hours are read outside the transaction.

### SendOrder (`internal/send/service.go`, `repository.go`)
`stops` is the status of `send_order_stops`. A parcel is its stops with distances, weight and value,
and the tariff is computed as in the code, with its rounding (`TotalFare`), down to the sixteen
decimal places of a share's quotient (`Share`).

| Code | Action |
|---|---|
| `CreateSendOrder` before / in its transaction | `CreateGate`, `CreateCommit` |
| `AcceptSendOrder` before / in its transaction | `AcceptGate` (driver and balance), `AcceptCommit` (order and driver; the balance is not compared again) |
| `updateSendOrderStatusTx` | `ReadOrder`, then `MoveOn`, `CancelOrder` or `Deliver` |
| `UpdateSendOrderStop` | `ReadStop`, then `UpdateStop` or, for the stop that completes the order, `LastStop` |
| `cancelOneSendOrder` | `AutoCancel` |

A stop is named by its id alone in the code's update, so `ReadStop` may name a stop of another order.

### EscrowPromise
Per order a phase, what is in escrow, and the net effect on the payer and on all others. `Open` puts
the payer's money into escrow; `Close` empties it in one step, in balance, the payer not gaining.

### DriverDuty
Per order its `carrier`, per driver its `working_status`. `Take` needs an order nobody carries and an
idle driver, `Release` ends the order's carrying and frees that driver; nothing else moves either.

### GFlow (`cmd/api/main.go`, `sweepOnce`)
Instances of the three order modules with their own orders and requests over one `custBal`, `drvBal`,
`debt`, `drvStatus` and `drvWork`. A step is a step of one service that leaves what is private to the
others alone. `DriverExclusive` of a single service says BUSY exactly during its own orders, which
is no longer so here; `OneOrderAnywhere` is its counterpart over all three, and `KeepsDuty` the
refinement of `DriverDuty` with the orders of all three services as its orders.

### CustomerWallet (`internal/wallet/service.go`, fare adjustment of `internal/ride`, `internal/admin`, `migrations/012`)
`TopUpRead` reads balance, debt and KYC status, `TopUpCommit` settles the debt that was read and
writes back the difference; `TransferRead` and `TransferCommit` likewise. `Hold`, `Refund` and
`Complete` are the postings of the order services on the same wallet, `Complete` with the surplus that
goes back to the customer or with the shortfall that the subsidy wallet covers and that becomes debt;
`Synced` is the trigger that turns a negative balance into debt. `ReverseRead` and `ReverseCommit` are
an administrator's `ReverseTransaction` of a top-up or a transfer, and of what an earlier reversal
posted under the same reference: the entries are read without a lock, a settled debt is clawed back
from the platform for the payer of the first debit (entries of one transaction have one `created_at`,
so the first is any), and the marking undoes what still stands of what was read. The balance trigger
runs row by row and the debt trigger sees each balance on the way (`LowPoint`). `settled`, `covered`
and `reversed` are totals. `EscrowCoversHolds` compares the escrow wallet with the sum of what all
customers' orders hold.

Two things are coarser than the code. `TopUpRead` is three queries in one step: what is between them
concerns the KYC limit only, which no property is about, and the debt is one of the three. And orders
are not reversed here: nothing in the code keeps an administrator from reversing an order under way,
which takes its hold out of escrow, so that `EscrowCoversHolds` would have to except it; `Ledger`
reverses orders at every stage.

### Ledger (`internal/wallet/ledger.go`, `internal/admin/service.go`, `migrations/001`)
`ledger` is the table in order of insertion, `balances` the column the trigger keeps; what entries add
up to is a sum over a set of positions (`Total`). `HoldFare` and `Settle` stand for the postings of an
order, `RequestWithdrawal`, `ApproveWithdrawal` and
`RejectWithdrawal` for those of a withdrawal. A reversal is two steps: `ReadEntries` without a lock,
then `ReverseTransaction` or `ReverseLedger` under the wallet locks with the ids read before; the
guards are the code's own checks, the deferred balance check of `validate_ledger_balance` and the
floor of the balance column. The compensating entries of `ReverseTransaction` follow the order of the
entries they compensate (`Givers`). `ReverseLedger` has no caller outside tests at this commit; it is
modelled because it is the ledger service's public interface.

### Idempotency (`internal/wallet/service.go` 785-892 and its copies; `purgeIdempotencyCache`)
One key. Each copy of the request is at one step (`pc`); `l1` is the Redis entry, `l2` the row,
`executed` the copies whose transaction committed. A response is named by the copy that executed.
`Fail` may strike at every step; Redis writes may be lost (`SetL1`, `Refill`), entries evicted
(`Evict`), the debounce may lapse (`Lapse`), the worker may purge the row (`Purge`, after a day, so
after every copy of then has ended: the key starts a new life in which what Redis still holds is
`Earlier`). `Retry` is the client trying again after an error that executed nothing; a client that
retries after a lost answer is another copy. The food and send copies of this code are the same.

### WalletLocks (`lockWalletsAsc` of six packages)
Wallet ids are positions; the five system wallets have the seeded ids 1 to 5 and every user wallet a
greater one. A transaction is its sequence of lock calls; `Lock` takes the least row still wanted if
nobody holds it. `AdjustmentCalls` are the two or three calls of `completeOrderTx` when the actual
fare differs, enabled by the constant `WithAdjustment`. A reversal locks the wallets of all entries of
its reference in one call (`ReversalCalls`). `AbortTx` stands for PostgreSQL's deadlock detector and
the statement timeout. Row locks on users and orders are left out.

### DriverPresence (`internal/location`)
Each Redis command and each SQL statement is a step: `UpdateLocation` begins a call, then `HSet`,
`Expire` or, when Redis fails, `Upsert`; going offline updates the row and deletes the key after
(`DeleteKey`); `BeginFlush`, `ReadLat`, `ReadLng`, `WriteRow` are `FlushLoop` key by key, field by
field. A key that cannot be read or a row that cannot be written is passed over (`ReadFails`,
`WriteFails`), a failing SCAN or the end of the process ends the flush (`GiveUp`); `missed` is the set
of drivers a flush ever left out. A position is the time it was reported, once per coordinate. `Tick` expires keys and keeps
calls, flushes and the pause between them within their bounds. Distance is left out: which drivers
are within the radius (`near`) is any set.

### Sessions (`internal/auth`, `internal/middleware/auth.go`, `UpdateUserStatus`)
Time is in seconds, like `iat`. `LoginRead` reads the status, `LoginIssue` signs later. A suspension
commits (`Leave`), takes the time of its cutoff with the second of grace the code adds (`TakeCutoff`),
and writes it to Redis after (`Revoke`, or `RevokeFails`). SET replaces what is there: of two
suspensions that overlap the slower may set the cutoff back, and `setBack` is the set of users to
whom that happened. `Accepted` is what `AuthMiddleware` lets through while Redis answers;
it accepts every valid token when Redis does not.

### AdminLockout (`internal/admin/lockout.go`, `Login`)
One account. A request checks Redis and PostgreSQL, compares, and then counts or clears one call at a
time. Redis may stop answering (`Unreachable`), come back (`Reachable`) or lose its keys
(`LoseKeys`); a request may stop anywhere (`Stop`). A statement of PostgreSQL may fail: the check then
lets the request pass (`CheckPGFails`), the count is not written although the lock still is
(`UpsertFails`) or nobody counts (`RecordFails`), and a lock that finds no row is in Redis only
(`Persist`, `there`).

## 4. The runs

| Run | Question | Distinct states |
|---|---|---|
| `three_services` | do ride, food and send orders of one customer and one driver share wallet and driver safely, and do late orders end? | 1,036,770 |
| `ride_orders` | do stale readings, vouchers, other fares and short balances break escrow, refunds, split, drivers or finality of rides? | 2,244,461 |
| `food_orders` | the same for meals, with kitchen and order in step | 238,722 |
| `send_orders` | the same for parcels, with two endpoints that settle | 829,436 |
| `wallet_debt` | how far can debt, wallet and escrow drift apart, with reversals? | 507,044 |
| `presence` | how old may a shown position be, does what stays in Redis reach the table untorn? | 3,327,504 |
| `sessions` | which tokens outlive a suspension, may a rejected one come back? | 5,803,973 |
| `lockout` | are failures in a window bounded, do locks end? | 5,256,622 |
| `idem_copies` | do three copies with crashes execute once, answer what was committed, and recover the key? | 15,780 |
| `ledger_totals` | do concurrent reversals keep balances and references right? | 28,806 |
| `locks_one_call` | can transactions of one lock call each deadlock? | 2,992,431 |
| `ledger_refund` | does a reversal give the customer exactly the money back? | violated |

`ledger_refund`: `ReverseTransaction` both posts compensating entries and marks the originals, whose
trigger moves the balances a second time. `PROJECT.json` "findings" quotes the documents it
contradicts.

Each property of a passing run comes with a mutant, a definition next to the one it replaces, that
changes the code the way a plausible bug would and that breaks the property.

### Configurations kept beside the runs
Each of these ends in a counterexample to a statement of a comment or a document:

| Configuration (module) | Statement | What happens |
|---|---|---|
| `MCRideCancel.cfg` (`MCRideOrder`) | a live WALLET ride can be cancelled | `refundEscrow` and `refundCancellationFee` post an amount of zero when the basis is zero or no more than the fee, which `CreateLedgerEntries` refuses; the worker's refund does handle zero |
| `MCRideDebtGate.cfg` (`MCRideOrder`) | no order is inserted for a customer in debt | the gate is read outside the transaction that inserts |
| `MCIdemOnce.cfg` (`MCIdempotency`) | a key executes at most once | a lapsed PROCESSING row is taken for a crash before the commit; a crash after it leaves the same row |
| `MCLedgerOverdraft.cfg` (`MCLedger`) | a wallet is negative by cash settlement only | the balance is compared when a withdrawal is requested, not when it is paid |
| `MCLocksRide.cfg` (`MCWalletLocks`) | no deadlock | a completion with another fare makes several lock calls; PostgreSQL aborts one transaction of the circle |
| `MCFoodWaiting.cfg` (`MCFoodOrder`) | unanswered orders are cancelled after 15 minutes | WALLET orders are born CONFIRMED (`food/service.go` 970-972), the sweep selects CREATED (`worker/repository.go` 63-67) |
| `MCSendStops.cfg` (`MCSendOrder`) | all stops are delivered before the order settles | a report may name a stop of another order of any driver and take it back from DELIVERED |
| `MCSendExact.cfg` (`MCSendOrder`) | the shares of a fare add up to it exactly (`send/service.go` 711-714) | three stops, the last where the second is: both halves of an odd fare are rounded up |
| `MCPresenceSilent.cfg` (`MCPresence`) | a driver silent for 60 seconds is not found | a flush stamps the row with its own time, the SQL search then counts 30 seconds more |
| `MCWalletNet.cfg` (`MCCustomerWallet`) | a top-up credits what remains after the debt (`docs/STP.txt`, TC-017) | it credits the net amount and debits the settled debt from the wallet as well |

### Bounds
- Orders: two orders, drivers and requests are the least with which two requests race for an order,
  two orders for a driver, and a third party (worker, administrator) interferes; every guard concerns
  one order, one driver and one request, so a third would repeat a race of two. `send_orders` has one
  driver, for whom two orders compete.
- Amounts of rides and meals are scaled down together: a ride of 20 with fees of 5 and 10, a meal of
  20 with a delivery fee of 10. A voucher of 15 leaves a basis of 5, equal to one fee and below the
  other; an actual fare of 10 lies above that basis and below the fare of 20; a balance of 27 covers
  two holds and leaves 2 for a difference of 5. The cash ceilings are such that one order passes them.
- `three_services`: one order of each service at the code's amounts, one request in flight over all
  services (`MaxInFlight`); acceptances of rides and meals and the worker need no request. A wallet of
  45.000,00 pays for a meal, or for a ride and a parcel, and cannot cover a ride's higher fare then.
- `wallet_debt`: top-ups, transfers and holds of 2 and differences from -1 to 2, so that debts of 1, 2
  and 3 meet them; two reversals, which may read the same entries; a floor that two top-ups reach.
- `presence`: a unit is half a minute, so a TTL of 2, a SQL window of 1; two flush workers that pause
  for a unit; calls and flushes within the unit in which they begin, their steps in any order. Lag (1)
  is below the TTL (2), so that `Persisted` has cases; the longest age (3) is below the horizon (5). Calls
  that last a unit give 10.6 million states and the same answer.
- `sessions`: access tokens of 2 and refresh tokens of 3 seconds with a login of 1, six seconds; one user
  and one login, since neither users nor logins affect each other, and two changes of status at a time.
- `lockout`: two failures lock for two units; one loss of keys, one stopped request or failed statement,
  an outage.
  The bound of `FailuresBounded` was compared with larger instances as well (three failures, three
  requests, two losses), and is proved for all. It supposes that one failure does not lock
  (`MaxFailed > 1`; `maxFailedAttempts` is three): with a limit of one, requests that passed the check together exceed it.
- `idem_copies`: an owner, one that takes over and one that loses.
- `ledger_totals`: thirteen entries hold two orders with a reversal each, or one order with two.
- `locks_one_call`: three transactions, three user wallets (the most one call locks) and the system
  wallets: circles of two and three.

Symmetry is used only in runs without a liveness property. `CHECK_DEADLOCK FALSE` stands where the
clock, the requests or the bounded ledger run out.

### Fairness
`LateOrdersEnd` assumes weak fairness of each service's `AutoCancel` for each order: one goroutine
sweeps every minute (`Run`, `sweepOnce`), goes on when an order fails, and an order is skipped only
while a short transaction holds its row. The Redis lock is held for at most 50 seconds by an instance
that died. `KeyRecovers` assumes that a handler takes its next step, that clients retry and that time
passes (`Lapse`), and is stated for behaviours in which failures end. No fairness is assumed of users.

## 5. The proofs

| Module | Theorems | For all |
|---|---|---|
| `RideOrder_proofs` | `RideInvariant`, `RideTypes`, `RideEscrow`, `RideRefund`, `RideSplit`, `RideNoOverdraft`, `RideDriver`, `RideFinal`, `RideKeepsPromise`, `RideKeepsDuty` | users, orders, requests, fares, discounts, fees, starting balances |
| `FoodOrder_proofs` | `FoodInvariant`, `FoodKitchen`, `FoodSplit`, `FoodDriver`, `FoodFinal`, `FoodKeepsPromise`, `FoodKeepsDuty` | users, orders, requests, subtotals, delivery fees that are multiples of ten |
| `SendOrder_proofs` | `SendInvariant`, `SendSplit`, `SendAllocation`, `SendDriver`, `SendFinal`, `SendKeepsPromise`, `SendKeepsDuty` | users, orders, requests, parcels |
| `GFlow_proofs` | `GFlowInvariant`, `GFlowOneOrder`, `GFlowNoOverdraft`, `GFlowKeepsDuty`, `GFlowServices`, `GFlowFinal`, `GFlowKeepsPromises` | users, orders and requests of the three services, amounts |
| `Money_proofs` (wallet) | `WalletInvariant`, `WalletOverdraft`, `WalletDebt`, `WalletEscrow` | customers, requests, reversals, amounts, differences, limits, floors |
| `Money_proofs` (ledger) | `LedgerInvariant`, `LedgerTypes`, `LedgerBalance`, `LedgerRefs` | references, administrators, fares, payouts, opening balances, floors |
| `DriverPresence_proofs` | `PresenceInvariant`, `PresenceRecent`, `PresencePersisted` | drivers, calls, workers, all durations |
| `Sessions_proofs` | `SessionsInvariant`, `SessionsLate`, `SessionsRejected` | users, logins, all durations |
| `RequestGuards_proofs` (keys) | `IdempotencyInvariant`, `IdempotencySingle`, `IdempotencyAnswers` | numbers of copies |
| `RequestGuards_proofs` (locks) | `LocksAscend`, `LocksNoDeadlock` | numbers of transactions and user wallets |
| `RequestGuards_proofs` (lockout) | `LockoutLocksEnd`, `LockoutInvariant`, `LockoutFailures` | requests, limits of two failures or more, all durations, losses, stops and failed statements |

Assumptions: the named `ASSUME`s of the modules (amounts are naturals, users of different types are
different and finitely many where they are summed over, `None` is no user, every process starts a flush
loop); TLC evaluates all of them. The lock theorems assume `~WithAdjustment`: with it they are false.

Orders. No property is inductive alone. `IndInv` adds `RowsOK` (which columns are filled at which
status), `LiveLedger` (a live order has posted its hold and nothing else) and, where the driver who
asked must still have the order, `ReadingOK`. From these the posting that ends an order empties the
escrow and leaves exactly the refund or the split; the status check under the lock means an ended
order is never posted to again. There is a lemma for each action; `QuietStep`, `ProgressStep` and
`FinishStep` and their like carry what actions of a kind have in common, and amounts are settled in
lemmas on the settlement operators. `KeepsPromise` follows from the same invariant: a step that opens
an order maps to `Open`, one that ends it to `Close`, every other to a stutter; and so does
`KeepsDuty`, with `Take` for an acceptance and `Release` for whatever takes the order from its driver. `SendAllocation`
bounds the rounding of `allocateFares` by arithmetic on the remainders.

The services together. Each of the three invariants is split into what concerns a service's own orders
(`OrdersInv`) and `DriverExclusive`, which is false when others use the same drivers. `OrdersInv` is
kept by the steps of the service and, since it says nothing of the shared rows but their types and
that no customer is overdrawn, by those of the other two (`RideAside` and its like). Every step of a
service is a step of `DriverDuty` over its own orders, so, the others' carriers being unmoved, over
all orders (`PartStep`); `OneCarrier`, that BUSY means exactly one carried order, is an invariant of
`DriverDuty` and gives `OneOrderAnywhere`. `GFlowServices`, `GFlowFinal` and `GFlowKeepsPromises` carry
the theorems of the single services over to the composition: no service breaks what another promises.

Wallet. A balance falls below zero only by what `TopUpCommit` settles and `ReverseCommit` takes back,
so `balance + settled + reversed` never does; a recorded debt is covered by shortfalls, settlements and
reversals, which needs the same of every debt a request has read (`ReadingAccountedFor`), and of every
balance the trigger sees while a reversal marks its entries. The escrow wallet changes only together with one customer's
hold, and never by less than the hold does (`NextEscrow`): a completion takes out the hold and the fare
difference, after the customer and the subsidy wallet have put in at least that difference.

Sums. `SumFunctionOnSet` is a fold, and a fold is a CHOOSE of a function defined by recursion on finite
sets. That such a function exists and that any two agree (`FoldExists`, `FoldsAgree`) is shown without
the library's induction theorems, whose predicates cannot be instantiated here, from the existence of
least elements in well-founded relations (`Induct`, `SubsetInduct`). From there on a sum may be taken
apart (`SumTake`, `SumSplit`), changed at one place (`SumChange`) or renamed (`SumRename`).

Ledger. `BalanceIsLedger` is kept because a posting adds to the balances what it adds to the ledger
(`PostProjects`) and a marking takes from them what stood and no longer stands (`MarkProjects`), which
needs the trigger's look at the old `is_reversed`: two reversals that read the same entries both mark
them. `RefsBalanced` is not inductive: a stale reading of a reference that was posted to since, or
partly reversed, must be known to be in balance as well. `ReadGroups` says so: there is a family of
groups of entries, closed under union and difference, each adding up to zero, that contains what
stands of every reference and what every reversal has read (`Books`). A posting in balance extends the
family by its own entries (`PostBooks`); marking a group of the family leaves for every reference a
difference of two of its groups (`MarkBooks`). Hence neither the deferred balance trigger nor
`ReverseLedger`'s own check ever refuses a reversal. `Compensates` shows that the compensating entries
are in balance whatever the recipients still have.

Presence. `KeysOK`, `CallsOK`, `FlushesOK` and `RowsOK` bound the age of a position in a key, in a
call, in a worker's hands and in a row, one from the other; `Longest` is their sum. For `Persisted` the
time that matters is `Settled`, a call's duration after the position was taken: from then on no call
can put an older one in its place. A flush that began later has read nothing older (`HandsNew`), and
as long as the row is older, and no flush left the driver out, some worker is `Due`: it has yet to begin such a flush, or is in its first
one and has the driver before it (`RowsDue`). An old flush or call may still overwrite a row that was
new already, but only while it makes a worker due again. After `Lag` nobody is due any more.

Sessions. `CutoffsOK` says a cutoff's key outlives every token it covers, `OutOK` that it lies after
the change of status or that some change is still to write one that does (but for users whose cutoff
was set back); a token accepted all the same was signed after it.

Idempotency. `Owners` says who may hold a claim and that only one copy inserted the row; two
executions without a stale claim would be two insertions.

Locks. A transaction wants nothing below what it holds (`Ascending`). In a set of transactions that
wait for each other only, the holder of the greatest row waited for would wait for a greater one; the
greatest is found by well-founded induction on the finite range of wallets.

Lockout. `LocksEnd` is inductive with the types. `FailuresBounded` counts, and its proof is by pigeonholes:
`Allowed` is the number of `Slots`, and every failure since the last success is counted in one of them
(`LockoutInv`). A request that locks has a slot, and leaves it to a slot of its stop, or of its failed
statement, if that comes before the lock is in the row or lets it past one (`Slips`). The counter in Redis has a slot for the first failure and one for each further number,
the latter twice, since a window may reach into two lives of the key: `even` and `odd` change places
when the key expires. A lost counter leaves its slots behind and a new one has others; the numbers the
row counts alone, in an outage, are used once. Two failures of one slot are `lockoutDuration` apart
(`Apart`): for a request's slot because it passed `checkLockoutPG` in between, when the lock it had
written was over (`Answered`); for the counter's because a new life begins when the old key has
expired, a `lockoutDuration` after its birth at the least (`Life`). Hence the failures of one window
are in different slots (`LockoutInvBounds`). Only `~RowLocked`, the question to PostgreSQL, is used for
this; the flag in Redis saves the question.

Only model-checked: `LateOrdersEnd` and `KeyRecovers`. Liveness under fairness is out of the prover's
reach.

## 6. Not modelled, and why

- The worker's Redis lock: `AutoCancel` may happen whenever its row is eligible, as if any number of
  instances swept, so the order properties do not depend on it.
- Retry (`internal/db/retry.go`): a transaction whose answer was lost is a finished action of which
  the caller does not know; a second attempt of a status change finds the order it left.
- Vouchers: the discount is an input; quotas are enforced by triggers under the voucher's row lock.
- Merchants and menus: rows of one owner written by single statements; orders read them as inputs.
- Driver service, dashboards, exports, listings: they only read.
- Registration, the administrators' action log, ratings, notifications, user interfaces, request
  parsing, formatting, logging, configuration, and the cryptography of tokens and passwords.

## 7. Divergences read in the source and not run

- Rides: the response of a retried completion is COMPLETED where the first attempt answered SETTLED
  (`ride/service.go` 832-834 says they agree); a ride of basis zero cannot be completed without an
  actual fare; a CASH settlement debits first and compares with the ceiling after.
- Keys: a cached response is returned without comparing the payload, where the API contract promises
  a 409.
- Food: the transaction compares only `status` under the lock, so a merchant's rejection may commit
  after a confirmation (`RejectedWaiting`; comment at `food/service.go` 1504-1505).
- Wallet: two concurrent top-ups settle the same debt twice; a shortfall booked between a top-up's
  reading and its commit is overwritten; wallet status and KYC limit are not compared again under the
  lock.
- Location: the Redis search looks at neither `is_online` nor `working_status` (`FoundAvailable`); a
  location in flight re-creates the key of a driver who has just gone offline.
- Reversals: nothing keeps an administrator from reversing an order whose money is still held; its
  completion or cancellation then pays from an escrow that no longer has it.
- Sessions: of two overlapping suspensions of one user the slower SET wins, with the earlier cutoff, and
  tokens issued between the two are accepted again (`setBack`); a login that raced a suspension keeps its tokens (`OutIsOut`; comment at
  `admin/service.go` 940-943); logging out ends the presented token only, and the refresh token of
  the pair is accepted as an access token.
- Lockout: the PostgreSQL counter has no window; a missed EXPIRE leaves the Redis counter for ever.
