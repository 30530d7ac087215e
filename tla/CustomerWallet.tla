---------------------------- MODULE CustomerWallet ----------------------------
(***************************************************************************)
(* A customer's wallet and its overdue debt: TopUp, Transfer and           *)
(* UpdateWalletStatus (internal/wallet/service.go), the postings other     *)
(* services make on the same wallet (internal/ride/service.go), an         *)
(* administrator's ReverseTransaction of a top-up or a transfer            *)
(* (internal/admin/service.go), and the trigger that turns a negative      *)
(* balance into debt (migrations/012_add_overdue_debt_trigger.up.sql).     *)
(*                                                                         *)
(* TopUp reads the balance, the debt and the KYC status before it opens    *)
(* its transaction and never looks again (its three queries are one step   *)
(* here), Transfer reads the wallets' status that way, and                 *)
(* ReverseTransaction the entries it is to reverse: each reading is a step *)
(* of its own, kept in the request.  What a transaction does under the     *)
(* wallet locks is one step.  Reversals of orders are in module Ledger.    *)
(***************************************************************************)
EXTENDS Integers, FiniteSets, Functions

CONSTANTS
    Customers,
    Verified,     \* the customers whose kyc_status is VERIFIED
    TopUps,       \* top-up requests, each made once
    Transfers,    \* transfer requests, each made once
    Reversals,    \* reversals asked for by administrators, each made once
    Amounts,      \* what a top-up, a transfer or a booking may ask for
    Deltas,       \* by how much a fare may differ from its estimate
    NewStatuses,  \* the statuses UpdateWalletStatus is asked for
    Limit,        \* kycLimitUnverified
    LimitVerified,
    Floor,        \* wallets.balance_non_negative: the least balance allowed
    Opening,      \* balance of every customer at first
    None

\* "driver" is the wallet orders are settled to.
Systems  == {"bank", "platform", "subsidy", "escrow", "driver", "receivable"}
Statuses == {"ACTIVE", "SUSPENDED", "FROZEN"}

ASSUME WalletAssumption ==
    /\ IsFiniteSet(Customers)
    /\ Verified \subseteq Customers
    /\ Amounts \subseteq Nat \ {0}
    /\ Deltas \subseteq Int
    /\ IsFiniteSet(TopUps) /\ IsFiniteSet(Transfers) /\ IsFiniteSet(Reversals)
    /\ Limit \in Nat /\ LimitVerified \in Nat
    /\ Floor \in Int /\ Floor <= 0
    /\ Opening \in Nat
    /\ None \notin Customers
    /\ NewStatuses \subseteq Statuses
    /\ (Customers \cup {None}) \cap Systems = {}
    /\ TopUps \cap Transfers = {}
    /\ Reversals \cap (TopUps \cup Transfers) = {}

VARIABLES
    balance,   \* wallets.balance of the customers
    status,    \* wallets.status of the customers
    debt,      \* users.overdue_debt
    held,      \* what a customer's order holds in SYSTEM_ESCROW
    system,    \* balances of the wallets the customers do not own
    topup,     \* the top-up requests and what each has read
    transfer,  \* the transfer requests
    reversal,  \* the reversals, what each has read and what it has posted
    standing,  \* the requests and reversals whose entries are not reversed
    settled,   \* total of a customer's OVERDUE_SETTLEMENT debits
    covered,   \* total of the shortfalls the subsidy paid for a customer
    reversed   \* total of the credits reversals have taken back from a customer

people   == <<balance, status, debt, held>>
requests == <<topup, transfer, reversal, standing>>
totals   == <<settled, covered, reversed>>
vars     == <<people, system, requests, totals>>

\* What ledger entries are posted under here: an order's entries are not kept.
Postings == TopUps \cup Transfers \cup Reversals

TopUpRequest ==
    [phase : {"new", "read", "COMPLETED"}, who : Customers \cup {None},
     amount : Nat, debt : Nat]

TransferRequest ==
    [phase : {"new", "read", "done"}, from : Customers \cup {None},
     to : Customers \cup {None}, amount : Nat]

\* ids: what it has read and is to mark.  refund: what it has paid to the wallet
\* payer, of which clawed came from the platform and the rest from the
\* receivable wallet.
ReversalRequest ==
    [phase : {"new", "read", "done"}, of : TopUps \cup Transfers \cup {None},
     ids : SUBSET Postings, payer : Customers \cup Systems \cup {None},
     refund : Nat, clawed : Nat]

NoTopUp    == [phase |-> "new", who |-> None, amount |-> 0, debt |-> 0]
NoTransfer == [phase |-> "new", from |-> None, to |-> None, amount |-> 0]
NoReversal == [phase |-> "new", of |-> None, ids |-> {}, payer |-> None,
               refund |-> 0, clawed |-> 0]

Least(a, b) == IF a < b THEN a ELSE b

\* settleOverdueDebt: the debt comes first, up to the amount.
DebtSettled(amount, owed) == Least(amount, owed)

NetTopUp(amount, owed) == amount - DebtSettled(amount, owed)

KycLimit(c) == IF c \in Verified THEN LimitVerified ELSE Limit

\* The trigger fn_sync_overdue_debt_from_wallet: a negative balance makes the
\* debt at least as large.
Synced(owed, bal) == IF -bal > owed THEN -bal ELSE owed

-----------------------------------------------------------------------------
Init ==
    /\ balance = [c \in Customers |-> Opening]
    /\ status = [c \in Customers |-> "ACTIVE"]
    /\ debt = [c \in Customers |-> 0]
    /\ held = [c \in Customers |-> 0]
    /\ system = [s \in Systems |-> 0]
    /\ topup = [t \in TopUps |-> NoTopUp]
    /\ transfer = [x \in Transfers |-> NoTransfer]
    /\ settled = [c \in Customers |-> 0]
    /\ covered = [c \in Customers |-> 0]
    /\ reversal = [r \in Reversals |-> NoReversal]
    /\ standing = {}
    /\ reversed = [c \in Customers |-> 0]

\* Up to the transaction: the debt and the balance are read, and the KYC limit
\* is compared.  The wallet's status is not looked at.
TopUpRead(t, c, amount) ==
    /\ topup[t] = NoTopUp
    /\ balance[c] + NetTopUp(amount, debt[c]) <= KycLimit(c)
    /\ topup' = [topup EXCEPT ![t] =
                    [phase |-> "read", who |-> c, amount |-> amount, debt |-> debt[c]]]
    /\ UNCHANGED <<people, system, transfer, reversal, standing, totals>>

\* What a top-up settles and what it adds, by what it has read.
Old(t) == DebtSettled(topup[t].amount, topup[t].debt)
Net(t) == NetTopUp(topup[t].amount, topup[t].debt)

\* The column's CHECK holds for the gateway's wallet too.
BankBears(amount) == system["bank"] - amount >= Floor

\* The transaction: OVERDUE_SETTLEMENT from the customer to the platform, TOPUP
\* from the gateway to the customer, and then the debt is written as what was
\* read less what was settled, whatever it is by now.
TopUpCommit(t) ==
    LET c   == topup[t].who
        old == Old(t)
        net == Net(t)
    IN /\ topup[t].phase = "read"
       /\ balance[c] - old >= Floor
       /\ BankBears(net)
       /\ balance' = [balance EXCEPT ![c] = balance[c] - old + net]
       /\ system' = [system EXCEPT !["platform"] = system["platform"] + old,
                                   !["bank"] = system["bank"] - net]
       /\ debt' = [debt EXCEPT ![c] = IF old > 0 THEN topup[t].debt - old
                                      ELSE Synced(debt[c], balance[c] + net)]
       /\ topup' = [topup EXCEPT ![t].phase = "COMPLETED"]
       /\ settled' = [settled EXCEPT ![c] = settled[c] + old]
       /\ standing' = standing \cup {t}
       /\ UNCHANGED <<status, held, transfer, reversal, covered, reversed>>

\* The owner of the first wallet asks; both wallets must be ACTIVE here.
TransferRead(x, from, to, amount) ==
    /\ transfer[x] = NoTransfer
    /\ from # to
    /\ status[from] = "ACTIVE" /\ status[to] = "ACTIVE"
    /\ transfer' = [transfer EXCEPT ![x] =
                       [phase |-> "read", from |-> from, to |-> to, amount |-> amount]]
    /\ UNCHANGED <<people, system, topup, reversal, standing, totals>>

\* Mutant of Affords: the comparison is left out.
AffordsAny(c, amount) == TRUE

\* The balance, read again under the lock, covers the amount.
Affords(c, amount) == balance[c] >= amount

TransferCommit(x) ==
    LET from == transfer[x].from
        to   == transfer[x].to
        amt  == transfer[x].amount
    IN /\ transfer[x].phase = "read"
       /\ Affords(from, amt)
       /\ balance' = [balance EXCEPT ![from] = balance[from] - amt,
                                     ![to] = balance[to] + amt]
       /\ debt' = [debt EXCEPT ![to] = Synced(debt[to], balance[to] + amt)]
       /\ transfer' = [transfer EXCEPT ![x].phase = "done"]
       /\ standing' = standing \cup {x}
       /\ UNCHANGED <<status, held, system, topup, reversal, totals>>

\* An order is booked (holdEscrow).
Hold(c, amount) ==
    /\ held[c] = 0
    /\ Affords(c, amount)
    /\ balance' = [balance EXCEPT ![c] = balance[c] - amount]
    /\ held' = [held EXCEPT ![c] = amount]
    /\ system' = [system EXCEPT !["escrow"] = system["escrow"] + amount]
    /\ UNCHANGED <<status, debt, requests, totals>>

\* An order is cancelled: the hold comes back.
Refund(c) ==
    /\ held[c] > 0
    /\ balance' = [balance EXCEPT ![c] = balance[c] + held[c]]
    /\ debt' = [debt EXCEPT ![c] = Synced(debt[c], balance[c] + held[c])]
    /\ held' = [held EXCEPT ![c] = 0]
    /\ system' = [system EXCEPT !["escrow"] = system["escrow"] - held[c]]
    /\ UNCHANGED <<status, requests, totals>>

\* Mutant of FromCustomer: the delta is taken whatever the balance is.
FromCustomerWhole(c, delta) == delta

\* collectShortfallDelta: the customer pays up to its balance.
FromCustomer(c, delta) == Least(balance[c], delta)

\* Mutant of Shortfall: a balance below zero is taken for no shortfall.
ShortfallOfBalance(c, delta) ==
    IF balance[c] < 0 THEN 0 ELSE delta - FromCustomer(c, delta)

\* What the subsidy pays, which becomes debt.
Shortfall(c, delta) == IF delta > 0 THEN delta - FromCustomer(c, delta) ELSE 0

\* What the customer pays of the delta: its entry is left out when that is not
\* positive.  A fare below the estimate is a credit (refundSurplusDelta).
Taken(c, delta) ==
    IF delta <= 0 THEN delta
    ELSE IF FromCustomer(c, delta) > 0 THEN FromCustomer(c, delta) ELSE 0

\* Mutant of Owed: the whole delta becomes debt.
OwedWhole(c, delta) == debt[c] + delta

\* IncrementOverdueDebt, or the trigger on a surplus that does not lift the
\* customer above zero.
Owed(c, delta) ==
    IF delta < 0 THEN Synced(debt[c], balance[c] - delta)
    ELSE debt[c] + Shortfall(c, delta)

\* An order is completed at delta above its estimate: customer and subsidy pay
\* into the escrow, or the surplus goes back, and the fare goes from the escrow
\* to the driver.
Complete(c, delta) ==
    /\ held[c] > 0
    /\ held[c] + delta > 0
    /\ system["subsidy"] - Shortfall(c, delta) >= Floor
    /\ balance' = [balance EXCEPT ![c] = balance[c] - Taken(c, delta)]
    /\ debt' = [debt EXCEPT ![c] = Owed(c, delta)]
    /\ covered' = [covered EXCEPT ![c] = covered[c] + Shortfall(c, delta)]
    /\ held' = [held EXCEPT ![c] = 0]
    /\ system' = [system EXCEPT
                     !["subsidy"] = system["subsidy"] - Shortfall(c, delta),
                     !["escrow"] = system["escrow"] + Taken(c, delta)
                                     + Shortfall(c, delta) - held[c] - delta,
                     !["driver"] = system["driver"] + held[c] + delta]
    /\ UNCHANGED <<status, requests, settled, reversed>>

\* An administrator pays a withdrawal request (ApproveWithdrawal).
PayWithdrawal(amount) ==
    /\ system["driver"] - amount >= Floor
    /\ system' = [system EXCEPT !["driver"] = system["driver"] - amount,
                                !["bank"] = system["bank"] + amount]
    /\ UNCHANGED <<people, requests, totals>>

-----------------------------------------------------------------------------
(* ReverseTransaction *)

Zero == [w \in Customers \cup Systems |-> 0]

\* What the entries of a posting credit to each wallet.
Credits(p) ==
    IF p \in TopUps THEN [Zero EXCEPT ![topup[p].who] = Net(p), !["platform"] = Old(p)]
    ELSE IF p \in Transfers THEN [Zero EXCEPT ![transfer[p].to] = transfer[p].amount]
    ELSE [Zero EXCEPT ![reversal[p].payer] = reversal[p].refund]

\* What they debit.
Debits(p) ==
    IF p \in TopUps THEN [Zero EXCEPT ![topup[p].who] = Old(p), !["bank"] = Net(p)]
    ELSE IF p \in Transfers THEN [Zero EXCEPT ![transfer[p].from] = transfer[p].amount]
    ELSE [Zero EXCEPT !["platform"] = reversal[p].clawed,
                      !["receivable"] = reversal[p].refund - reversal[p].clawed]

\* What the entries of the postings in ps credit to w, and debit from it.
CreditTo(w, ps)  == SumFunctionOnSet([p \in ps |-> Credits(p)[w]], ps)
DebitFrom(w, ps) == SumFunctionOnSet([p \in ps |-> Debits(p)[w]], ps)

\* GetLedgerEntries: what stands under the request's reference, compensations by
\* earlier reversals included, is read without a lock.
ReverseRead(r, q) ==
    LET found == {p \in standing : p = q \/ (p \in Reversals /\ reversal[p].of = q)}
    IN /\ reversal[r] = NoReversal
       /\ found # {}
       /\ reversal' = [reversal EXCEPT ![r] =
                          [NoReversal EXCEPT !.phase = "read", !.of = q, !.ids = found]]
       /\ UNCHANGED <<people, system, topup, transfer, standing, totals>>

\* The credits among the entries read that are clawed back: here the platform's,
\* which only a top-up that settled a debt has.
SettledShares(ids) == SumFunctionOnSet([t \in ids \cap TopUps |-> Old(t)], ids \cap TopUps)

\* The wallet of the first debit.  The entries of a posting have one time, so it
\* is any of them.
Payers(ids) == {w \in Customers \cup Systems : \E p \in ids : Debits(p)[w] > 0}

\* The platform gives no more than it has.
PlatformGives(amount) ==
    IF system["platform"] >= amount THEN amount
    ELSE IF system["platform"] > 0 THEN system["platform"] ELSE 0

\* The least balance the trigger sees when a customer's wallet at start has what
\* was debited put back and what was credited taken away; early: the rows that
\* take away are updated first.
LowPoint(start, refund, back, taken, early) ==
    IF early /\ taken > 0 THEN start - taken
    ELSE IF refund > 0 THEN Least(start, start + back - taken)
    ELSE start + back - taken

\* Under the wallet locks: the shares go back to the payer as compensating
\* entries, and the entries that were read are marked.  The balance trigger undoes
\* those that were not marked before.
ReverseCommit(r, payer, early) ==
    LET ids    == reversal[r].ids
        live   == ids \cap standing
        refund == SettledShares(ids)
        clawed == PlatformGives(refund)
        paid   == [c \in Customers |-> IF c = payer THEN refund ELSE 0]
        back   == [c \in Customers |-> DebitFrom(c, live)]
        taken  == [c \in Customers |-> CreditTo(c, live)]
        low    == [c \in Customers |->
                      LowPoint(balance[c] + paid[c], paid[c], back[c], taken[c], early)]
    IN /\ reversal[r].phase = "read"
       /\ payer \in Payers(ids)
       /\ balance' = [c \in Customers |-> balance[c] + paid[c] + back[c] - taken[c]]
       /\ debt' = [c \in Customers |->
                      IF paid[c] + back[c] + taken[c] > 0 THEN Synced(debt[c], low[c])
                      ELSE debt[c]]
       /\ system' = [system EXCEPT
                        !["bank"] = @ + (IF payer = "bank" THEN refund ELSE 0)
                                      + DebitFrom("bank", live) - CreditTo("bank", live),
                        !["platform"] = @ - clawed + DebitFrom("platform", live)
                                          - CreditTo("platform", live),
                        !["receivable"] = @ - (refund - clawed)
                                            + DebitFrom("receivable", live)]
       /\ \A c \in Customers : low[c] >= Floor \/ paid[c] + back[c] + taken[c] = 0
       /\ \A s \in Systems : system'[s] >= Floor
       /\ reversal' = [reversal EXCEPT ![r] =
                          [@ EXCEPT !.phase = "done", !.ids = {},
                                    !.payer = IF refund > 0 THEN payer ELSE None,
                                    !.refund = refund, !.clawed = clawed]]
       /\ standing' = (standing \ ids) \cup (IF refund > 0 THEN {r} ELSE {})
       /\ reversed' = [c \in Customers |-> reversed[c] + taken[c]]
       /\ UNCHANGED <<status, held, topup, transfer, settled, covered>>

UpdateWalletStatus(c, new) ==
    /\ status' = [status EXCEPT ![c] = new]
    /\ UNCHANGED <<balance, debt, held, system, requests, totals>>

Next ==
    \/ \E t \in TopUps, c \in Customers, a \in Amounts : TopUpRead(t, c, a)
    \/ \E t \in TopUps : TopUpCommit(t)
    \/ \E x \in Transfers, from, to \in Customers, a \in Amounts :
            TransferRead(x, from, to, a)
    \/ \E x \in Transfers : TransferCommit(x)
    \/ \E c \in Customers, a \in Amounts : Hold(c, a)
    \/ \E c \in Customers : Refund(c)
    \/ \E c \in Customers, d \in Deltas : Complete(c, d)
    \/ \E a \in Amounts : PayWithdrawal(a)
    \/ \E r \in Reversals, q \in TopUps \cup Transfers : ReverseRead(r, q)
    \/ \E r \in Reversals, payer \in Customers \cup Systems, early \in BOOLEAN :
            ReverseCommit(r, payer, early)
    \/ \E c \in Customers, new \in NewStatuses : UpdateWalletStatus(c, new)

Spec == Init /\ [][Next]_vars

-----------------------------------------------------------------------------
\* Every variable has its type.
TypeOK ==
    /\ balance \in [Customers -> Int]
    /\ status \in [Customers -> Statuses]
    /\ debt \in [Customers -> Nat]
    /\ held \in [Customers -> Nat]
    /\ system \in [Systems -> Int]
    /\ topup \in [TopUps -> TopUpRequest]
    /\ transfer \in [Transfers -> TransferRequest]
    /\ reversal \in [Reversals -> ReversalRequest]
    /\ standing \subseteq Postings
    /\ settled \in [Customers -> Nat]
    /\ covered \in [Customers -> Nat]
    /\ reversed \in [Customers -> Nat]

\* Nothing but the settlement of a debt and a reversal takes a customer below
\* zero: transfers, bookings and fare adjustments compare the balance under its
\* lock, TopUp and ReverseTransaction do not, and what they overdraw is at most
\* what was settled and what was taken back.
OverdraftIsAccountedFor ==
    \A c \in Customers : balance[c] + settled[c] + reversed[c] >= 0

\* However top-ups that read the debt early, fare adjustments, reversals that read
\* the entries early and the trigger interleave, no customer is recorded as owing
\* more than the shortfalls that were covered for it and the settlements and
\* reversals that may have overdrawn it.
DebtIsAccountedFor ==
    \A c \in Customers : debt[c] <= covered[c] + settled[c] + reversed[c]

\* A request that was read but not committed has a debt that was accounted for.
ReadingAccountedFor ==
    \A t \in TopUps : topup[t].phase = "read" =>
        /\ topup[t].who \in Customers
        /\ topup[t].debt <= covered[topup[t].who] + settled[topup[t].who]
                              + reversed[topup[t].who]

\* What a transfer in progress has read.
TransferInProgress ==
    \A x \in Transfers : transfer[x].phase = "read" =>
        /\ transfer[x].from \in Customers /\ transfer[x].to \in Customers
        /\ transfer[x].from # transfer[x].to

\* The inductive invariant.
IndInv ==
    /\ TypeOK
    /\ OverdraftIsAccountedFor
    /\ DebtIsAccountedFor
    /\ ReadingAccountedFor
    /\ TransferInProgress

\* The escrow always covers what the customers' orders hold, also when an order
\* is completed while its customer's balance is below zero: the subsidy then pays
\* more than the delta, never less.
EscrowCoversHolds == system["escrow"] >= SumFunctionOnSet(held, Customers)

\* A completed top-up adds net_amount to the balance it finds: the debt is taken
\* from the money that comes in and not from the wallet as well (docs/STP.txt,
\* TC-017).
TopUpCreditsNet ==
    [][\A t \in TopUps :
          topup[t].phase = "read" /\ topup'[t].phase = "COMPLETED" =>
              balance'[topup[t].who] = balance[topup[t].who]
                  + NetTopUp(topup[t].amount, topup[t].debt)]_vars

=============================================================================
