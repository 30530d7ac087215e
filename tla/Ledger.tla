-------------------------------- MODULE Ledger --------------------------------
(***************************************************************************)
(* The double-entry ledger and its two reversals: CreateLedgerEntries and  *)
(* ReverseLedger (internal/wallet/ledger.go), ReverseTransaction           *)
(* (internal/admin/service.go, internal/admin/repository.go), and the      *)
(* triggers on ledger_entries that keep wallets.balance and check the      *)
(* balance of a reference (migrations/001_initial_schema.up.sql).          *)
(*                                                                         *)
(* A reversal reads the entries of its reference first and locks the       *)
(* wallets after, so the reading is a step of its own and may be stale.    *)
(* Whatever a transaction does under the wallet locks is one step.         *)
(***************************************************************************)
EXTENDS Integers, Sequences, FiniteSets, Functions

CONSTANTS
    Refs,         \* references: one per order or transfer
    Admins,       \* reversals in progress at one time
    Fare,         \* what an order costs
    Fee,          \* the platform's share of it
    Payouts,      \* amounts a driver may withdraw
    Initial,      \* balances before the first entry, by wallet
    LeastBalance, \* wallets.balance_non_negative: the least balance allowed
    MaxEntries,   \* bound on the length of the ledger
    NoReading

Wallets    == {"customer", "driver", "platform", "escrow", "bank", "receivable"}
Recipients == {"driver", "platform"}

ASSUME LedgerAssumption ==
    /\ Fee \in Nat \ {0}
    /\ Fare \in Nat
    /\ Fare > Fee
    /\ Payouts \subseteq Nat \ {0}
    /\ Initial \in [Wallets -> Int]
    /\ LeastBalance \in Int
    /\ MaxEntries \in Nat

VARIABLES
    ledger,     \* ledger_entries in order of insertion
    balances,   \* wallets.balance
    requested,  \* the amount of a pending withdrawal request; 0 is none
    reading,    \* the entries each reversal in progress has read
    reversals   \* how often each reference was reversed by an administrator

ledgerVars == <<ledger, balances, requested, reading, reversals>>

\* A CREDIT has a positive amount here and a DEBIT a negative one.
Entry == [ref : Refs, wallet : Wallets, amount : Int \ {0}, reversed : BOOLEAN]

\* One leg of a posting.
Leg(wallet, amount) == [wallet |-> wallet, amount |-> amount]

\* What the entries, or the legs, at the given positions add up to.
Total(seq, ids) == SumFunctionOnSet([i \in DOMAIN seq |-> seq[i].amount], ids)

On(seq, w) == {i \in DOMAIN seq : seq[i].wallet = w}

Standing(seq) == {i \in DOMAIN seq : ~seq[i].reversed}

\* The entries of reference r that count.
StandingOf(seq, r) == {i \in Standing(seq) : seq[i].ref = r}

Rows(r, legs) ==
    [i \in DOMAIN legs |-> [ref |-> r, wallet |-> legs[i].wallet,
                            amount |-> legs[i].amount, reversed |-> FALSE]]

\* What the trigger sync_wallet_balance adds up for inserted legs.
Credited(bal, legs) == [w \in Wallets |-> bal[w] + Total(legs, On(legs, w))]

\* CreateLedgerEntries: at least two legs, none of them zero, in balance.
Postable(legs) ==
    /\ Len(legs) >= 2
    /\ \A i \in DOMAIN legs : legs[i].amount # 0
    /\ Total(legs, DOMAIN legs) = 0

\* Mutant of Undone: the trigger does not look at the old is_reversed.
UndoneAgain(bal, seq, ids) ==
    [w \in Wallets |-> bal[w] - Total(seq, ids \cap On(seq, w))]

\* The trigger sync_wallet_balance on an update of is_reversed: only a row
\* that was not reversed before gives its amount back.
Undone(bal, seq, ids) ==
    [w \in Wallets |-> bal[w] - Total(seq, ids \cap On(seq, w) \cap Standing(seq))]

\* Mutant of Marked: the update passes over the rows of one wallet.
MarkedPartly(seq, ids) ==
    [i \in DOMAIN seq |-> IF i \in ids /\ seq[i].wallet # "platform"
                          THEN [seq[i] EXCEPT !.reversed = TRUE] ELSE seq[i]]

Marked(seq, ids) ==
    [i \in DOMAIN seq |-> IF i \in ids THEN [seq[i] EXCEPT !.reversed = TRUE]
                          ELSE seq[i]]

\* The column's CHECK constraint.
AboveFloor(bal) == \A w \in Wallets : bal[w] >= LeastBalance

-----------------------------------------------------------------------------
LedgerInit ==
    /\ ledger = <<>>
    /\ balances = Initial
    /\ requested = [r \in Refs |-> 0]
    /\ reading = [a \in Admins |-> NoReading]
    /\ reversals = [r \in Refs |-> 0]

\* Nothing uses reference r yet.
Fresh(r) ==
    /\ requested[r] = 0
    /\ \A i \in DOMAIN ledger : ledger[i].ref # r

\* A service posts legs under reference r with the wallets locked.
Post(r, legs) ==
    /\ Len(ledger) + Len(legs) <= MaxEntries
    /\ Postable(legs)
    /\ AboveFloor(Credited(balances, legs))
    /\ ledger' = ledger \o Rows(r, legs)
    /\ balances' = Credited(balances, legs)
    /\ UNCHANGED <<reading, reversals>>

\* The customer's money is held when the order is booked (holdEscrow).
HoldFare(r) ==
    /\ Fresh(r)
    /\ balances["customer"] >= Fare
    /\ Post(r, <<Leg("customer", -Fare), Leg("escrow", Fare)>>)
    /\ UNCHANGED requested

\* The hold is divided when the order is settled (settleOrderTx).
Settle(r) ==
    /\ \E i \in DOMAIN ledger : ledger[i].ref = r /\ ledger[i].wallet = "escrow"
    /\ \A i \in DOMAIN ledger : ledger[i].ref = r => ledger[i].wallet \notin Recipients
    /\ Post(r, <<Leg("escrow", -Fare), Leg("driver", Fare - Fee),
                 Leg("platform", Fee)>>)
    /\ UNCHANGED requested

\* The driver asks for money; the balance is compared here and only here.
RequestWithdrawal(r, amount) ==
    /\ Fresh(r)
    /\ balances["driver"] >= amount
    /\ requested' = [requested EXCEPT ![r] = amount]
    /\ UNCHANGED <<ledger, balances, reading, reversals>>

\* An administrator completes the request: the amount is posted as it was asked.
ApproveWithdrawal(r) ==
    /\ requested[r] > 0
    /\ Post(r, <<Leg("driver", -requested[r]), Leg("bank", requested[r])>>)
    /\ requested' = [requested EXCEPT ![r] = 0]

\* An administrator rejects the request, or marks it failed.
RejectWithdrawal(r) ==
    /\ requested[r] > 0
    /\ requested' = [requested EXCEPT ![r] = 0]
    /\ UNCHANGED <<ledger, balances, reading, reversals>>

\* GetLedgerEntries and the same query of ReverseLedger: the ids of the
\* reference's standing entries, read without a lock.
ReadEntries(a, r) ==
    /\ reading[a] = NoReading
    /\ StandingOf(ledger, r) # {}
    /\ reading' = [reading EXCEPT ![a] = [ref |-> r, ids |-> StandingOf(ledger, r)]]
    /\ UNCHANGED <<ledger, balances, requested, reversals>>

\* The recipients' credits among the entries read.
Shares(ids) == {i \in ids : ledger[i].amount > 0 /\ ledger[i].wallet \in Recipients}

\* What a share can give back: no more than the recipient still has.
Clawback(i) ==
    LET has == balances[ledger[i].wallet]
    IN  IF has >= ledger[i].amount THEN ledger[i].amount
        ELSE IF has > 0 THEN has ELSE 0

\* The shares that give something back, in the order of the ledger.
Givers(ids) ==
    LET givers == {i \in Shares(ids) : Clawback(i) > 0}
    IN  {order \in [1..Cardinality(givers) -> givers] :
            \A j, k \in DOMAIN order : j < k => order[j] < order[k]}

\* ReverseTransaction's compensating legs: the payer gets the shares back, each
\* recipient gives what it has, the receivable wallet the rest.
Compensation(ids, payer, order) ==
    LET refund == Total(ledger, Shares(ids))
        given  == SumFunctionOnSet([i \in ids |-> Clawback(i)], Shares(ids))
    IN  (IF refund > 0 THEN <<Leg(payer, refund)>> ELSE <<>>)
          \o [k \in DOMAIN order |-> Leg(ledger[order[k]].wallet, -Clawback(order[k]))]
          \o (IF given < refund THEN <<Leg("receivable", given - refund)>> ELSE <<>>)

\* The wallet of the first debit.
Payer(ids, w) ==
    LET debits == {i \in ids : ledger[i].amount < 0}
    IN  \E i \in debits : ledger[i].wallet = w /\ \A j \in debits : i <= j

\* ReverseTransaction under the wallet locks: it inserts the compensating
\* entries, and marks the entries it read as reversed.
ReverseTransaction(a) ==
    /\ reading[a] # NoReading
    /\ \E payer \in Wallets, order \in Givers(reading[a].ids) :
         LET r    == reading[a].ref
             ids  == reading[a].ids
             legs == Compensation(ids, payer, order)
             all  == ledger \o Rows(r, legs)
             bal  == Credited(balances, legs)
         IN  /\ Payer(ids, payer)
             /\ Len(all) <= MaxEntries
             /\ Total(legs, DOMAIN legs) = 0
             /\ AboveFloor(bal)
             /\ AboveFloor(Undone(bal, all, ids))
             /\ ledger' = Marked(all, ids)
             /\ balances' = Undone(bal, all, ids)
             /\ legs # <<>> => Total(ledger', StandingOf(ledger', r)) = 0
             /\ reversals' = [reversals EXCEPT ![r] = @ + 1]
    /\ reading' = [reading EXCEPT ![a] = NoReading]
    /\ UNCHANGED requested

\* ReverseLedger under the wallet locks: it only marks the entries it read.
ReverseLedger(a) ==
    /\ reading[a] # NoReading
    /\ LET ids == reading[a].ids
       IN  /\ Total(ledger, ids) = 0
           /\ ledger' = Marked(ledger, ids)
           /\ balances' = Undone(balances, ledger, ids)
           /\ AboveFloor(balances')
    /\ reading' = [reading EXCEPT ![a] = NoReading]
    /\ UNCHANGED <<requested, reversals>>

\* A reversal gives up: an error, a lost connection.  Its transaction rolls back.
Abandon(a) ==
    /\ reading[a] # NoReading
    /\ reading' = [reading EXCEPT ![a] = NoReading]
    /\ UNCHANGED <<ledger, balances, requested, reversals>>

LedgerNext ==
    \/ \E r \in Refs : HoldFare(r) \/ Settle(r)
    \/ \E r \in Refs, amount \in Payouts : RequestWithdrawal(r, amount)
    \/ \E r \in Refs : ApproveWithdrawal(r) \/ RejectWithdrawal(r)
    \/ \E a \in Admins, r \in Refs : ReadEntries(a, r)
    \/ \E a \in Admins : ReverseTransaction(a) \/ ReverseLedger(a) \/ Abandon(a)

LedgerSpec == LedgerInit /\ [][LedgerNext]_ledgerVars

-----------------------------------------------------------------------------
(* Properties *)

\* The ledger, the balances and what the reversals hold have their types, and
\* no entry of nothing is ever in the ledger (its amount column is positive).
LedgerTypeOK ==
    /\ ledger \in Seq(Entry)
    /\ balances \in [Wallets -> Int]
    /\ requested \in [Refs -> Nat]
    /\ reading \in [Admins -> {NoReading} \cup [ref : Refs, ids : SUBSET (1..Len(ledger))]]
    /\ reversals \in [Refs -> Nat]

\* The balance column is a projection of the ledger: it is the opening balance
\* and the entries that stand, also after two reversals that read the same
\* entries and both marked them.
BalanceIsLedger ==
    \A w \in Wallets :
        balances[w] = Initial[w] + Total(ledger, On(ledger, w) \cap Standing(ledger))

\* The standing entries of every reference are in balance, whatever was posted
\* between a reversal's reading and its locks.
RefsBalanced == \A r \in Refs : Total(ledger, StandingOf(ledger, r)) = 0

-----------------------------------------------------------------------------
(* Statements of the documents and comments that the code breaks *)

\* "Refund customer full amount": an order reversed by an administrator costs
\* its customer nothing, and gains the customer nothing.
ReversalRestores ==
    \A r \in Refs : reversals[r] > 0 =>
        Total(ledger, On(ledger, "customer") \cap StandingOf(ledger, r)) = 0

\* "Negative allowed for cash settlement": where no cash ride is settled, as in
\* this module, a driver is not paid out more than the wallet has.
NegativeOnlyByCash == balances["driver"] >= 0

=============================================================================
