----------------------------- MODULE WalletLocks -----------------------------
(***************************************************************************)
(* Row locks on wallets.  Every transaction that moves money locks the     *)
(* wallets it touches with lockWalletsAsc, which takes the rows one after  *)
(* another in ascending id; a transaction may call it more than once       *)
(* (internal/wallet/service.go, internal/ride/service.go, and the same     *)
(* helper in food, send, admin and worker).  A wallet is the position of   *)
(* its id in that order: the system wallets come first.                    *)
(*                                                                         *)
(* What a transaction does with the wallets is left out.  Its lock calls   *)
(* are kept, in order, as a sequence of sets; locks are held until it      *)
(* commits or rolls back.  PostgreSQL's deadlock detector and the          *)
(* statement timeout are the action AbortTx.                               *)
(***************************************************************************)
EXTENDS Naturals, Sequences

CONSTANTS
    Txs,            \* transactions open at one time
    LastWallet,     \* user wallets are 6 .. LastWallet
    WithAdjustment  \* whether rides may end with another fare than estimated

Escrow     == 1
Platform   == 2
Bank       == 3
Receivable == 4
Subsidy    == 5

ASSUME WalletsAssumption == LastWallet \in Nat /\ WithAdjustment \in BOOLEAN

UserWallets == 6 .. LastWallet
Wallets     == 1 .. LastWallet

VARIABLES
    active,     \* whether the transaction is open
    calls,      \* the lock calls it has still to finish, in order
    held        \* the wallets it has locked

locksVars == <<active, calls, held>>

-----------------------------------------------------------------------------
(* The lock calls of the transactions *)

\* TopUp, which needs the platform wallet if the customer is in debt.
TopUpCalls == UNION {{<<{c, Bank}>>, <<{c, Bank, Platform}>>} : c \in UserWallets}

\* Transfer between two users; ApproveWithdrawal.
TransferCalls   == {<<{a, b}>> : a, b \in UserWallets}
WithdrawalCalls == {<<{w, Bank}>> : w \in UserWallets}

\* Booking and full refund of a ride, a food or a send order; the refund that
\* leaves a fee to the driver.
EscrowCalls    == {<<{c, Escrow}>> : c \in UserWallets}
FeeRefundCalls == {<<{c, d, Escrow}>> : c, d \in UserWallets}

\* Settlement: of a cash order, of a food order, of an order held in escrow.
CashCalls   == {<<{d, m, Platform}>> : d, m \in UserWallets}
SettleCalls == {<<{d, m, Escrow, Platform}>> : d, m \in UserWallets}

\* ReverseTransaction: the wallets of the entries that stand under the reference of
\* a transfer, a withdrawal or a top-up, of an order that is held, refunded, or
\* settled in cash or from escrow, with a fare adjustment or without, and the
\* receivable wallet, in one call.
ReversalCalls ==
    {<<{a, b, c, Receivable} \cup systems>> :
        a, b, c \in UserWallets,
        systems \in {{}, {Bank}, {Bank, Platform}, {Escrow}, {Platform},
                     {Escrow, Platform}, {Escrow, Platform, Subsidy}}}

\* completeOrderTx with another actual fare: the adjustment locks the customer
\* and, if the subsidy pays, the subsidy wallet, before the settlement locks.
AdjustmentCalls ==
    UNION {{<<{c, Escrow}, {d, Escrow, Platform}>>,
            <<{c, Escrow}, {Subsidy}, {d, Escrow, Platform}>>} :
              c, d \in UserWallets}

OneCall == TopUpCalls \cup TransferCalls \cup WithdrawalCalls \cup EscrowCalls
             \cup FeeRefundCalls \cup CashCalls \cup SettleCalls \cup ReversalCalls

Scripts == IF WithAdjustment THEN OneCall \cup AdjustmentCalls ELSE OneCall

-----------------------------------------------------------------------------
LocksInit ==
    /\ active = [t \in Txs |-> FALSE]
    /\ calls = [t \in Txs |-> <<>>]
    /\ held = [t \in Txs |-> {}]

\* What the current lock call has still to lock.
Wanted(t) == IF calls[t] = <<>> THEN {} ELSE Head(calls[t]) \ held[t]

\* Mutant of NextRow: the rows come in whatever order the query finds them.
NextRowUnsorted(t, w) == w \in Wanted(t)

\* ORDER BY id ASC: the least of the wanted rows is locked first.
NextRow(t, w) ==
    /\ w \in Wanted(t)
    /\ \A v \in Wanted(t) : w <= v

Begin(t, script) ==
    /\ ~active[t]
    /\ active' = [active EXCEPT ![t] = TRUE]
    /\ calls' = [calls EXCEPT ![t] = script]
    /\ UNCHANGED held

\* One row is locked; a row that another transaction holds has to be waited for.
Lock(t, w) ==
    /\ NextRow(t, w)
    /\ \A u \in Txs : w \notin held[u]
    /\ held' = [held EXCEPT ![t] = @ \cup {w}]
    /\ UNCHANGED <<active, calls>>

\* lockWalletsAsc returns.
Return(t) ==
    /\ calls[t] # <<>>
    /\ Wanted(t) = {}
    /\ calls' = [calls EXCEPT ![t] = Tail(calls[t])]
    /\ UNCHANGED <<active, held>>

Close(t) ==
    /\ active' = [active EXCEPT ![t] = FALSE]
    /\ calls' = [calls EXCEPT ![t] = <<>>]
    /\ held' = [held EXCEPT ![t] = {}]

CommitTx(t) == active[t] /\ calls[t] = <<>> /\ Close(t)

AbortTx(t)  == active[t] /\ calls[t] # <<>> /\ Close(t)

LocksNext ==
    \/ \E t \in Txs, script \in Scripts : Begin(t, script)
    \/ \E t \in Txs, w \in Wallets : Lock(t, w)
    \/ \E t \in Txs : Return(t) \/ CommitTx(t) \/ AbortTx(t)

LocksSpec == LocksInit /\ [][LocksNext]_locksVars

-----------------------------------------------------------------------------
(* Properties *)

LocksTypeOK ==
    /\ active \in [Txs -> BOOLEAN]
    /\ calls \in [Txs -> Seq(SUBSET Wallets)]
    /\ held \in [Txs -> SUBSET Wallets]

\* t waits for a row that u holds.
Waits(t, u) == \E w \in held[u] : NextRow(t, w)

\* The transactions of S wait for each other only.
Deadlocked(S) == \A t \in S : \E u \in S : Waits(t, u)

\* "Lock in a deterministic order to prevent deadlock": no transactions ever
\* wait for each other in a circle, however their lock calls interleave.
NoDeadlock == \A S \in SUBSET Txs : S # {} => ~Deadlocked(S)

-----------------------------------------------------------------------------
(* The inductive invariant behind NoDeadlock *)

\* A transaction wants no wallet below one it holds, and has one call at most.
Ascending ==
    \A t \in Txs :
        /\ Len(calls[t]) <= 1
        /\ calls[t] = <<>> \/ held[t] \subseteq Head(calls[t])
        /\ \A h \in held[t], w \in Wanted(t) : h < w
        /\ ~active[t] => held[t] = {} /\ calls[t] = <<>>

LocksInv == LocksTypeOK /\ Ascending

=============================================================================
