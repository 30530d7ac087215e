---------------------------- MODULE EscrowPromise ----------------------------
(***************************************************************************)
(* What every kind of order promises about its money, whatever its states, *)
(* its actors and its prices are: the order is opened once, with what its  *)
(* customer pays into escrow; while it is open nobody receives anything    *)
(* and nothing is taken from it; it is closed once, in one step that       *)
(* empties the escrow and leaves the entries of the order in balance, the  *)
(* customer never gaining by it; and a closed order is never touched       *)
(* again.  Ride, food and send orders are shown to implement it.           *)
(***************************************************************************)
EXTENDS Integers

CONSTANT Orders

VARIABLES
    phase,      \* "none", "open" or "closed"
    escrow,     \* what lies in escrow for the order
    payer,      \* net effect of the order on its customer's wallet
    others      \* net effect of the order on all other wallets

vars == <<phase, escrow, payer, others>>

Init ==
    /\ phase  = [o \in Orders |-> "none"]
    /\ escrow = [o \in Orders |-> 0]
    /\ payer  = [o \in Orders |-> 0]
    /\ others = [o \in Orders |-> 0]

Open(o) ==
    /\ phase[o] = "none"
    /\ escrow'[o] >= 0
    /\ phase'  = [phase  EXCEPT ![o] = "open"]
    /\ escrow' = [escrow EXCEPT ![o] = escrow'[o]]
    /\ payer'  = [payer  EXCEPT ![o] = -escrow'[o]]
    /\ UNCHANGED others

Close(o) ==
    /\ phase[o] = "open"
    /\ payer'[o] <= 0
    /\ phase'  = [phase  EXCEPT ![o] = "closed"]
    /\ escrow' = [escrow EXCEPT ![o] = 0]
    /\ payer'  = [payer  EXCEPT ![o] = payer'[o]]
    /\ others' = [others EXCEPT ![o] = -payer'[o]]

Next == \E o \in Orders : Open(o) \/ Close(o)

Spec == Init /\ [][Next]_vars

=============================================================================
