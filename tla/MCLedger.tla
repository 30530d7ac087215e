------------------------------ MODULE MCLedger -------------------------------
(***************************************************************************)
(* A small instance of Ledger: an order of 10 of which the platform keeps  *)
(* 2, and a driver who may withdraw what makes a clawback fall short.      *)
(***************************************************************************)
EXTENDS Ledger, TLC

OpeningBalances ==
    [w \in Wallets |-> IF w = "customer" THEN 20 ELSE IF w = "driver" THEN 3 ELSE 0]

\* Less than an order away from every opening balance.
LowFloor == -12

\* References and reversals are interchangeable.
Symmetry == Permutations(Refs) \cup Permutations(Admins)

=============================================================================
