---------------------------- MODULE MCWalletLocks ----------------------------
(***************************************************************************)
(* Small instances of WalletLocks: three user wallets in any order, two in *)
(* MCLocksRide.cfg, and as many transactions as a circle of waiting needs  *)
(* to be interesting.                                                      *)
(***************************************************************************)
EXTENDS WalletLocks, TLC

\* Transactions are interchangeable.
Symmetry == Permutations(Txs)

=============================================================================
