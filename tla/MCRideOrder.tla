----------------------------- MODULE MCRideOrder -----------------------------
(***************************************************************************)
(* Small instances of RideOrder.  Amounts are scaled down together: a fare *)
(* of 20 with fees of 5 and 10 stands for the code's 5.000 and 10.000.     *)
(***************************************************************************)
EXTENDS RideOrder, TLC

\* Drivers, orders and requests are interchangeable.
Symmetry ==
    Permutations(Drivers) \cup Permutations(Orders) \cup Permutations(Requests)

\* A ceiling that the debit of one CASH ride takes a driver past.
CeilingBelowOneCommission == -3

=============================================================================
