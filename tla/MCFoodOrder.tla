----------------------------- MODULE MCFoodOrder -----------------------------
(***************************************************************************)
(* Small instances of FoodOrder.  A cart of 20 with a delivery fee of 10   *)
(* stands for the code's prices and its fee of 20.000.                     *)
(***************************************************************************)
EXTENDS FoodOrder, TLC

\* Drivers, orders and requests are interchangeable.
Symmetry ==
    Permutations(Drivers) \cup Permutations(Orders) \cup Permutations(Requests)

\* A ceiling that the debit of one CASH delivery passes.
CeilingBelowOneDelivery == -15

=============================================================================
