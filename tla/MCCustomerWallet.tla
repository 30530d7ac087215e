--------------------------- MODULE MCCustomerWallet ---------------------------
\* Bounds for CustomerWallet: two customers, one of them verified, top-ups of 2
\* against debts of 1, 2 and 3, two reversals that may read the same entries, and
\* a floor that two top-ups reach.
EXTENDS CustomerWallet, TLC

CONSTANTS c1, c2, t1, t2, x1, r1, r2

MCAmounts == {2}
MCDeltas  == {-1, 0, 1, 2}
MCFloor   == -3

Symmetry == Permutations({t1, t2}) \cup Permutations({r1, r2})
=============================================================================
