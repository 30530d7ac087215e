---------------------------- MODULE MCAdminLockout ----------------------------
\* Bounds for AdminLockout.
EXTENDS AdminLockout, TLC

CONSTANTS r1, r2

Symmetry == Permutations({r1, r2})
=============================================================================
