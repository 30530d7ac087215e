---------------------------- MODULE MCIdempotency ----------------------------
(***************************************************************************)
(* Small instances of Idempotency: three copies of one request.            *)
(***************************************************************************)
EXTENDS Idempotency, TLC

\* The copies are interchangeable.
Symmetry == Permutations(Attempts)

=============================================================================
