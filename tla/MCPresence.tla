------------------------------ MODULE MCPresence -----------------------------
(***************************************************************************)
(* Small instances of DriverPresence.  The unit of time is half a minute:  *)
(* two units are the code's redisTTL and freshWindow, one is its           *)
(* postgresFreshWindow; the pause of five seconds between flushes is       *)
(* stretched to one unit.                                                  *)
(***************************************************************************)
EXTENDS DriverPresence, TLC

\* Drivers, calls and workers are interchangeable.
Symmetry ==
    Permutations(Drivers) \cup Permutations(Calls) \cup Permutations(Workers)

=============================================================================
