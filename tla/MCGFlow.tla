------------------------------- MODULE MCGFlow -------------------------------
(***************************************************************************)
(* One customer, one driver and one order of each service, at the scale of *)
(* the code's amounts, because those of G-Send are computed.               *)
(***************************************************************************)
EXTENDS GFlow

\* A letter that goes 200 metres, for 15.600.
OneLetter == {[n |-> 1, leg |-> <<200, 0, 0>>, weight |-> 500, value |-> 0]}

\* A ceiling that the debit of one CASH order of any service passes.
CeilingBelowOneOrder == -100000

=============================================================================
