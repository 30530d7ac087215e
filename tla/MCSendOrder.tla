----------------------------- MODULE MCSendOrder -----------------------------
(***************************************************************************)
(* Small instances of SendOrder.                                           *)
(***************************************************************************)
EXTENDS SendOrder, TLC

\* Orders and requests are interchangeable.
Symmetry == Permutations(Orders) \cup Permutations(Requests)

\* A letter that goes 200 metres.
Letter == [n |-> 1, leg |-> <<200, 0, 0>>, weight |-> 500, value |-> 0]

OneLetter == {Letter}

\* A parcel of odd fare for three stops, the last two at one place: both halves
\* of the fare are rounded up.
Halves == [n |-> 3, leg |-> <<200, 200, 0>>, weight |-> 500, value |-> 10000100]

OneOfHalves == {Halves}

\* A ceiling that the commission of one CASH delivery passes.
CeilingBelowOneDelivery == -100000

=============================================================================
