------------------------------ MODULE MCSessions ------------------------------
\* Bounds for Sessions: neither users nor logins affect each other, so one of
\* each is enough; two changes of status at a time, and a clock that passes the
\* life of a refresh token after the first and after a later suspension.
EXTENDS Sessions, TLC

CONSTANTS u1, r1, q1, q2

Symmetry == Permutations({q1, q2})
=============================================================================
