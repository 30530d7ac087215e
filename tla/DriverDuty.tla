------------------------------ MODULE DriverDuty ------------------------------
(***************************************************************************)
(* What the orders of every service promise their drivers, whatever the    *)
(* states of the orders are: an idle driver takes one order and is busy,   *)
(* and is idle again in the step that takes this order out of the driver's *)
(* hands, and in no other.  Ride, food and send orders are shown to        *)
(* implement it, each alone and all three together.                        *)
(***************************************************************************)

CONSTANTS Drivers, Orders, None

VARIABLES
    carrier,    \* the driver who carries an order
    work        \* users.working_status of the drivers

vars == <<carrier, work>>

Init ==
    /\ carrier = [o \in Orders |-> None]
    /\ work = [d \in Drivers |-> "IDLE"]

Take(d, o) ==
    /\ carrier[o] = None
    /\ work[d] = "IDLE"
    /\ carrier' = [carrier EXCEPT ![o] = d]
    /\ work' = [work EXCEPT ![d] = "BUSY"]

Release(o) ==
    /\ carrier[o] # None
    /\ carrier' = [carrier EXCEPT ![o] = None]
    /\ work' = [work EXCEPT ![carrier[o]] = "IDLE"]

Next == \E o \in Orders : Release(o) \/ \E d \in Drivers : Take(d, o)

Spec == Init /\ [][Next]_vars

=============================================================================
