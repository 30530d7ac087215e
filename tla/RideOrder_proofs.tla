-------------------------- MODULE RideOrder_proofs --------------------------
EXTENDS RideOrder, TLAPS

\* A step of the promised order, or none.
PromiseStep == [Promise!Next]_(Promise!vars)

\* A step of a driver's duty, or none.
DutyStep == [Duty!Next]_(Duty!vars)

\* What every action of the system is shown to do.
Good == OrdersInv' /\ FinalKept /\ PromiseStep /\ DutyStep

\* The commission is never negative, and a positive one is less than the fare.
LEMMA CommissionBounds ==
    ASSUME NEW f \in Nat
    PROVE  /\ Commission(f) \in Nat
           /\ Commission(f) > 0 => f > Commission(f)
BY DEF Commission

\* The basis of a fare is never negative (fareBasis).
LEMMA FareBasisNat == ASSUME NEW row \in Row PROVE FareBasis(row) \in Nat
BY DEF FareBasis, Row

\* The empty system satisfies the inductive invariant.
LEMMA InitIndInv == Init => IndInv
<1> SUFFICES ASSUME Init PROVE IndInv
    OBVIOUS
<1>1. TypeOK
  <2>1. NoRow \in Row
    BY DEF Row, NoRow
  <2>0. Zero \in Net
    BY DEF Net, Zero, Moved
  <2>2. /\ custBal \in [Customers -> Int]
        /\ drvBal \in [Drivers -> Int]
    <3>1. CustStart \subseteq Int /\ DrvStart \subseteq Int
        BY AmountsAssumption
    <3> QED
        BY <3>1 DEF Init
  <2> QED
    BY <2>0, <2>1, <2>2 DEF Init, TypeOK
<1>2. \A o \in Orders : order[o] = NoRow /\ posted[o] = Zero
    BY DEF Init
<1>3. NoRow.status = "NONE" /\ NoRow.driver = None /\ NoRow.settled = FALSE
    BY DEF NoRow
<1>4. RowsOK
    BY <1>2, <1>3 DEF RowsOK, Filled, Assigned
<1>5. HeldFor(NoRow) = 0
    BY <1>3 DEF HeldFor, Live, Assigned
<1>6. LiveLedger /\ EscrowBacksRide /\ CancelledRefund /\ SettledSplit
    BY <1>2, <1>3, <1>5
    DEF LiveLedger, EscrowBacksRide, CancelledRefund, SettledSplit, Zero, Moved
<1>7. DriverExclusive
    BY <1>2, <1>3 DEF Init, DriverExclusive, Assigned
<1>8. CustomerNotOverdrawn
  <2>1. \A c \in Customers : custBal[c] \in CustStart
    BY DEF Init
  <2>2. \A c \in Customers : custBal[c] \in Nat
    BY <2>1, AmountsAssumption
  <2> QED
    BY <2>2 DEF CustomerNotOverdrawn
<1> QED
    BY <1>1, <1>4, <1>6, <1>7, <1>8 DEF IndInv, OrdersInv

-----------------------------------------------------------------------------
(* What the helpers of the actions do to the state *)

\* The running total of an order's entries stays a total.
LEMMA PlusNet ==
    ASSUME NEW m \in Net, NEW n \in Net
    PROVE  /\ Plus(m, n) \in Net
           /\ Plus(m, n).escrow = m.escrow + n.escrow
           /\ Plus(m, n).customer = m.customer + n.customer
           /\ Plus(m, n).driver = m.driver + n.driver
           /\ Plus(m, n).platform = m.platform + n.platform
           /\ Plus(m, n).subsidy = m.subsidy + n.subsidy
BY DEF Plus, Net, Moved

\* Totals that agree on every wallet are equal.
LEMMA NetEqual ==
    ASSUME NEW m \in Net
    PROVE  m = Moved(m.escrow, m.customer, m.driver, m.platform, m.subsidy)
BY DEF Net, Moved

\* Postings and their columns: Moved makes a total and reads back.
LEMMA MovedNet ==
    ASSUME NEW e \in Int, NEW c \in Int, NEW d \in Int, NEW p \in Int, NEW s \in Int
    PROVE  /\ Moved(e, c, d, p, s) \in Net
           /\ Moved(e, c, d, p, s).escrow = e
           /\ Moved(e, c, d, p, s).customer = c
           /\ Moved(e, c, d, p, s).driver = d
           /\ Moved(e, c, d, p, s).platform = p
           /\ Moved(e, c, d, p, s).subsidy = s
BY DEF Moved, Net

\* Posting keeps the types and moves only the two wallets it names.
LEMMA PostEffect ==
    ASSUME TypeOK, NEW o \in Orders, NEW c, NEW d, NEW n \in Net, Post(o, c, d, n)
    PROVE  /\ posted' \in [Orders -> Net]
           /\ posted' = [posted EXCEPT ![o] = Plus(posted[o], n)]
           /\ custBal' \in [Customers -> Int]
           /\ drvBal' \in [Drivers -> Int]
           /\ \A x \in Customers :
                 custBal'[x] = IF x = c THEN custBal[x] + n.customer ELSE custBal[x]
           /\ \A x \in Drivers :
                 drvBal'[x] = IF x = d THEN drvBal[x] + n.driver ELSE drvBal[x]
<1>1. Plus(posted[o], n) \in Net
    BY PlusNet DEF TypeOK
<1>2. n.customer \in Int /\ n.driver \in Int
    BY DEF Net
<1> QED
    BY <1>1, <1>2 DEF Post, TypeOK

\* Freeing a driver (ResetDriverIdle) keeps the type of working_status.
LEMMA ResetEffect ==
    ASSUME TypeOK, NEW d, ResetDriverIdle(d)
    PROVE  /\ drvWork' \in [Drivers -> {"IDLE", "BUSY"}]
           /\ \A x \in Drivers : drvWork'[x] = IF x = d THEN "IDLE" ELSE drvWork[x]
BY DEF ResetDriverIdle, TypeOK

\* Ending a request keeps the type of the requests in flight.
LEMMA DoneEffect ==
    ASSUME TypeOK, NEW r \in Requests, Done(r)
    PROVE  req' \in [Requests -> Booking \cup Patch \cup {None}]
BY DEF Done, TypeOK

-----------------------------------------------------------------------------
(* Frames: what an action has to show of the row it changes *)

\* Actions that leave the orders, the balances and working_status alone.
LEMMA QuietStep ==
    ASSUME OrdersInv, TypeOK', UNCHANGED <<order, custBal, drvBal, drvWork, posted>>
    PROVE  Good
<1>1. OrdersInv' /\ FinalKept
    BY DEF FinalKept, TypeOK, OrdersInv, RowsOK, LiveLedger, EscrowBacksRide,
           CancelledRefund, SettledSplit, CustomerNotOverdrawn
<1>2. UNCHANGED Promise!vars /\ UNCHANGED Duty!vars
    BY DEF Promise!vars, Duty!vars
<1> QED
    BY <1>1, <1>2 DEF Good, PromiseStep, DutyStep

\* One row and its entries change: the others keep what held of them.
LEMMA LedgerStep ==
    ASSUME OrdersInv, NEW o \in Orders, NEW row, NEW n,
           order' = [order EXCEPT ![o] = row],
           posted' = [posted EXCEPT ![o] = n],
           Filled(row),
           row.status \in Live \cup {"NONE"} =>
               n = Moved(HeldFor(row), -HeldFor(row), 0, 0, 0),
           n.escrow = HeldFor(row),
           row.status = "CANCELLED" => Refunded(row, n),
           row.status = "SETTLED" => Split(row, n),
           order[o].status \notin Final
    PROVE  /\ FinalKept
           /\ RowsOK'
           /\ LiveLedger'
           /\ EscrowBacksRide'
           /\ CancelledRefund'
           /\ SettledSplit'
<1>1. \A p \in Orders : /\ order'[p] = IF p = o THEN row ELSE order[p]
                        /\ posted'[p] = IF p = o THEN n ELSE posted[p]
    BY DEF OrdersInv, TypeOK
<1>2. RowsOK /\ LiveLedger /\ EscrowBacksRide /\ CancelledRefund /\ SettledSplit
    BY DEF OrdersInv
<1>3. RowsOK'
    BY <1>1, <1>2 DEF RowsOK
<1>4. LiveLedger'
    BY <1>1, <1>2 DEF LiveLedger
<1>5. EscrowBacksRide'
    BY <1>1, <1>2 DEF EscrowBacksRide
<1>6. CancelledRefund'
    BY <1>1, <1>2 DEF CancelledRefund
<1>7. SettledSplit'
    BY <1>1, <1>2 DEF SettledSplit
<1>8. FinalKept
    BY <1>1 DEF FinalKept
<1> QED
    BY <1>3, <1>4, <1>5, <1>6, <1>7, <1>8

\* A row that is in nobody's hands before and after, or in the same driver's.
LEMMA SameCarrierStep ==
    ASSUME OrdersInv, NEW o \in Orders, NEW row,
           order' = [order EXCEPT ![o] = row],
           Carrier(row) = Carrier(order[o]),
           UNCHANGED drvWork
    PROVE  DutyStep
<1>1. \A p \in Orders : Carrier(order'[p]) = Carrier(order[p])
    BY DEF OrdersInv, TypeOK
<1>2. [p \in Orders |-> Carrier(order[p])]' = [p \in Orders |-> Carrier(order[p])]
    BY <1>1
<1> QED
    BY <1>2 DEF DutyStep, Duty!vars

\* An idle driver takes a ride that is in nobody's hands.
LEMMA TakeStep ==
    ASSUME OrdersInv, NEW o \in Orders, NEW row, NEW d \in Drivers,
           order' = [order EXCEPT ![o] = row],
           Carrier(order[o]) = None,
           Carrier(row) = d,
           drvWork[d] = "IDLE",
           drvWork' = [drvWork EXCEPT ![d] = "BUSY"]
    PROVE  DutyStep
<1>1. \A p \in Orders : Carrier(order'[p]) = IF p = o THEN d ELSE Carrier(order[p])
    BY DEF OrdersInv, TypeOK
<1>2. [p \in Orders |-> Carrier(order[p])]' =
          [[p \in Orders |-> Carrier(order[p])] EXCEPT ![o] = d]
    BY <1>1
<1>3. Duty!Take(d, o)
    BY <1>2 DEF Duty!Take
<1> QED
    BY <1>3 DEF DutyStep, Duty!Next

\* A ride ends and its driver, if it has one, is idle.
LEMMA EndStep ==
    ASSUME OrdersInv, NEW o \in Orders, NEW row,
           order' = [order EXCEPT ![o] = row],
           row.status \notin Assigned,
           order[o].status \in Live,
           drvWork' \in [Drivers -> {"IDLE", "BUSY"}],
           \A d \in Drivers :
              drvWork'[d] = IF d = order[o].driver THEN "IDLE" ELSE drvWork[d]
    PROVE  DutyStep
<1>1. Carrier(row) = None /\ Carrier(order[o]) = order[o].driver
    BY DEF Carrier, OrdersInv, RowsOK, Filled, Live
<1>2. drvWork \in [Drivers -> {"IDLE", "BUSY"}]
    BY DEF OrdersInv, TypeOK
<1>3. CASE order[o].driver = None
  <2>1. drvWork' = drvWork
    BY <1>2, <1>3, NamesAssumption
  <2> QED
    BY <1>1, <1>3, <2>1, SameCarrierStep
<1>4. CASE order[o].driver # None
  <2>1. \A p \in Orders : Carrier(order'[p]) = IF p = o THEN None ELSE Carrier(order[p])
    BY <1>1 DEF OrdersInv, TypeOK
  <2>2. [p \in Orders |-> Carrier(order[p])]' =
            [[p \in Orders |-> Carrier(order[p])] EXCEPT ![o] = None]
    BY <2>1
  <2>3. drvWork' = [drvWork EXCEPT ![order[o].driver] = "IDLE"]
    BY <1>2
  <2>4. Duty!Release(o)
    BY <1>1, <1>4, <2>2, <2>3 DEF Duty!Release
  <2> QED
    BY <2>4 DEF DutyStep, Duty!Next
<1> QED
    BY <1>3, <1>4

-----------------------------------------------------------------------------
(* One lemma per action *)

\* What a live or not yet inserted order has posted.
LEMMA LivePosted ==
    ASSUME OrdersInv, NEW o \in Orders, order[o].status \in Live \cup {"NONE"}
    PROVE  /\ posted[o] \in Net
           /\ HeldFor(order[o]) \in Nat
           /\ posted[o].escrow = HeldFor(order[o])
           /\ posted[o].customer = -HeldFor(order[o])
           /\ posted[o].driver = 0
           /\ posted[o].platform = 0
           /\ posted[o].subsidy = 0
<1>1. order[o] \in Row /\ posted[o] \in Net
    BY DEF OrdersInv, TypeOK
<1>2. HeldFor(order[o]) \in Nat
    BY <1>1, FareBasisNat DEF HeldFor
<1>3. posted[o] = Moved(HeldFor(order[o]), -HeldFor(order[o]), 0, 0, 0)
    BY DEF OrdersInv, LiveLedger
<1> QED
    BY <1>1, <1>2, <1>3, MovedNet

\* A step that keeps the phase and the entries of its ride is none of the
\* promise's business.
LEMMA SamePhaseStep ==
    ASSUME OrdersInv, NEW o \in Orders, NEW row,
           order' = [order EXCEPT ![o] = row],
           Phase(row) = Phase(order[o]),
           UNCHANGED posted
    PROVE  PromiseStep
<1>1. \A p \in Orders : Phase(order'[p]) = Phase(order[p])
    BY DEF OrdersInv, TypeOK
<1>2. [p \in Orders |-> Phase(order[p])]' = [p \in Orders |-> Phase(order[p])]
    BY <1>1
<1> QED
    BY <1>2 DEF PromiseStep, Promise!vars

\* A function changed at one point only.
LEMMA ExceptAt ==
    ASSUME NEW S, NEW f, NEW g, NEW o \in S, NEW x,
           f = [p \in S |-> f[p]], g = [p \in S |-> g[p]],
           \A p \in S : g[p] = IF p = o THEN x ELSE f[p]
    PROVE  g = [f EXCEPT ![o] = x]
OBVIOUS

\* The first posting of a ride opens it, as the promise says.
LEMMA OpenStep ==
    ASSUME OrdersInv, NEW o \in Orders, NEW row, NEW n \in Net,
           order' = [order EXCEPT ![o] = row],
           posted' = [posted EXCEPT ![o] = n],
           order[o].status = "NONE",
           row.status \in Live,
           n.escrow >= 0, n.customer = -n.escrow,
           n.driver = 0, n.platform = 0, n.subsidy = 0
    PROVE  PromiseStep
<1>1. \A p \in Orders : /\ order'[p] = IF p = o THEN row ELSE order[p]
                        /\ posted'[p] = IF p = o THEN n ELSE posted[p]
    BY DEF OrdersInv, TypeOK
<1>2. Phase(order[o]) = "none" /\ Phase(row) = "open"
    BY DEF Phase, Live, Assigned
<1>3. /\ posted[o].driver = 0 /\ posted[o].platform = 0 /\ posted[o].subsidy = 0
    BY LivePosted
<1>4. n.escrow \in Int
    BY DEF Net
<1>5. Promise!Open(o)
  <2>1. [p \in Orders |-> Phase(order[p])]' =
            [[p \in Orders |-> Phase(order[p])] EXCEPT ![o] = "open"]
    <3>1. \A p \in Orders :
              Phase(order'[p]) = IF p = o THEN "open" ELSE Phase(order[p])
      BY <1>1, <1>2
    <3> QED
      BY <3>1
  <2>2. [p \in Orders |-> posted[p].escrow]' =
            [[p \in Orders |-> posted[p].escrow] EXCEPT
                ![o] = [p \in Orders |-> posted[p].escrow]'[o]]
    <3> DEFINE f == [p \in Orders |-> posted[p].escrow]
    <3>1. /\ f = [p \in Orders |-> f[p]] /\ f' = [p \in Orders |-> f'[p]]
          /\ \A p \in Orders : f'[p] = IF p = o THEN f'[o] ELSE f[p]
      BY <1>1
    <3>2. f' = [f EXCEPT ![o] = f'[o]]
      <4> HIDE DEF f
      <4> QED
        BY <3>1, ExceptAt
    <3> QED
      BY <3>2
  <2>3. [p \in Orders |-> posted[p].customer]' =
            [[p \in Orders |-> posted[p].customer] EXCEPT
                ![o] = -[p \in Orders |-> posted[p].escrow]'[o]]
    <3>1. \A p \in Orders : posted'[p].customer =
              IF p = o THEN -(posted'[p].escrow) ELSE posted[p].customer
      BY <1>1
    <3> QED
      BY <3>1
  <2>4. [p \in Orders |-> posted[p].driver + posted[p].platform + posted[p].subsidy]' =
            [p \in Orders |-> posted[p].driver + posted[p].platform + posted[p].subsidy]
    <3>1. \A p \in Orders :
              posted'[p].driver + posted'[p].platform + posted'[p].subsidy =
              posted[p].driver + posted[p].platform + posted[p].subsidy
      BY <1>1, <1>3
    <3> QED
      BY <3>1
  <2>5. [p \in Orders |-> posted[p].escrow]'[o] >= 0
    BY <1>1
  <2> QED
    BY <1>2, <2>1, <2>2, <2>3, <2>4, <2>5 DEF Promise!Open
<1> QED
    BY <1>5 DEF PromiseStep, Promise!Next

\* The last posting of a ride closes it, as the promise says.
LEMMA CloseStep ==
    ASSUME OrdersInv, NEW o \in Orders, NEW row, NEW n \in Net,
           order' = [order EXCEPT ![o] = row],
           posted' = [posted EXCEPT ![o] = n],
           order[o].status \in Live,
           row.status \in Final,
           n.escrow = 0, n.customer <= 0,
           n.customer + n.driver + n.platform + n.subsidy = 0
    PROVE  PromiseStep
<1>1. \A p \in Orders : /\ order'[p] = IF p = o THEN row ELSE order[p]
                        /\ posted'[p] = IF p = o THEN n ELSE posted[p]
    BY DEF OrdersInv, TypeOK
<1>2. Phase(order[o]) = "open" /\ Phase(row) = "closed"
    BY DEF Phase, Live, Assigned, Final
<1>3. /\ n.driver + n.platform + n.subsidy = -n.customer
    BY DEF Net
<1>4. Promise!Close(o)
  <2>1. [p \in Orders |-> Phase(order[p])]' =
            [[p \in Orders |-> Phase(order[p])] EXCEPT ![o] = "closed"]
    <3>1. \A p \in Orders :
              Phase(order'[p]) = IF p = o THEN "closed" ELSE Phase(order[p])
      BY <1>1, <1>2
    <3> QED
      BY <3>1
  <2>2. [p \in Orders |-> posted[p].escrow]' =
            [[p \in Orders |-> posted[p].escrow] EXCEPT ![o] = 0]
    <3>1. \A p \in Orders :
              posted'[p].escrow = IF p = o THEN 0 ELSE posted[p].escrow
      BY <1>1
    <3> QED
      BY <3>1
  <2>3. [p \in Orders |-> posted[p].customer]' =
            [[p \in Orders |-> posted[p].customer] EXCEPT
                ![o] = [p \in Orders |-> posted[p].customer]'[o]]
    <3> DEFINE f == [p \in Orders |-> posted[p].customer]
    <3>1. /\ f = [p \in Orders |-> f[p]] /\ f' = [p \in Orders |-> f'[p]]
          /\ \A p \in Orders : f'[p] = IF p = o THEN f'[o] ELSE f[p]
      BY <1>1
    <3>2. f' = [f EXCEPT ![o] = f'[o]]
      <4> HIDE DEF f
      <4> QED
        BY <3>1, ExceptAt
    <3> QED
      BY <3>2
  <2>4. [p \in Orders |-> posted[p].driver + posted[p].platform + posted[p].subsidy]' =
            [[p \in Orders |-> posted[p].driver + posted[p].platform + posted[p].subsidy]
                EXCEPT ![o] = -[p \in Orders |-> posted[p].customer]'[o]]
    <3> DEFINE f == [p \in Orders |-> posted[p].customer]
               g == [p \in Orders |->
                        posted[p].driver + posted[p].platform + posted[p].subsidy]
    <3>1. /\ g = [p \in Orders |-> g[p]] /\ g' = [p \in Orders |-> g'[p]]
          /\ \A p \in Orders : g'[p] = IF p = o THEN -(f'[o]) ELSE g[p]
      BY <1>1, <1>3
    <3>2. g' = [g EXCEPT ![o] = -(f'[o])]
      <4> HIDE DEF f, g
      <4> QED
        BY <3>1, ExceptAt
    <3> QED
      BY <3>2
  <2>5. [p \in Orders |-> posted[p].customer]'[o] <= 0
    BY <1>1
  <2> QED
    BY <1>2, <2>1, <2>2, <2>3, <2>4, <2>5 DEF Promise!Close
<1> QED
    BY <1>4 DEF PromiseStep, Promise!Next

\* Passing the debt gate of BookRide disturbs nothing.
LEMMA BookGateStep ==
    ASSUME OrdersInv, NEW r \in Requests, NEW c \in Customers, BookGate(r, c)
    PROVE  Good
<1>1. [op |-> "book", customer |-> c] \in Booking
    BY DEF Booking
<1>2. TypeOK'
    BY <1>1 DEF BookGate, OrdersInv, TypeOK
<1> QED
    BY <1>2, QuietStep DEF BookGate

\* Reading an order before the transaction (updateRideStatusTx) disturbs
\* nothing, and what was read is a well-typed status change.
LEMMA ReadOrderStep ==
    ASSUME OrdersInv, NEW r \in Requests, NEW o \in Orders,
           NEW actor \in Customers \cup Drivers, NEW target \in Targets,
           ReadOrder(r, o, actor, target)
    PROVE  Good
<1>1. /\ order[o].status \in Live
      /\ target = "CANCELLED" \/ <<order[o].status, target>> \in Forward
    BY DEF ReadOrder, ValidTransition, Forward, Live, Assigned
<1>2. [op |-> "patch", order |-> o, actor |-> actor, target |-> target,
       seen |-> order[o].status] \in Patch
    BY <1>1 DEF Patch
<1>3. TypeOK'
    BY <1>2 DEF ReadOrder, OrdersInv, TypeOK
<1> QED
    BY <1>3, QuietStep DEF ReadOrder

\* The booking transaction starts a ride whose escrow holds its basis.
LEMMA BookCommitStep ==
    ASSUME OrdersInv, NEW r \in Requests, NEW o \in Orders, NEW pay \in {"WALLET", "CASH"},
           NEW est \in Fares, NEW disc \in Discounts,
           BookCommit(r, o, pay, est, disc)
    PROVE  Good
<1> DEFINE c    == req[r].customer
           row  == [NoRow EXCEPT !.status = "SEARCHING_DRIVER", !.customer = c,
                                 !.pay = pay, !.est = est, !.disc = disc]
           hold == IF pay = "WALLET" THEN FareBasis(row) ELSE 0
           n    == Moved(hold, -hold, 0, 0, 0)
<1>1. c \in Customers
    BY DEF BookCommit, OrdersInv, TypeOK, Booking, Patch
<1>2. /\ row \in Row
      /\ row.status = "SEARCHING_DRIVER" /\ row.customer = c /\ row.pay = pay
      /\ row.driver = None /\ row.settled = FALSE
    BY <1>1, AmountsAssumption DEF NoRow, Row, Live
<1>3. /\ order[o].status = "NONE"
      /\ hold <= custBal[c]
      /\ order' = [order EXCEPT ![o] = row]
      /\ Post(o, c, None, n)
      /\ Done(r)
      /\ UNCHANGED <<debt, drvStatus, drvWork>>
    BY DEF BookCommit
<1> HIDE DEF c, row
<1>4. hold \in Nat /\ hold = HeldFor(row)
    BY <1>2, FareBasisNat DEF HeldFor, Live
<1> HIDE DEF hold
<1>5. n \in Net /\ n.customer = -hold /\ n.driver = 0
    BY <1>4, MovedNet
<1>6. TypeOK
    BY DEF OrdersInv
<1>7. posted[o] = Zero
    BY <1>3 DEF OrdersInv, LiveLedger, HeldFor, Live, Assigned, Zero
<1>8. Plus(posted[o], n) = n
    BY <1>4, <1>7 DEF Plus, Zero, Moved
<1> HIDE DEF n
<1>9. TypeOK'
  <2>1. order' \in [Orders -> Row]
    BY <1>2, <1>3, <1>6 DEF TypeOK
  <2> QED
    BY <2>1, <1>3, <1>5, <1>6, PostEffect, DoneEffect DEF TypeOK
<1>10. /\ RowsOK' /\ LiveLedger' /\ EscrowBacksRide' /\ CancelledRefund'
       /\ SettledSplit' /\ FinalKept
  <2>1. posted' = [posted EXCEPT ![o] = n]
    BY <1>3, <1>5, <1>6, <1>8, PostEffect
  <2>2. Filled(row)
    BY <1>1, <1>2 DEF Filled, Assigned
  <2>3. n = Moved(HeldFor(row), -HeldFor(row), 0, 0, 0) /\ n.escrow = HeldFor(row)
    BY <1>4, MovedNet DEF n
  <2> QED
    BY <1>2, <1>3, <2>1, <2>2, <2>3, LedgerStep DEF Final
<1>11. DutyStep
  <2>1. Carrier(row) = None /\ Carrier(order[o]) = None
    BY <1>2, <1>3 DEF Carrier, Assigned
  <2> QED
    BY <1>3, <2>1, SameCarrierStep
<1>12. CustomerNotOverdrawn'
  <2>1. \A x \in Customers : custBal'[x] = IF x = c THEN custBal[x] - hold ELSE custBal[x]
    BY <1>3, <1>4, <1>5, <1>6, PostEffect DEF TypeOK
  <2> QED
    BY <1>3, <1>4, <1>6, <2>1 DEF OrdersInv, CustomerNotOverdrawn, TypeOK
<1>13. PromiseStep
  <2>1. row.status \in Live
    BY <1>2 DEF Live
  <2>2. /\ n.escrow = hold /\ n.driver = 0 /\ n.platform = 0 /\ n.subsidy = 0
        /\ n.escrow >= 0 /\ n.customer = -n.escrow
    BY <1>4, MovedNet DEF n
  <2>3. posted' = [posted EXCEPT ![o] = n]
    BY <1>3, <1>5, <1>6, <1>8, PostEffect
  <2> QED
    BY <1>3, <1>5, <2>1, <2>2, <2>3, OpenStep
<1> QED
    BY <1>9, <1>10, <1>11, <1>12, <1>13 DEF Good, OrdersInv

\* Acceptance ties an idle driver to one searching order.
LEMMA AcceptOrderStep ==
    ASSUME OrdersInv, NEW d \in Drivers, NEW o \in Orders, AcceptOrder(d, o)
    PROVE  Good
<1> DEFINE row == [order[o] EXCEPT !.status = "DRIVER_ASSIGNED", !.driver = d]
<1>1. TypeOK
    BY DEF OrdersInv
<1>2. /\ drvWork[d] = "IDLE"
      /\ order[o].status = "SEARCHING_DRIVER"
      /\ order' = [order EXCEPT ![o] = row]
      /\ drvWork' = [drvWork EXCEPT ![d] = "BUSY"]
      /\ UNCHANGED <<custBal, drvBal, debt, drvStatus, posted, req>>
    BY DEF AcceptOrder, MayAccept
<1>3. order[o] \in Row
    BY <1>1 DEF TypeOK
<1>4. /\ row \in Row
      /\ row.status = "DRIVER_ASSIGNED" /\ row.driver = d
      /\ row.customer = order[o].customer /\ row.settled = order[o].settled
      /\ row.pay = order[o].pay /\ row.est = order[o].est /\ row.disc = order[o].disc
    BY <1>3 DEF Row, Live, Assigned
<1> HIDE DEF row
<1>5. TypeOK'
    BY <1>1, <1>2, <1>4 DEF TypeOK
<1>6. HeldFor(row) = HeldFor(order[o])
    BY <1>2, <1>4 DEF HeldFor, FareBasis, Live, Assigned
<1>7. /\ RowsOK' /\ LiveLedger' /\ EscrowBacksRide' /\ CancelledRefund'
      /\ SettledSplit' /\ FinalKept
  <2>1. Filled(row)
    BY <1>2, <1>4 DEF Filled, Assigned, OrdersInv, RowsOK
  <2>2. posted' = [posted EXCEPT ![o] = posted[o]]
    BY <1>1, <1>2 DEF TypeOK
  <2>3. /\ posted[o] = Moved(HeldFor(row), -HeldFor(row), 0, 0, 0)
        /\ posted[o].escrow = HeldFor(row)
    BY <1>2, <1>6 DEF OrdersInv, LiveLedger, EscrowBacksRide, Live
  <2> QED
    BY <1>2, <1>4, <2>1, <2>2, <2>3, LedgerStep DEF Final
<1>8. DutyStep
  <2>1. Carrier(order[o]) = None /\ Carrier(row) = d
    BY <1>2, <1>4 DEF Carrier, Assigned
  <2> QED
    BY <1>2, <2>1, TakeStep
<1>9. CustomerNotOverdrawn'
    BY <1>1, <1>2 DEF OrdersInv, CustomerNotOverdrawn, TypeOK
<1>10. PromiseStep
  <2>1. Phase(row) = Phase(order[o])
    BY <1>2, <1>4 DEF Phase, Live, Assigned
  <2> QED
    BY <1>2, <2>1, SamePhaseStep
<1> QED
    BY <1>5, <1>7, <1>8, <1>9, <1>10 DEF Good, OrdersInv

\* A row whose status, driver and amounts stay within one ride: the actions
\* that move no money.
LEMMA ProgressStep ==
    ASSUME OrdersInv, NEW o \in Orders, NEW row \in Row,
           order' = [order EXCEPT ![o] = row],
           \/ order[o].status = "SEARCHING_DRIVER" /\ row.status = "SEARCHING_DRIVER"
           \/ order[o].status \in Assigned /\ row.status \in Assigned,
           row.driver = order[o].driver,
           row.customer = order[o].customer,
           row.settled = order[o].settled,
           row.pay = order[o].pay,
           row.est = order[o].est,
           row.disc = order[o].disc,
           req' \in [Requests -> Booking \cup Patch \cup {None}],
           UNCHANGED <<custBal, drvBal, debt, drvStatus, drvWork, posted>>
    PROVE  Good
<1>1. TypeOK /\ TypeOK'
    BY DEF OrdersInv, TypeOK
<1>2. HeldFor(row) = HeldFor(order[o])
    BY DEF HeldFor, FareBasis, Live
<1>3. /\ RowsOK' /\ LiveLedger' /\ EscrowBacksRide' /\ CancelledRefund'
      /\ SettledSplit' /\ FinalKept
  <2>1. Filled(row)
    BY DEF Filled, Assigned, OrdersInv, RowsOK
  <2>2. posted' = [posted EXCEPT ![o] = posted[o]]
    BY <1>1 DEF TypeOK
  <2>3. /\ posted[o] = Moved(HeldFor(row), -HeldFor(row), 0, 0, 0)
        /\ posted[o].escrow = HeldFor(row)
    BY <1>2 DEF OrdersInv, LiveLedger, EscrowBacksRide, Live
  <2>4. row.status \notin Final /\ order[o].status \notin Final
    BY DEF Final, Assigned
  <2> QED
    BY <2>1, <2>2, <2>3, <2>4, LedgerStep DEF Final
<1>4. DutyStep
  <2>1. Carrier(row) = Carrier(order[o])
    BY DEF Carrier, Assigned
  <2> QED
    BY <2>1, SameCarrierStep
<1>5. CustomerNotOverdrawn'
    BY <1>1 DEF OrdersInv, CustomerNotOverdrawn, TypeOK
<1>6. PromiseStep
  <2>1. Phase(row) = Phase(order[o])
    BY DEF Phase, Live, Assigned
  <2> QED
    BY <2>1, SamePhaseStep
<1> QED
    BY <1>1, <1>3, <1>4, <1>5, <1>6 DEF Good, OrdersInv

\* What a status change that got its lock knows.
LEMMA LockedFacts ==
    ASSUME TypeOK, NEW r \in Requests, NEW t, Locked(r, t)
    PROVE  /\ req[r].order \in Orders
           /\ order[req[r].order] \in Row
           /\ order[req[r].order].status \in Live
           /\ req[r].actor \in Customers \cup Drivers
           /\ t # "CANCELLED" => <<order[req[r].order].status, t>> \in Forward
BY DEF Locked, TypeOK, Booking, Patch

\* A status change that gets its lock and moves its order forward.
LEMMA ForwardStep ==
    ASSUME OrdersInv, NEW r \in Requests, NEW t \in {"DRIVER_ARRIVED", "TRIP_STARTED"},
           Locked(r, t), Done(r),
           NEW row \in Row,
           order' = [order EXCEPT ![req[r].order] = row],
           row.status = t,
           row.driver = order[req[r].order].driver,
           row.customer = order[req[r].order].customer,
           row.settled = order[req[r].order].settled,
           row.pay = order[req[r].order].pay,
           row.est = order[req[r].order].est,
           row.disc = order[req[r].order].disc,
           UNCHANGED <<custBal, drvBal, debt, drvStatus, drvWork, posted>>
    PROVE  Good
<1> DEFINE o == req[r].order
<1>1. TypeOK
    BY DEF OrdersInv
<1>2. o \in Orders /\ <<order[o].status, t>> \in Forward
    BY <1>1, LockedFacts
<1>3. order[o].status \in Assigned /\ t \in Assigned
    BY <1>2 DEF Forward, Assigned
<1>4. req' \in [Requests -> Booking \cup Patch \cup {None}]
    BY <1>1, DoneEffect
<1> HIDE DEF o
<1> QED
    BY <1>2, <1>3, <1>4, ProgressStep DEF o

\* Arrival moves an assigned order forward and no money.
LEMMA ArriveStep ==
    ASSUME OrdersInv, NEW r \in Requests, Arrive(r)
    PROVE  Good
<1> DEFINE o   == req[r].order
           row == [order[o] EXCEPT !.status = "DRIVER_ARRIVED", !.waited = FALSE]
<1>1. Locked(r, "DRIVER_ARRIVED") /\ Done(r)
    BY DEF Arrive
<1>2. order[o] \in Row
    BY <1>1, LockedFacts DEF OrdersInv
<1>3. /\ row \in Row /\ row.status = "DRIVER_ARRIVED"
      /\ row.driver = order[o].driver /\ row.customer = order[o].customer
      /\ row.settled = order[o].settled /\ row.pay = order[o].pay
      /\ row.est = order[o].est /\ row.disc = order[o].disc
    BY <1>2 DEF Row, Live, Assigned
<1>4. /\ order' = [order EXCEPT ![o] = row]
      /\ UNCHANGED <<custBal, drvBal, debt, drvStatus, drvWork, posted>>
    BY DEF Arrive
<1> HIDE DEF row
<1> QED
    BY <1>1, <1>3, <1>4, ForwardStep

\* Starting the trip moves an order forward and no money.
LEMMA StartTripStep ==
    ASSUME OrdersInv, NEW r \in Requests, StartTrip(r)
    PROVE  Good
<1> DEFINE o   == req[r].order
           row == [order[o] EXCEPT !.status = "TRIP_STARTED"]
<1>1. Locked(r, "TRIP_STARTED") /\ Done(r)
    BY DEF StartTrip
<1>2. order[o] \in Row
    BY <1>1, LockedFacts DEF OrdersInv
<1>3. /\ row \in Row /\ row.status = "TRIP_STARTED"
      /\ row.driver = order[o].driver /\ row.customer = order[o].customer
      /\ row.settled = order[o].settled /\ row.pay = order[o].pay
      /\ row.est = order[o].est /\ row.disc = order[o].disc
    BY <1>2 DEF Row, Live, Assigned
<1>4. /\ order' = [order EXCEPT ![o] = row]
      /\ UNCHANGED <<custBal, drvBal, debt, drvStatus, drvWork, posted>>
    BY DEF StartTrip
<1> HIDE DEF row
<1> QED
    BY <1>1, <1>3, <1>4, ForwardStep

\* The passing of expires_at changes no amount and no driver.
LEMMA ExpireStep ==
    ASSUME OrdersInv, NEW o \in Orders, Expire(o)
    PROVE  Good
<1> DEFINE row == [order[o] EXCEPT !.expired = TRUE]
<1>1. order[o] \in Row /\ req \in [Requests -> Booking \cup Patch \cup {None}]
    BY DEF OrdersInv, TypeOK
<1>2. /\ row \in Row /\ row.status = order[o].status
      /\ row.driver = order[o].driver /\ row.customer = order[o].customer
      /\ row.settled = order[o].settled /\ row.pay = order[o].pay
      /\ row.est = order[o].est /\ row.disc = order[o].disc
    BY <1>1 DEF Row
<1>3. /\ order' = [order EXCEPT ![o] = row]
      /\ order[o].status = "SEARCHING_DRIVER"
      /\ UNCHANGED <<custBal, drvBal, debt, drvStatus, drvWork, posted, req>>
    BY DEF Expire
<1> HIDE DEF row
<1> QED
    BY <1>1, <1>2, <1>3, ProgressStep

\* The five minutes at the pickup point change no amount and no driver.
LEMMA WaitAtPickupStep ==
    ASSUME OrdersInv, NEW o \in Orders, WaitAtPickup(o)
    PROVE  Good
<1> DEFINE row == [order[o] EXCEPT !.waited = TRUE]
<1>1. order[o] \in Row /\ req \in [Requests -> Booking \cup Patch \cup {None}]
    BY DEF OrdersInv, TypeOK
<1>2. /\ row \in Row /\ row.status = order[o].status
      /\ row.driver = order[o].driver /\ row.customer = order[o].customer
      /\ row.settled = order[o].settled /\ row.pay = order[o].pay
      /\ row.est = order[o].est /\ row.disc = order[o].disc
    BY <1>1 DEF Row
<1>3. /\ order' = [order EXCEPT ![o] = row]
      /\ order[o].status \in Assigned
      /\ UNCHANGED <<custBal, drvBal, debt, drvStatus, drvWork, posted, req>>
    BY DEF WaitAtPickup, Assigned
<1> HIDE DEF row
<1> QED
    BY <1>1, <1>2, <1>3, ProgressStep

\* The remaining actions touch neither an order nor its money.
LEMMA AsideStep ==
    ASSUME OrdersInv,
           \/ \E r \in Requests : Fail(r)
           \/ \E d \in Drivers, s \in {"ACTIVE", "SUSPENDED"} : UpdateUserStatus(d, s)
    PROVE  Good
<1>1. TypeOK
    BY DEF OrdersInv
<1>2. TypeOK' /\ UNCHANGED <<order, custBal, drvBal, drvWork, posted>>
  <2>1. CASE \E r \in Requests : Fail(r)
    BY <1>1, <2>1, DoneEffect DEF Fail, TypeOK
  <2>2. CASE \E d \in Drivers, s \in {"ACTIVE", "SUSPENDED"} : UpdateUserStatus(d, s)
    BY <1>1, <2>2 DEF UpdateUserStatus, TypeOK
  <2> QED
    BY <2>1, <2>2
<1> QED
    BY <1>2, QuietStep

\* A live ride ends with a posting: what is left to show of an action that
\* ends a ride is that the posting fits the final status.
LEMMA FinishStep ==
    ASSUME OrdersInv, NEW o \in Orders, NEW row \in Row, NEW n \in Net,
           order[o].status \in Live,
           order' = [order EXCEPT ![o] = row],
           row.status \in Final,
           row.driver = order[o].driver,
           row.customer = order[o].customer,
           row.settled <=> row.status = "SETTLED",
           row.status = "SETTLED" => row.driver \in Drivers,
           posted' = [posted EXCEPT ![o] = n],
           n.escrow = 0,
           row.status = "CANCELLED" => Refunded(row, n),
           row.status = "SETTLED" => Split(row, n),
           \A d \in Drivers :
              drvWork'[d] = IF d = order[o].driver THEN "IDLE" ELSE drvWork[d],
           \A x \in Customers : custBal'[x] >= 0,
           TypeOK'
    PROVE  Good
<1>1. row.status \notin Live \cup {"NONE"} /\ row.status \notin Assigned
    BY DEF Final, Live, Assigned
<1>2. order[o].status \notin Final /\ order[o].status # "NONE"
    BY DEF Final, Live, Assigned
<1>3. Filled(row)
  <2>1. row.customer \in Customers
    BY <1>2 DEF OrdersInv, RowsOK, Filled
  <2>2. row.status \notin {"NONE", "SEARCHING_DRIVER"}
    BY <1>1 DEF Live
  <2>3. row.status \in Assigned \cup {"SETTLED"} => row.driver \in Drivers
    BY <1>1
  <2> QED
    BY <2>1, <2>2, <2>3 DEF Filled
<1>4. n.escrow = HeldFor(row)
    BY <1>1 DEF HeldFor
<1>5. /\ RowsOK' /\ LiveLedger' /\ EscrowBacksRide' /\ CancelledRefund'
      /\ SettledSplit' /\ FinalKept
    BY <1>1, <1>2, <1>3, <1>4, LedgerStep
<1>6. DutyStep
    BY <1>1, EndStep DEF TypeOK
<1>7. PromiseStep
  <2>1. /\ n.customer \in Int /\ n.driver \in Int /\ n.platform \in Int
        /\ n.subsidy \in Int
    BY DEF Net
  <2>2. /\ row.pay \in {"WALLET", "CASH"} /\ row.actual \in Nat
        /\ Commission(row.actual) \in Nat
    BY CommissionBounds DEF Row
  <2>3. /\ n.customer <= 0
        /\ n.customer + n.driver + n.platform + n.subsidy = 0
    <3>1. CASE row.status = "CANCELLED"
      <4>1. n.driver >= 0
        BY <3>1, AmountsAssumption DEF Refunded
      <4> QED
        BY <2>1, <3>1, <4>1 DEF Refunded
    <3>2. CASE row.status = "SETTLED"
      <4> DEFINE cut == Commission(row.actual)
      <4>1. cut \in Nat /\ n.platform = cut
        BY <2>2, <3>2 DEF Split
      <4>2. CASE row.pay = "WALLET"
        <5>1. /\ n.driver = row.actual - cut
              /\ n.customer + n.subsidy = -row.actual
              /\ n.customer <= 0
          BY <3>2, <4>2 DEF Split
        <5> HIDE DEF cut
        <5> QED
          BY <2>1, <2>2, <4>1, <5>1
      <4>3. CASE row.pay = "CASH"
        <5>1. n.customer = 0 /\ n.subsidy = 0 /\ n.driver = -cut
          BY <3>2, <4>3 DEF Split
        <5> HIDE DEF cut
        <5> QED
          BY <2>1, <4>1, <5>1
      <4> QED
        BY <2>2, <4>2, <4>3
    <3> QED
        BY <3>1, <3>2 DEF Final
  <2> QED
    BY <2>3, CloseStep
<1> QED
    BY <1>5, <1>6, <1>7 DEF Good, OrdersInv, CustomerNotOverdrawn

\* The worker's cancellation refunds the whole hold of a searching order.
LEMMA AutoCancelStep ==
    ASSUME OrdersInv, NEW o \in Orders, AutoCancel(o)
    PROVE  Good
<1> DEFINE old  == order[o]
           row  == [order[o] EXCEPT !.status = "CANCELLED"]
           back == IF old.pay = "WALLET" THEN FareBasis(old) ELSE 0
           n    == Moved(-back, back, 0, 0, 0)
<1>1. TypeOK /\ old \in Row
    BY DEF OrdersInv, TypeOK
<1>2. /\ old.status = "SEARCHING_DRIVER" /\ ~old.settled
      /\ order' = [order EXCEPT ![o] = row]
      /\ Post(o, old.customer, None, n)
      /\ UNCHANGED <<debt, drvStatus, drvWork, req>>
    BY DEF AutoCancel, Sweepable
<1>3. /\ row \in Row /\ row.status = "CANCELLED" /\ row.driver = old.driver
      /\ row.customer = old.customer /\ row.settled = old.settled
    BY <1>1 DEF Row, Final
<1>4. back \in Nat /\ back = HeldFor(old)
    BY <1>1, <1>2, FareBasisNat DEF HeldFor, Live
<1>5. old.driver = None /\ old.driver \notin Drivers
    BY <1>2, NamesAssumption DEF OrdersInv, RowsOK, Filled
<1>6. /\ n \in Net /\ n.escrow = -back /\ n.customer = back /\ n.driver = 0
      /\ n.platform = 0 /\ n.subsidy = 0
    BY <1>4, MovedNet
<1>7. /\ posted[o] \in Net /\ posted[o].escrow = back /\ posted[o].customer = -back
      /\ posted[o].driver = 0 /\ posted[o].platform = 0 /\ posted[o].subsidy = 0
    BY <1>2, <1>4, LivePosted DEF Live
<1> HIDE DEF back, row, n
<1>8. /\ Plus(posted[o], n) \in Net
      /\ Plus(posted[o], n).escrow = 0
      /\ Refunded(row, Plus(posted[o], n))
    BY <1>4, <1>6, <1>7, PlusNet DEF Refunded
<1>9. /\ posted' = [posted EXCEPT ![o] = Plus(posted[o], n)]
      /\ posted' \in [Orders -> Net]
      /\ custBal' \in [Customers -> Int] /\ drvBal' \in [Drivers -> Int]
      /\ \A x \in Customers : custBal'[x] =
            IF x = old.customer THEN custBal[x] + back ELSE custBal[x]
    BY <1>1, <1>2, <1>6, PostEffect
<1>10. TypeOK'
  <2>1. order' \in [Orders -> Row]
    BY <1>1, <1>2, <1>3 DEF TypeOK
  <2> QED
    BY <1>1, <1>2, <1>9, <2>1 DEF TypeOK
<1>11. \A x \in Customers : custBal'[x] >= 0
    BY <1>1, <1>4, <1>9 DEF OrdersInv, CustomerNotOverdrawn, TypeOK
<1>12. row.settled <=> row.status = "SETTLED"
    BY <1>2, <1>3
<1>13. old.status \in Live /\ row.status \in Final /\ row.status # "SETTLED"
    BY <1>2, <1>3 DEF Live, Final
<1>14. \A x \in Drivers : drvWork'[x] = IF x = old.driver THEN "IDLE" ELSE drvWork[x]
    BY <1>2, <1>5
<1> QED
    BY <1>2, <1>3, <1>5, <1>8, <1>9, <1>10, <1>11, <1>12, <1>13, <1>14, FinishStep

\* A cancellation splits the hold into fee and refund and frees the driver.
LEMMA CancelOrderStep ==
    ASSUME OrdersInv, NEW r \in Requests, NEW reason \in Reasons, CancelOrder(r, reason)
    PROVE  Good
<1> DEFINE o    == req[r].order
           old  == order[o]
           why  == EffectiveReason(old, req[r].actor, reason)
           fee  == CancellationFee(old.status, why)
           back == RefundToCustomer(old, fee)
           cut  == FeeToDriver(old, fee)
           row  == [order[o] EXCEPT !.status = "CANCELLED"]
           n    == Moved(-(cut + back), back, cut, 0, 0)
<1>1. TypeOK
    BY DEF OrdersInv
<1>2. /\ Locked(r, "CANCELLED") /\ ~old.settled /\ Done(r)
      /\ order' = [order EXCEPT ![o] = row]
      /\ \/ /\ old.pay = "WALLET"
            /\ RefundPostable(old, fee)
            /\ fee > 0 => old.driver # None
            /\ Post(o, old.customer, old.driver, n)
         \/ /\ old.pay = "CASH"
            /\ UNCHANGED <<custBal, drvBal, posted>>
      /\ ResetDriverIdle(old.driver)
      /\ UNCHANGED <<debt, drvStatus>>
    BY DEF CancelOrder
<1>3. o \in Orders /\ old \in Row /\ old.status \in Live
    BY <1>1, <1>2, LockedFacts
<1>4. /\ row \in Row /\ row.status = "CANCELLED" /\ row.driver = old.driver
      /\ row.customer = old.customer /\ row.settled = old.settled /\ row.pay = old.pay
    BY <1>3 DEF Row, Final
<1>5. fee \in {0, FeeAssigned, FeeArrived} /\ fee \in Nat
    BY AmountsAssumption DEF CancellationFee
<1>6. TypeOK' /\ \A x \in Drivers :
          drvWork'[x] = IF x = old.driver THEN "IDLE" ELSE drvWork[x]
  <2>1. order' \in [Orders -> Row]
    BY <1>1, <1>2, <1>3, <1>4 DEF TypeOK
  <2>2. /\ posted' \in [Orders -> Net]
        /\ custBal' \in [Customers -> Int] /\ drvBal' \in [Drivers -> Int]
    <3>1. FareBasis(old) \in Nat
        BY <1>3, FareBasisNat
    <3>2. cut \in Int /\ back \in Int
        BY <1>5, <3>1 DEF FeeToDriver, RefundToCustomer
    <3> HIDE DEF cut, back
    <3>3. n \in Net
        BY <3>2, MovedNet
    <3> HIDE DEF n, o
    <3> QED
        BY <1>1, <1>2, <1>3, <3>3, PostEffect DEF TypeOK
  <2> QED
    BY <1>1, <1>2, <2>1, <2>2, ResetEffect, DoneEffect DEF TypeOK
<1> DEFINE m == IF old.pay = "WALLET" THEN Plus(posted[o], n) ELSE posted[o]
<1>7. /\ posted' = [posted EXCEPT ![o] = m]
      /\ m \in Net /\ m.escrow = 0 /\ Refunded(row, m)
      /\ \A x \in Customers : custBal'[x] >= 0
  <2>1. CASE old.pay = "WALLET"
    <3>1. FareBasis(old) \in Nat /\ HeldFor(old) = FareBasis(old)
        BY <1>3, <2>1, FareBasisNat DEF HeldFor
    <3>2. RefundPostable(old, fee) /\ (fee > 0 => old.driver # None)
          /\ Post(o, old.customer, old.driver, n)
        BY <1>2, <2>1
    <3>3. /\ cut = fee /\ back = FareBasis(old) - fee /\ back > 0
        BY <1>5, <3>1, <3>2 DEF RefundPostable, FeeToDriver, RefundToCustomer
    <3>4. cut \in Int /\ back \in Int /\ cut + back = FareBasis(old)
        BY <1>5, <3>1, <3>3
    <3> HIDE DEF back, cut, fee
    <3>14. n = Moved(-FareBasis(old), back, fee, 0, 0)
        BY <3>3, <3>4
    <3>15. -FareBasis(old) \in Int /\ fee \in Int
        BY <1>5, <3>1
    <3> HIDE DEF n
    <3>5. /\ n \in Net /\ n.escrow = -FareBasis(old) /\ n.customer = back
          /\ n.driver = fee /\ n.platform = 0 /\ n.subsidy = 0
        BY <3>4, <3>14, <3>15 DEF Moved, Net
    <3>6. /\ posted[o] \in Net /\ posted[o].escrow = FareBasis(old)
          /\ posted[o].customer = -FareBasis(old) /\ posted[o].driver = 0
          /\ posted[o].platform = 0 /\ posted[o].subsidy = 0
        BY <1>3, <3>1, LivePosted
    <3> HIDE DEF row, o
    <3>13. m = Plus(posted[o], n)
        BY <2>1
    <3> HIDE DEF m
    <3>12. /\ m \in Net
           /\ m.escrow = posted[o].escrow + n.escrow
           /\ m.customer = posted[o].customer + n.customer
           /\ m.driver = posted[o].driver + n.driver
           /\ m.platform = posted[o].platform + n.platform
           /\ m.subsidy = posted[o].subsidy + n.subsidy
        BY <3>5, <3>6, <3>13, PlusNet
    <3>7. /\ m \in Net /\ m.escrow = 0 /\ m.customer = -fee /\ m.driver = fee
          /\ m.platform = 0 /\ m.subsidy = 0
        BY <1>5, <3>1, <3>3, <3>5, <3>6, <3>12
    <3>8. Refunded(row, m)
        BY <1>4, <1>5, <2>1, <3>2, <3>7, AmountsAssumption DEF Refunded
    <3>9. /\ posted' = [posted EXCEPT ![o] = m]
          /\ \A x \in Customers :
                custBal'[x] = IF x = old.customer THEN custBal[x] + back ELSE custBal[x]
        BY <1>1, <1>3, <3>2, <3>5, <3>13, PostEffect
    <3>10. \A x \in Customers : custBal'[x] >= 0
        BY <1>1, <3>3, <3>4, <3>9 DEF OrdersInv, CustomerNotOverdrawn, TypeOK
    <3> QED
        BY <3>7, <3>8, <3>9, <3>10
  <2>2. CASE old.pay = "CASH"
    <3>1. HeldFor(old) = 0 /\ m = posted[o]
        BY <2>2 DEF HeldFor
    <3>2. /\ posted[o] \in Net /\ posted[o].escrow = 0 /\ posted[o].customer = 0
          /\ posted[o].driver = 0 /\ posted[o].platform = 0 /\ posted[o].subsidy = 0
        BY <1>3, <3>1, LivePosted
    <3>3. UNCHANGED <<custBal, drvBal, posted>>
        BY <1>2, <2>2
    <3>4. posted' = [posted EXCEPT ![o] = m]
        BY <1>1, <1>3, <3>1, <3>3 DEF TypeOK
    <3>5. Refunded(row, m)
        BY <3>1, <3>2 DEF Refunded
    <3>6. \A x \in Customers : custBal'[x] >= 0
        BY <3>3 DEF OrdersInv, CustomerNotOverdrawn, TypeOK
    <3> QED
        BY <3>1, <3>2, <3>3, <3>4, <3>5, <3>6
  <2> QED
    BY <1>3, <2>1, <2>2 DEF Row
<1>8. row.settled <=> row.status = "SETTLED"
    BY <1>2, <1>4
<1>9. row.status \in Final /\ row.status # "SETTLED"
    BY <1>4 DEF Final
<1> HIDE DEF row, m, o
<1> QED
    BY <1>2, <1>3, <1>4, <1>6, <1>7, <1>8, <1>9, FinishStep

\* Completion splits the actual fare, empties the escrow, frees the driver.
LEMMA CompleteOrderStep ==
    ASSUME OrdersInv, NEW r \in Requests, NEW actual \in ActualFares, CompleteOrder(r, actual)
    PROVE  Good
<1> DEFINE o    == req[r].order
           old  == order[o]
           fare == IF actual > 0 THEN actual ELSE FareBasis(old)
           bal  == custBal[old.customer]
           n    == IF old.pay = "WALLET" THEN WalletSettlement(old, fare, bal)
                   ELSE CashSettlement(fare)
           row  == [order[o] EXCEPT !.status = "SETTLED", !.actual = fare,
                                    !.settled = TRUE]
           m    == Plus(posted[o], n)
<1>1. TypeOK
    BY DEF OrdersInv
<1>2. /\ Locked(r, "COMPLETED") /\ Done(r)
      /\ old.driver # None
      /\ SettlementPostable(old, fare)
      /\ order' = [order EXCEPT ![o] = row]
      /\ Post(o, old.customer, old.driver, n)
      /\ debt' = [debt EXCEPT ![old.customer] = @ - n.subsidy]
      /\ drvStatus' = [drvStatus EXCEPT ![old.driver] =
            IF old.pay = "CASH" /\ drvBal[old.driver] + n.driver < NegativeCeiling
            THEN "SUSPENDED" ELSE @]
      /\ ResetDriverIdle(old.driver)
    BY DEF CompleteOrder
<1>3. o \in Orders /\ old \in Row /\ old.status \in Live /\ old.status \in Assigned
    BY <1>1, <1>2, LockedFacts DEF Forward, Assigned
<1>4. /\ old.customer \in Customers /\ old.driver \in Drivers
      /\ old.pay \in {"WALLET", "CASH"} /\ FareBasis(old) \in Nat
    BY <1>3, FareBasisNat DEF OrdersInv, RowsOK, Filled, Row, Live, Assigned
<1>5. bal \in Int /\ bal >= 0
    BY <1>1, <1>4 DEF OrdersInv, CustomerNotOverdrawn, TypeOK
<1>6. /\ fare \in Nat /\ Commission(fare) \in Nat
      /\ Commission(fare) > 0 /\ fare > Commission(fare)
    BY <1>2, <1>4, AmountsAssumption, CommissionBounds DEF SettlementPostable
<1> HIDE DEF fare, bal
<1>7. /\ row \in Row /\ row.status = "SETTLED" /\ row.settled = TRUE
      /\ row.actual = fare /\ row.pay = old.pay
      /\ row.driver = old.driver /\ row.customer = old.customer
    BY <1>3, <1>6 DEF Row, Final
<1>8. /\ posted[o] \in Net
      /\ posted[o].escrow = HeldFor(old) /\ posted[o].customer = -HeldFor(old)
      /\ posted[o].driver = 0 /\ posted[o].platform = 0 /\ posted[o].subsidy = 0
    BY <1>3, LivePosted
<1>9. /\ n \in Net /\ n.subsidy <= 0
      /\ HeldFor(old) + n.escrow = 0
      /\ n.platform = Commission(fare)
      /\ n.customer + bal >= 0
      /\ old.pay = "WALLET" => /\ n.driver = fare - Commission(fare)
                               /\ n.driver > 0
                               /\ n.customer - HeldFor(old) + n.subsidy = -fare
                               /\ n.customer - HeldFor(old) <= 0
      /\ old.pay = "CASH" => /\ n.customer = 0 /\ n.subsidy = 0
                             /\ n.driver = -Commission(fare) /\ HeldFor(old) = 0
  <2>1. CASE old.pay = "WALLET"
    <3> DEFINE delta == fare - FareBasis(old)
               lacks == delta > 0 /\ bal < delta
               fromCustomer == IF ~lacks THEN delta ELSE IF bal > 0 THEN bal ELSE 0
               shortfall    == IF lacks THEN delta - bal ELSE 0
    <3>1. HeldFor(old) = FareBasis(old)
        BY <1>3, <2>1 DEF HeldFor
    <3>2. n = Moved(fromCustomer + shortfall - fare, -fromCustomer,
                    fare - Commission(fare), Commission(fare), -shortfall)
        BY <2>1 DEF WalletSettlement
    <3>3. /\ fromCustomer \in Int /\ shortfall \in Int
          /\ fromCustomer + shortfall = fare - FareBasis(old)
          /\ shortfall >= 0 /\ bal - fromCustomer >= 0
          /\ fromCustomer + FareBasis(old) >= 0
        BY <1>4, <1>5, <1>6
    <3> HIDE DEF fromCustomer, shortfall, n
    <3>4. /\ fromCustomer + shortfall - fare \in Int /\ -fromCustomer \in Int
          /\ fare - Commission(fare) \in Int /\ Commission(fare) \in Int
          /\ -shortfall \in Int
        BY <1>6, <3>3
    <3>5. /\ n \in Net
          /\ n.escrow = fromCustomer + shortfall - fare
          /\ n.customer = -fromCustomer
          /\ n.driver = fare - Commission(fare)
          /\ n.platform = Commission(fare)
          /\ n.subsidy = -shortfall
        BY <3>2, <3>4 DEF Moved, Net
    <3>6. fare - Commission(fare) > 0
        BY <1>6
    <3>7. n.subsidy <= 0 /\ n.customer + bal >= 0
        BY <1>5, <3>3, <3>5
    <3>8. HeldFor(old) + n.escrow = 0
        BY <1>4, <1>6, <3>1, <3>3, <3>5
    <3>9. /\ n.customer - HeldFor(old) + n.subsidy = -fare
          /\ n.customer - HeldFor(old) <= 0
        BY <1>4, <1>6, <3>1, <3>3, <3>5
    <3> QED
        BY <2>1, <3>5, <3>6, <3>7, <3>8, <3>9
  <2>2. CASE old.pay = "CASH"
    <3>1. HeldFor(old) = 0
        BY <2>2 DEF HeldFor
    <3>2. n = Moved(0, 0, -Commission(fare), Commission(fare), 0)
        BY <2>2 DEF CashSettlement
    <3> HIDE DEF n
    <3>3. /\ n \in Net /\ n.escrow = 0 /\ n.customer = 0 /\ n.subsidy = 0
          /\ n.driver = -Commission(fare) /\ n.platform = Commission(fare)
        BY <1>6, <3>2 DEF Moved, Net
    <3> QED
        BY <1>5, <2>2, <3>1, <3>3
  <2> QED
    BY <1>4, <2>1, <2>2
<1> HIDE DEF n
<1>10. /\ m \in Net /\ m.escrow = 0 /\ Split(row, m)
  <2>1. /\ m \in Net
        /\ m.escrow = posted[o].escrow + n.escrow
        /\ m.customer = posted[o].customer + n.customer
        /\ m.driver = posted[o].driver + n.driver
        /\ m.platform = posted[o].platform + n.platform
        /\ m.subsidy = posted[o].subsidy + n.subsidy
    BY <1>8, <1>9, PlusNet
  <2>2. /\ n.escrow \in Int /\ n.customer \in Int /\ n.driver \in Int
        /\ n.platform \in Int /\ n.subsidy \in Int
    BY <1>9 DEF Net
  <2>3. HeldFor(old) \in Nat
    BY <1>3, LivePosted
  <2> HIDE DEF m, row
  <2>4. m.escrow = 0 /\ m.platform = Commission(fare)
    BY <1>6, <1>8, <1>9, <2>1, <2>2, <2>3
  <2>5. CASE old.pay = "WALLET"
    <3>1. /\ m.driver = fare - Commission(fare)
          /\ m.customer = n.customer - HeldFor(old) /\ m.subsidy = n.subsidy
        BY <1>6, <1>8, <1>9, <2>1, <2>2, <2>3, <2>5
    <3> QED
        BY <1>7, <1>9, <2>1, <2>4, <2>5, <3>1 DEF Split
  <2>6. CASE old.pay = "CASH"
    <3>1. m.driver = -Commission(fare) /\ m.customer = 0 /\ m.subsidy = 0
        BY <1>6, <1>8, <1>9, <2>1, <2>2, <2>3, <2>6
    <3> QED
        BY <1>7, <2>1, <2>4, <2>6, <3>1 DEF Split
  <2> QED
    BY <1>4, <2>1, <2>4, <2>5, <2>6
<1>11. /\ posted' = [posted EXCEPT ![o] = m]
       /\ posted' \in [Orders -> Net]
       /\ custBal' \in [Customers -> Int] /\ drvBal' \in [Drivers -> Int]
       /\ \A x \in Customers :
             custBal'[x] = IF x = old.customer THEN custBal[x] + n.customer ELSE custBal[x]
    BY <1>1, <1>2, <1>3, <1>9, PostEffect
<1>12. TypeOK'
  <2>1. order' \in [Orders -> Row]
    BY <1>1, <1>2, <1>3, <1>7 DEF TypeOK
  <2>2. debt' \in [Customers -> Nat]
    <3>1. n.subsidy \in Int
        BY <1>9 DEF Net
    <3>2. debt[old.customer] - n.subsidy \in Nat
        BY <1>1, <1>4, <1>9, <3>1 DEF TypeOK
    <3> QED
        BY <1>1, <1>2, <3>2 DEF TypeOK
  <2>3. drvStatus' \in [Drivers -> {"ACTIVE", "SUSPENDED"}]
    BY <1>1, <1>2 DEF TypeOK
  <2> QED
    BY <1>1, <1>2, <1>11, <2>1, <2>2, <2>3, ResetEffect, DoneEffect DEF TypeOK
<1>13. \A x \in Customers : custBal'[x] >= 0
  <2>1. n.customer \in Int
    BY <1>9 DEF Net
  <2> QED
    BY <1>1, <1>9, <1>11, <2>1 DEF bal, OrdersInv, CustomerNotOverdrawn, TypeOK
<1>14. \A x \in Drivers : drvWork'[x] = IF x = old.driver THEN "IDLE" ELSE drvWork[x]
    BY <1>1, <1>2, ResetEffect
<1>15. row.status \in Final /\ row.status # "CANCELLED"
    BY <1>7 DEF Final
<1> HIDE DEF row, m, o
<1> QED
    BY <1>2, <1>3, <1>4, <1>7, <1>10, <1>11, <1>12, <1>13, <1>14, <1>15, FinishStep

-----------------------------------------------------------------------------
(* Theorems *)

\* Every step keeps the inductive invariant, never touches a ride that ended,
\* and moves money only as the promise allows.
LEMMA NextStep ==
    ASSUME OrdersInv, [Next]_vars
    PROVE  Good
<1>1. CASE Next
  <2>1. CASE \E r \in Requests, c \in Customers : BookGate(r, c)
    BY <2>1, BookGateStep
  <2>2. CASE \E r \in Requests, o \in Orders, pay \in {"WALLET", "CASH"},
               est \in Fares, disc \in Discounts : BookCommit(r, o, pay, est, disc)
    BY <2>2, BookCommitStep
  <2>3. CASE \E d \in Drivers, o \in Orders : AcceptOrder(d, o)
    BY <2>3, AcceptOrderStep
  <2>4. CASE \E r \in Requests, o \in Orders, actor \in Customers \cup Drivers,
               target \in Targets : ReadOrder(r, o, actor, target)
    BY <2>4, ReadOrderStep
  <2>5. CASE \E r \in Requests : Arrive(r)
    BY <2>5, ArriveStep
  <2>6. CASE \E r \in Requests : StartTrip(r)
    BY <2>6, StartTripStep
  <2>7. CASE \E r \in Requests, reason \in Reasons : CancelOrder(r, reason)
    BY <2>7, CancelOrderStep
  <2>8. CASE \E r \in Requests, actual \in ActualFares : CompleteOrder(r, actual)
    BY <2>8, CompleteOrderStep
  <2>9. CASE \E o \in Orders : AutoCancel(o)
    BY <2>9, AutoCancelStep
  <2>10. CASE \E o \in Orders : Expire(o)
    BY <2>10, ExpireStep
  <2>11. CASE \E o \in Orders : WaitAtPickup(o)
    BY <2>11, WaitAtPickupStep
  <2>12. CASE \/ \E r \in Requests : Fail(r)
              \/ \E d \in Drivers, s \in {"ACTIVE", "SUSPENDED"} : UpdateUserStatus(d, s)
    BY <2>12, AsideStep
  <2> QED
    BY <1>1, <2>1, <2>2, <2>3, <2>4, <2>5, <2>6, <2>7, <2>8, <2>9, <2>10, <2>11,
       <2>12 DEF Next
<1>2. CASE UNCHANGED vars
  <2>1. TypeOK'
    BY <1>2 DEF OrdersInv, TypeOK, vars
  <2> QED
    BY <1>2, <2>1, QuietStep DEF vars
<1> QED
    BY <1>1, <1>2

\* working_status follows from the drivers' duty: who carries a ride is busy, and
\* with one ride only.
LEMMA ExclusiveStep ==
    ASSUME OrdersInv, OrdersInv', DriverExclusive, DutyStep
    PROVE  DriverExclusive'
<1> DEFINE carrier == [o \in Orders |-> Carrier(order[o])]
           One(c, w) ==
              /\ \A d \in Drivers : w[d] = "BUSY" <=> \E o \in Orders : c[o] = d
              /\ \A o, p \in Orders : c[o] = c[p] /\ c[o] # None => o = p
<1>1. /\ \A o \in Orders : carrier[o] \in Drivers \cup {None}
      /\ \A d \in Drivers : \A o \in Orders :
            carrier[o] = d <=> order[o].driver = d /\ order[o].status \in Assigned
    BY NamesAssumption DEF OrdersInv, RowsOK, Filled, Carrier
<1>2. \A d \in Drivers : \A o \in Orders :
            carrier'[o] = d <=> order'[o].driver = d /\ order'[o].status \in Assigned
    BY NamesAssumption DEF OrdersInv, RowsOK, Filled, Carrier
<1>3. \A o \in Orders : order'[o].status \in Assigned => order'[o].driver \in Drivers
    BY DEF OrdersInv, RowsOK, Filled
<1>4. drvWork \in [Drivers -> {"IDLE", "BUSY"}] /\ carrier = [o \in Orders |-> carrier[o]]
    BY DEF OrdersInv, TypeOK
<1>5. One(carrier, drvWork)
    BY <1>1 DEF DriverExclusive
<1>6. One(carrier', drvWork')
  <2>1. CASE UNCHANGED <<carrier, drvWork>>
    <3> HIDE DEF carrier
    <3> QED
      BY <1>5, <2>1
  <2>2. ASSUME NEW d \in Drivers, NEW o \in Orders, Duty!Take(d, o)
        PROVE  One(carrier', drvWork')
    <3>1. /\ carrier[o] = None /\ drvWork[d] = "IDLE"
          /\ carrier' = [carrier EXCEPT ![o] = d]
          /\ drvWork' = [drvWork EXCEPT ![d] = "BUSY"]
      BY <2>2 DEF Duty!Take
    <3> HIDE DEF carrier
    <3> QED
      BY <1>4, <1>5, <3>1, NamesAssumption
  <2>3. ASSUME NEW o \in Orders, Duty!Release(o)
        PROVE  One(carrier', drvWork')
    <3>1. /\ carrier[o] \in Drivers
          /\ carrier' = [carrier EXCEPT ![o] = None]
          /\ drvWork' = [drvWork EXCEPT ![carrier[o]] = "IDLE"]
      BY <1>1, <2>3 DEF Duty!Release
    <3> HIDE DEF carrier
    <3> QED
      BY <1>4, <1>5, <3>1, NamesAssumption
  <2> QED
    BY <2>1, <2>2, <2>3 DEF DutyStep, Duty!Next, Duty!vars
<1> QED
  <2>1. \A d \in Drivers :
            drvWork'[d] = "BUSY" <=>
               \E o \in Orders : order'[o].driver = d /\ order'[o].status \in Assigned
    BY <1>2, <1>6
  <2>2. ASSUME NEW o \in Orders, NEW p \in Orders,
               order'[o].status \in Assigned, order'[p].status \in Assigned,
               order'[o].driver = order'[p].driver
        PROVE  o = p
    BY <1>2, <1>3, <1>6, <2>2, NamesAssumption
  <2> QED
    BY <2>1, <2>2 DEF DriverExclusive

\* The empty system is the promise's initial state.
LEMMA InitPromise == Init => Promise!Init
<1> SUFFICES ASSUME Init PROVE Promise!Init
    OBVIOUS
<1>1. \A o \in Orders : order[o] = NoRow /\ posted[o] = Zero
    BY DEF Init
<1>2. Phase(NoRow) = "none"
    BY DEF Phase, NoRow
<1>3. Zero.escrow = 0 /\ Zero.customer = 0
      /\ Zero.driver + Zero.platform + Zero.subsidy = 0
    BY MovedNet DEF Zero
<1> QED
    BY <1>1, <1>2, <1>3 DEF Promise!Init

\* The inductive invariant holds in every state of the specification,
\* whatever the sets of users, orders and requests and whatever the amounts.
THEOREM RideInvariant == Spec => []IndInv
<1>1. IndInv /\ [Next]_vars => IndInv'
    BY NextStep, ExclusiveStep DEF Good, IndInv
<1> QED
    BY InitIndInv, <1>1, PTL DEF Spec

\* Every variable keeps its type; a settlement never makes the debt negative.
THEOREM RideTypes == Spec => []TypeOK
<1>1. IndInv => TypeOK
    BY DEF IndInv, OrdersInv
<1> QED
    BY RideInvariant, <1>1, PTL

\* Escrow holds the basis of each live WALLET ride and nothing of an ended one.
THEOREM RideEscrow == Spec => []EscrowBacksRide
<1>1. IndInv => EscrowBacksRide
    BY DEF IndInv, OrdersInv
<1> QED
    BY RideInvariant, <1>1, PTL

\* A driver serves one ride at a time and working_status says so.
THEOREM RideDriver == Spec => []DriverExclusive
<1>1. IndInv => DriverExclusive
    BY DEF IndInv, OrdersInv
<1> QED
    BY RideInvariant, <1>1, PTL

\* A cancelled ride moved no money but its fee, once.
THEOREM RideRefund == Spec => []CancelledRefund
<1>1. IndInv => CancelledRefund
    BY DEF IndInv, OrdersInv
<1> QED
    BY RideInvariant, <1>1, PTL

\* A settled ride split exactly its actual fare.
THEOREM RideSplit == Spec => []SettledSplit
<1>1. IndInv => SettledSplit
    BY DEF IndInv, OrdersInv
<1> QED
    BY RideInvariant, <1>1, PTL

\* No ride takes a customer's wallet below zero.
THEOREM RideNoOverdraft == Spec => []CustomerNotOverdrawn
<1>1. IndInv => CustomerNotOverdrawn
    BY DEF IndInv, OrdersInv
<1> QED
    BY RideInvariant, <1>1, PTL

\* A ride that ended is never touched again.
THEOREM RideFinal == Spec => FinalIsFinal
<1>1. IndInv /\ [Next]_vars => [FinalKept]_vars
    BY NextStep DEF Good, IndInv
<1> QED
    BY RideInvariant, <1>1, PTL DEF Spec, FinalIsFinal, FinalKept

\* Rides implement the promise about their money, whoever ends them and
\* whatever the actual fare is.
THEOREM RideKeepsPromise == Spec => KeepsPromise
<1>1. IndInv /\ [Next]_vars => [Promise!Next]_(Promise!vars)
    BY NextStep DEF Good, IndInv, PromiseStep
<1> QED
    BY InitPromise, RideInvariant, <1>1, PTL DEF Spec, KeepsPromise, Promise!Spec

\* At first no driver carries an order, and all are idle.
LEMMA InitDuty == Init => Duty!Init
<1> SUFFICES ASSUME Init PROVE Duty!Init
    OBVIOUS
<1>1. \A o \in Orders : order[o] = NoRow
    BY DEF Init
<1>2. Carrier(NoRow) = None
    BY DEF Carrier, NoRow, Assigned
<1> QED
    BY <1>1, <1>2 DEF Init, Duty!Init

\* Ride orders implement the duty towards their drivers, whoever moves them.
THEOREM RideKeepsDuty == Spec => KeepsDuty
<1>1. IndInv /\ [Next]_vars => [Duty!Next]_(Duty!vars)
    BY NextStep DEF Good, IndInv, DutyStep
<1> QED
    BY InitDuty, RideInvariant, <1>1, PTL DEF Spec, KeepsDuty, Duty!Spec

=============================================================================
