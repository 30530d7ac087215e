--------------------------- MODULE SendOrder_proofs ---------------------------
(***************************************************************************)
(* The inductive invariant of send orders, and that they keep the promise  *)
(* about their money (EscrowPromise), for all values of the constants.     *)
(***************************************************************************)
EXTENDS SendOrder, TLAPS

\* A step of the promised order, or none.
PromiseStep == [Promise!Next]_(Promise!vars)

\* A step of a driver's duty, or none.
DutyStep == [Duty!Next]_(Duty!vars)

\* What every action of the system is shown to do.
Good == OrdersInv' /\ FinalKept /\ PromiseStep /\ DutyStep

\* A sum of legs and surcharges is an amount.
LEMMA TotalFareNat ==
    ASSUME NEW p \in Parcels
    PROVE  TotalFare(p) \in Nat
<1>1. /\ p.leg[1] \in Nat /\ p.leg[2] \in Nat /\ p.leg[3] \in Nat
      /\ p.weight \in Nat /\ p.value \in Nat
  <2>1. p \in Parcel
    BY ParcelsAssumption
  <2> QED
    BY <2>1 DEF Parcel, StopNumbers, MaxStops
<1>2. Distance(p) \in Nat
    BY <1>1 DEF Distance
<1>3. WeightSurcharge(p) \in Nat
    BY <1>1 DEF WeightSurcharge
<1>4. InsuranceFee(p) \in Nat
    BY <1>1 DEF InsuranceFee, RoundDiv
<1> QED
    BY <1>2, <1>3, <1>4 DEF TotalFare

\* Rounding adds at most half a unit.
LEMMA RoundedUp ==
    ASSUME NEW a \in Nat, NEW b \in Nat, b > 0
    PROVE  /\ RoundDiv(a, b) \in Nat
           /\ 2 * (b * RoundDiv(a, b)) <= 2 * a + b
<1> DEFINE h == b \div 2
           q == (a + h) \div b
<1>1. h \in Nat /\ 2 * h <= b
    OBVIOUS
<1>2. q \in Nat /\ b * q <= a + h
    BY <1>1
<1> QED
    BY <1>1, <1>2 DEF RoundDiv

\* So is a part of the fare, by whichever of its two roundings.
LEMMA PartRounded ==
    ASSUME NEW t \in Nat, NEW a \in Nat, NEW d \in Nat, d > 0
    PROVE  /\ Part(t, a, d) \in Nat
           /\ 2 * (d * Part(t, a, d)) <= 2 * (t * a) + d
<1> DEFINE x == t * a
           f == x \div d
<1>1. x \in Nat
    OBVIOUS
<1>2. RoundDiv(x, d) \in Nat /\ 2 * (d * RoundDiv(x, d)) <= 2 * x + d
    BY <1>1, RoundedUp
<1>3. f \in Nat /\ d * f <= x
    <2> HIDE DEF x
    <2> QED
      BY <1>1
<1>4. Part(t, a, d) \in {f, RoundDiv(x, d)}
    BY DEF Part
<1> HIDE DEF x, f
<1>5. d * f \in Nat
    BY <1>3
<1> QED
    BY <1>1, <1>2, <1>3, <1>4, <1>5 DEF x

\* A whole number of shares that does not reach t + 1 is at most t.
LEMMA AtMost ==
    ASSUME NEW q \in Nat, NEW t \in Nat, NEW d \in Nat, d > 0, d * q < d * (t + 1)
    PROVE  q <= t
<1>1. SUFFICES ASSUME q >= t + 1 PROVE FALSE
    OBVIOUS
<1>2. PICK k \in Nat : q = t + 1 + k
    BY <1>1
<1>3. d * q = d * (t + 1) + d * k
    BY <1>2
<1>4. d * k \in Nat
    BY <1>2
<1>5. d * q \in Nat /\ d * (t + 1) \in Nat
    OBVIOUS
<1> QED
    BY <1>3, <1>4, <1>5

\* The rounded share of one leg of a way of a + r is no more than the fare.
LEMMA OneShare ==
    ASSUME NEW t \in Nat, NEW a \in Nat, NEW r \in Nat, NEW d \in Nat,
           d = a + r, d > 0
    PROVE  Part(t, a, d) \in 0..t
<1> DEFINE q == Part(t, a, d)
<1>1. d \in Nat /\ d > 0 /\ t * a \in Nat /\ t * r \in Nat
    OBVIOUS
<1>2. q \in Nat /\ 2 * (d * q) <= 2 * (t * a) + d
    BY <1>1, PartRounded
<1>3. d * (t + 1) = t * a + t * r + d
    OBVIOUS
<1>4. d * q \in Nat
    BY <1>1, <1>2
<1>5. d * q < d * (t + 1)
    BY <1>1, <1>2, <1>3, <1>4
<1>6. q <= t
    BY <1>1, <1>2, <1>5, AtMost
<1> QED
    BY <1>2, <1>6

\* Two rounded shares together exceed the fare by one hundredth at most.
LEMMA TwoShares ==
    ASSUME NEW t \in Nat, NEW a \in Nat, NEW b \in Nat, NEW r \in Nat, NEW d \in Nat,
           d = a + b + r, d > 0
    PROVE  Part(t, a, d) + Part(t, b, d) \in 0..(t + 1)
<1> DEFINE q1 == Part(t, a, d)
           q2 == Part(t, b, d)
<1>1. d \in Nat /\ d > 0 /\ t * a \in Nat /\ t * b \in Nat /\ t * r \in Nat
    OBVIOUS
<1>2. q1 \in Nat /\ 2 * (d * q1) <= 2 * (t * a) + d
    BY <1>1, PartRounded
<1>3. q2 \in Nat /\ 2 * (d * q2) <= 2 * (t * b) + d
    BY <1>1, PartRounded
<1>4. d * (q1 + q2) = d * q1 + d * q2
    BY <1>1, <1>2, <1>3
<1>5. d * (t + 1 + 1) = t * a + t * b + t * r + d + d
    OBVIOUS
<1>6. d * q1 \in Nat /\ d * q2 \in Nat
    BY <1>1, <1>2, <1>3
<1>7. d * (q1 + q2) < d * (t + 1 + 1)
    BY <1>1, <1>2, <1>3, <1>4, <1>5, <1>6
<1>8. q1 + q2 \in Nat /\ t + 1 \in Nat
    BY <1>2, <1>3
<1>9. q1 + q2 <= t + 1
    BY <1>1, <1>7, <1>8, AtMost
<1> QED
    BY <1>8, <1>9

\* What allocateFares makes of any parcel.
LEMMA SharesClose ==
    ASSUME NEW p \in Parcels
    PROVE  Close(p)
<1> DEFINE t == TotalFare(p)
           a == p.leg[1]
           b == p.leg[2]
           c == p.leg[3]
           d == Distance(p)
           q(k) == Part(t, p.leg[k], d)
<1>1. /\ a \in Nat /\ b \in Nat /\ c \in Nat
      /\ p.n \in 1..3
      /\ p.n < 3 => c = 0
      /\ p.n < 2 => b = 0
  <2>1. p \in Parcel /\ \A i \in StopNumbers : i > p.n => p.leg[i] = 0
    BY ParcelsAssumption
  <2> QED
    BY <2>1 DEF Parcel, StopNumbers, MaxStops
<1>2. t \in Nat
    BY TotalFareNat
<1>3. d = a + b + c
    BY DEF Distance
<1>4. StopNumbers = {1, 2, 3}
    BY DEF StopNumbers, MaxStops
<1>5. CASE d = 0
    BY <1>1, <1>2, <1>4, <1>5 DEF Close, Share, Allotted
<1>6. CASE d # 0 /\ p.n = 1
    BY <1>1, <1>2, <1>4, <1>6 DEF Close, Share, Allotted
<1>7. CASE d # 0 /\ p.n = 2
  <2>1. q(1) \in 0..t
    <3>1. d \in Nat /\ d = a + b /\ d > 0
      BY <1>1, <1>3, <1>7
    <3> HIDE DEF t, a, b, c, d
    <3>2. Part(t, a, d) \in 0..t
      BY <1>1, <1>2, <3>1, OneShare
    <3> QED
      BY <3>2 DEF a
  <2>2. /\ Share(p, 1) = q(1)
        /\ Share(p, 2) = t - q(1)
        /\ Share(p, 3) = 0
    BY <1>1, <1>2, <1>7, <2>1 DEF Share
  <2> QED
    BY <1>2, <1>4, <2>1, <2>2 DEF Close, Allotted
<1>8. CASE d # 0 /\ p.n = 3
  <2>1. q(1) + q(2) \in 0..(t + 1)
    <3>1. d \in Nat /\ d > 0
      BY <1>1, <1>3, <1>8
    <3> HIDE DEF t, a, b, c, d
    <3>2. Part(t, a, d) + Part(t, b, d) \in 0..(t + 1)
      BY <1>1, <1>2, <1>3, <3>1, TwoShares
    <3> QED
      BY <3>2 DEF a, b
  <2>2. q(1) \in Nat /\ q(2) \in Nat
    <3>1. d \in Nat /\ d > 0
      BY <1>1, <1>3, <1>8
    <3> QED
      BY <1>1, <1>2, <3>1, PartRounded
  <2>3. /\ Share(p, 1) = q(1)
        /\ Share(p, 2) = q(2)
        /\ Share(p, 3) = IF t - (q(1) + q(2)) < 0 THEN 0 ELSE t - (q(1) + q(2))
    BY <1>1, <1>2, <1>8, <2>2 DEF Share
  <2> QED
    BY <1>2, <1>4, <1>8, <2>1, <2>2, <2>3 DEF Close, Allotted
<1> QED
    BY <1>1, <1>5, <1>6, <1>7, <1>8

\* The commission is a part of the fare, a tenth to within half a hundredth.
LEMMA CommissionBounds ==
    ASSUME NEW f \in Nat
    PROVE  /\ Commission(f) \in Nat
           /\ Commission(f) <= f
           /\ 10 * Commission(f) - f \in -5..5
BY DEF Commission, RoundDiv

\* Postings and their columns: Moved makes a total and reads back.
LEMMA MovedNet ==
    ASSUME NEW e \in Int, NEW c \in Int, NEW d \in Int, NEW p \in Int
    PROVE  /\ Moved(e, c, d, p) \in Net
           /\ Moved(e, c, d, p).escrow = e
           /\ Moved(e, c, d, p).customer = c
           /\ Moved(e, c, d, p).driver = d
           /\ Moved(e, c, d, p).platform = p
BY DEF Moved, Net

\* The running total of an order's entries stays a total.
LEMMA PlusNet ==
    ASSUME NEW m \in Net, NEW n \in Net
    PROVE  /\ Plus(m, n) \in Net
           /\ Plus(m, n).escrow = m.escrow + n.escrow
           /\ Plus(m, n).customer = m.customer + n.customer
           /\ Plus(m, n).driver = m.driver + n.driver
           /\ Plus(m, n).platform = m.platform + n.platform
BY DEF Plus, Net, Moved

\* Totals that agree on every wallet are equal.
LEMMA NetEqual ==
    ASSUME NEW m \in Net
    PROVE  m = Moved(m.escrow, m.customer, m.driver, m.platform)
BY DEF Net, Moved

\* The fare of an order that exists is an amount.
LEMMA FareNat ==
    ASSUME NEW row \in Row, row.parcel \in Parcels
    PROVE  Fare(row) \in Nat
BY TotalFareNat DEF Fare

\* What an order that is not settled has posted.
LEMMA LivePosted ==
    ASSUME OrdersInv, NEW o \in Orders, order[o].status # "SETTLED"
    PROVE  /\ order[o] \in Row
           /\ posted[o] \in Net
           /\ HeldFor(order[o]) \in Nat
           /\ posted[o].escrow = HeldFor(order[o])
           /\ posted[o].customer = -HeldFor(order[o])
           /\ posted[o].driver = 0
           /\ posted[o].platform = 0
<1>1. order[o] \in Row /\ posted[o] \in Net
    BY DEF OrdersInv, TypeOK
<1>2. HeldFor(order[o]) \in Nat
  <2>1. order[o].status \in Live => order[o].parcel \in Parcels
    BY DEF OrdersInv, RowsOK, Filled, Live, Carried
  <2> QED
    BY <1>1, <2>1, FareNat DEF HeldFor
<1>3. posted[o] = Moved(HeldFor(order[o]), -HeldFor(order[o]), 0, 0)
    BY DEF OrdersInv, LiveLedger
<1> QED
    BY <1>1, <1>2, <1>3, MovedNet

-----------------------------------------------------------------------------
(* The initial states *)

\* The empty system satisfies the inductive invariant.
LEMMA InitIndInv == Init => IndInv
<1> SUFFICES ASSUME Init PROVE IndInv
    OBVIOUS
<1>1. TypeOK
  <2>1. NoRow \in Row
    BY DEF Row, NoRow
  <2>2. Zero \in Net
    BY DEF Net, Zero, Moved
  <2>3. CustStart \subseteq Int /\ DrvStart \subseteq Int
    BY AmountsAssumption
  <2>4. [i \in StopNumbers |-> "PENDING"] \in [StopNumbers -> StopStatus]
    BY DEF StopStatus
  <2>5. stops \in [Orders -> [StopNumbers -> StopStatus]]
    BY <2>4 DEF Init
  <2> QED
    BY <2>1, <2>2, <2>3, <2>5 DEF Init, TypeOK
<1>2. \A o \in Orders : order[o] = NoRow /\ posted[o] = Zero
    BY DEF Init
<1>3. /\ NoRow.status = "NONE" /\ NoRow.driver = None /\ NoRow.settled = FALSE
      /\ NoRow.customer = None /\ NoRow.parcel = None
    BY DEF NoRow
<1>4. RowsOK
    BY <1>2, <1>3 DEF RowsOK, Filled, Carried
<1>6. HeldFor(NoRow) = 0
    BY <1>3 DEF HeldFor, Live, Carried
<1>7. LiveLedger /\ SettledSplit
    BY <1>2, <1>3, <1>6 DEF LiveLedger, SettledSplit, Zero
<1>8. ReadingOK
    BY DEF Init, ReadingOK
<1>9. DriverExclusive
    BY <1>2, <1>3 DEF Init, DriverExclusive, Carrying, Carried
<1>10. CustomerNotOverdrawn
  <2>1. \A c \in Customers : custBal[c] \in CustStart
    BY DEF Init
  <2>2. \A x \in CustStart : x \in Nat
    BY AmountsAssumption
  <2>3. \A x \in Nat : x >= 0
    OBVIOUS
  <2> QED
    BY <2>1, <2>2, <2>3 DEF CustomerNotOverdrawn
<1> QED
    BY <1>1, <1>4, <1>7, <1>8, <1>9, <1>10 DEF IndInv, OrdersInv

-----------------------------------------------------------------------------
(* What the helpers of the actions do to the state *)

\* Posting keeps the types and moves only the two wallets it names.
LEMMA PostEffect ==
    ASSUME TypeOK, NEW o \in Orders, NEW c, NEW d, NEW n \in Net, Post(o, c, d, n)
    PROVE  /\ posted' \in [Orders -> Net]
           /\ posted' = [posted EXCEPT ![o] = Plus(posted[o], n)]
           /\ custBal' \in [Customers -> Int]
           /\ drvBal' \in [Drivers -> Int]
           /\ \A x \in Customers :
                 custBal'[x] = IF x = c THEN custBal[x] + n.customer ELSE custBal[x]
<1>1. Plus(posted[o], n) \in Net
    BY PlusNet DEF TypeOK
<1>2. n.customer \in Int /\ n.driver \in Int
    BY DEF Net
<1> QED
    BY <1>1, <1>2 DEF Post, TypeOK

\* Freeing a driver (DriverIdle) keeps the type of working_status.
LEMMA ResetEffect ==
    ASSUME TypeOK, NEW d, DriverIdle(d)
    PROVE  /\ drvWork' \in [Drivers -> {"IDLE", "BUSY"}]
           /\ \A x \in Drivers : drvWork'[x] = IF x = d THEN "IDLE" ELSE drvWork[x]
BY DEF DriverIdle, TypeOK

\* Ending a request keeps the type of the requests in flight and the readings
\* of the others.
LEMMA DoneEffect ==
    ASSUME TypeOK, NEW r \in Requests, Done(r)
    PROVE  /\ req' \in [Requests -> InFlight \cup {None}]
           /\ \A q \in Requests : req'[q] # None => req'[q] = req[q]
BY DEF Done, TypeOK

\* What a status change that got its lock knows.
LEMMA LockedFacts ==
    ASSUME OrdersInv, NEW r \in Requests, Locked(r, "patch")
    PROVE  /\ req[r] \in Patch
           /\ req[r].order \in Orders
           /\ order[req[r].order] \in Row
           /\ order[req[r].order].status \in Live
           /\ order[req[r].order].status = req[r].seen
           /\ req[r].actor \in Customers \cup Drivers
           /\ Asked(req[r])
           /\ req[r].actor \in Drivers =>
                  order[req[r].order].driver = req[r].actor
<1>1. req[r] \in InFlight \cup {None}
    BY DEF OrdersInv, TypeOK
<1>2. req[r] # None /\ req[r].op = "patch"
    BY DEF Locked
<1>3. req[r] \in Patch
    BY <1>1, <1>2 DEF InFlight, Posting, Accept, Report
<1>4. /\ req[r].order \in Orders
      /\ req[r].actor \in Customers \cup Drivers
      /\ req[r].seen \in Live
      /\ Asked(req[r])
    BY <1>3 DEF Patch
<1>5. order[req[r].order].status = req[r].seen
    BY DEF Locked
<1>6. order[req[r].order] \in Row
    BY <1>4 DEF OrdersInv, TypeOK
<1>7. req[r].actor \in Drivers => order[req[r].order].driver = req[r].actor
    BY <1>2 DEF OrdersInv, ReadingOK
<1> QED
    BY <1>3, <1>4, <1>5, <1>6, <1>7

\* What a stop report that got its lock knows.
LEMMA ReportFacts ==
    ASSUME OrdersInv, NEW r \in Requests, Locked(r, "stop")
    PROVE  /\ req[r] \in Report
           /\ req[r].order \in Orders
           /\ order[req[r].order] \in Row
           /\ order[req[r].order].status = req[r].seen
<1>1. req[r] \in InFlight \cup {None}
    BY DEF OrdersInv, TypeOK
<1>2. req[r] # None /\ req[r].op = "stop"
    BY DEF Locked
<1>3. req[r] \in Report
    BY <1>1, <1>2 DEF InFlight, Posting, Accept, Patch
<1>4. req[r].order \in Orders
    BY <1>3 DEF Report
<1> QED
    BY <1>3, <1>4 DEF Locked, OrdersInv, TypeOK

-----------------------------------------------------------------------------
(* Frames: what an action has to show of the row it changes *)

\* Actions that leave the orders and the balances alone.
LEMMA QuietStep ==
    ASSUME OrdersInv, TypeOK', ReadingOK',
           UNCHANGED <<order, custBal, drvBal, drvWork, posted>>
    PROVE  Good
<1>1. OrdersInv' /\ FinalKept
    BY DEF FinalKept, OrdersInv, RowsOK, LiveLedger, SettledSplit,
           CustomerNotOverdrawn
<1>2. UNCHANGED Promise!vars /\ UNCHANGED Duty!vars
    BY DEF Promise!vars, Duty!vars
<1> QED
    BY <1>1, <1>2 DEF Good, PromiseStep, DutyStep

\* One row and its entries change: the others keep what held of them, and so
\* do the readings that requests still hold.
LEMMA LedgerStep ==
    ASSUME OrdersInv, NEW o \in Orders, NEW row, NEW n,
           order' = [order EXCEPT ![o] = row],
           posted' = [posted EXCEPT ![o] = n],
           Filled(row),
           row.status # "NONE",
           row.status # "SETTLED" =>
               n = Moved(HeldFor(row), -HeldFor(row), 0, 0),
           row.status = "SETTLED" => Split(row, n),
           order[o].status \notin Final,
           order[o].driver # None => row.driver = order[o].driver,
           \A q \in Requests : req'[q] # None => req'[q] = req[q]
    PROVE  /\ FinalKept
           /\ RowsOK'
           /\ LiveLedger'
           /\ ReadingOK'
           /\ SettledSplit'
<1>1. \A p \in Orders : /\ order'[p] = IF p = o THEN row ELSE order[p]
                        /\ posted'[p] = IF p = o THEN n ELSE posted[p]
    BY DEF OrdersInv, TypeOK
<1>2. RowsOK /\ LiveLedger /\ ReadingOK /\ SettledSplit
    BY DEF OrdersInv
<1>3. RowsOK'
    BY <1>1, <1>2 DEF RowsOK
<1>5. LiveLedger'
    BY <1>1, <1>2 DEF LiveLedger
<1>6. SettledSplit'
    BY <1>1, <1>2 DEF SettledSplit
<1>7. FinalKept
    BY <1>1 DEF FinalKept
<1>8. ReadingOK'
  <2>1. \A p \in Orders :
            /\ order[p].driver # None => order'[p].driver = order[p].driver
            /\ order[p].status # "NONE" => order'[p].status # "NONE"
    BY <1>1
  <2>2. ASSUME NEW q \in Requests, req'[q] # None, req'[q].op = "patch",
               req'[q].actor \in Drivers
        PROVE  order'[req'[q].order].driver = req'[q].actor
    <3>1. req'[q] = req[q] /\ req[q] # None /\ req[q].op = "patch"
        BY <2>2
    <3>2. req[q].order \in Orders
        BY <3>1 DEF OrdersInv, TypeOK, InFlight, Posting, Accept, Patch, Report
    <3>3. order[req[q].order].driver = req[q].actor
        BY <1>2, <2>2, <3>1 DEF ReadingOK
    <3> QED
        BY <2>1, <2>2, <3>1, <3>2, <3>3, NamesAssumption
  <2>3. ASSUME NEW q \in Requests, req'[q] # None, req'[q].op = "stop"
        PROVE  /\ order'[req'[q].order].driver = req'[q].actor
               /\ order'[req'[q].order].status # "NONE"
    <3>1. req'[q] = req[q] /\ req[q] # None /\ req[q].op = "stop"
        BY <2>3
    <3>2. req[q].order \in Orders /\ req[q].actor \in Drivers
        BY <3>1 DEF OrdersInv, TypeOK, InFlight, Posting, Accept, Patch, Report
    <3>3. /\ order[req[q].order].driver = req[q].actor
          /\ order[req[q].order].status # "NONE"
        BY <1>2, <3>1 DEF ReadingOK
    <3> QED
        BY <2>1, <3>1, <3>2, <3>3, NamesAssumption
  <2> QED
    BY <2>2, <2>3 DEF ReadingOK
<1> QED
    BY <1>3, <1>5, <1>6, <1>7, <1>8

\* A row that is in nobody's hands before and after, or in the same driver's.
LEMMA SameCarrierStep ==
    ASSUME OrdersInv, NEW o \in Orders, NEW row,
           order' = [order EXCEPT ![o] = row],
           Carrier(row) = Carrier(order[o]),
           UNCHANGED drvWork
    PROVE  DutyStep
<1>1. \A p \in Orders : Carrier(order'[p]) = Carrier(order[p])
    BY DEF OrdersInv, TypeOK
<1>2. [p \in Orders |-> Carrier(order[p])]' = [p \in Orders |-> Carrier(order[p])]
    BY <1>1
<1> QED
    BY <1>2 DEF DutyStep, Duty!vars

\* An idle driver takes an order that is in nobody's hands.
LEMMA TakeStep ==
    ASSUME OrdersInv, NEW o \in Orders, NEW row, NEW d \in Drivers,
           order' = [order EXCEPT ![o] = row],
           Carrier(order[o]) = None,
           Carrier(row) = d,
           drvWork[d] = "IDLE",
           drvWork' = [drvWork EXCEPT ![d] = "BUSY"]
    PROVE  DutyStep
<1>1. \A p \in Orders : Carrier(order'[p]) = IF p = o THEN d ELSE Carrier(order[p])
    BY DEF OrdersInv, TypeOK
<1>2. [p \in Orders |-> Carrier(order[p])]' =
          [[p \in Orders |-> Carrier(order[p])] EXCEPT ![o] = d]
    BY <1>1
<1>3. Duty!Take(d, o)
    BY <1>2 DEF Duty!Take
<1> QED
    BY <1>3 DEF DutyStep, Duty!Next

\* An order ends and its driver, if it has one, is idle.
LEMMA EndStep ==
    ASSUME OrdersInv, NEW o \in Orders, NEW row,
           order' = [order EXCEPT ![o] = row],
           row.status \notin Carried,
           order[o].driver = None \/ Carrying(order[o]),
           drvWork' \in [Drivers -> {"IDLE", "BUSY"}],
           \A d \in Drivers :
              drvWork'[d] = IF d = order[o].driver THEN "IDLE" ELSE drvWork[d]
    PROVE  DutyStep
<1>1. Carrier(row) = None /\ Carrier(order[o]) = order[o].driver
    BY DEF Carrier, Carrying
<1>2. drvWork \in [Drivers -> {"IDLE", "BUSY"}]
    BY DEF OrdersInv, TypeOK
<1>3. CASE order[o].driver = None
  <2>1. drvWork' = drvWork
    BY <1>2, <1>3, NamesAssumption
  <2> QED
    BY <1>1, <1>3, <2>1, SameCarrierStep
<1>4. CASE order[o].driver # None
  <2>1. \A p \in Orders : Carrier(order'[p]) = IF p = o THEN None ELSE Carrier(order[p])
    BY <1>1 DEF OrdersInv, TypeOK
  <2>2. [p \in Orders |-> Carrier(order[p])]' =
            [[p \in Orders |-> Carrier(order[p])] EXCEPT ![o] = None]
    BY <2>1
  <2>3. drvWork' = [drvWork EXCEPT ![order[o].driver] = "IDLE"]
    BY <1>2
  <2>4. Duty!Release(o)
    BY <1>1, <1>4, <2>2, <2>3 DEF Duty!Release
  <2> QED
    BY <2>4 DEF DutyStep, Duty!Next
<1> QED
    BY <1>3, <1>4

\* A step that keeps the phase and the entries of its order is none of the
\* promise's business.
LEMMA SamePhaseStep ==
    ASSUME OrdersInv, NEW o \in Orders, NEW row,
           order' = [order EXCEPT ![o] = row],
           Phase(row) = Phase(order[o]),
           UNCHANGED posted
    PROVE  PromiseStep
<1>1. \A p \in Orders : Phase(order'[p]) = Phase(order[p])
    BY DEF OrdersInv, TypeOK
<1>2. [p \in Orders |-> Phase(order[p])]' = [p \in Orders |-> Phase(order[p])]
    BY <1>1
<1> QED
    BY <1>2 DEF PromiseStep, Promise!vars

\* A function changed at one point only.
LEMMA ExceptAt ==
    ASSUME NEW S, NEW f, NEW g, NEW o \in S, NEW x,
           f = [p \in S |-> f[p]], g = [p \in S |-> g[p]],
           \A p \in S : g[p] = IF p = o THEN x ELSE f[p]
    PROVE  g = [f EXCEPT ![o] = x]
OBVIOUS

\* The first posting of an order opens it, as the promise says.
LEMMA OpenStep ==
    ASSUME OrdersInv, NEW o \in Orders, NEW row, NEW n \in Net,
           order' = [order EXCEPT ![o] = row],
           posted' = [posted EXCEPT ![o] = n],
           order[o].status = "NONE",
           row.status \in Live,
           n.escrow >= 0, n.customer = -n.escrow,
           n.driver = 0, n.platform = 0
    PROVE  PromiseStep
<1>1. \A p \in Orders : /\ order'[p] = IF p = o THEN row ELSE order[p]
                        /\ posted'[p] = IF p = o THEN n ELSE posted[p]
    BY DEF OrdersInv, TypeOK
<1>2. Phase(order[o]) = "none" /\ Phase(row) = "open"
    BY DEF Phase, Live, Carried
<1>3. /\ posted[o].driver = 0 /\ posted[o].platform = 0
    BY LivePosted
<1>4. n.escrow \in Int
    BY DEF Net
<1>5. Promise!Open(o)
  <2>1. [p \in Orders |-> Phase(order[p])]' =
            [[p \in Orders |-> Phase(order[p])] EXCEPT ![o] = "open"]
    <3>1. \A p \in Orders :
              Phase(order'[p]) = IF p = o THEN "open" ELSE Phase(order[p])
      BY <1>1, <1>2
    <3> QED
      BY <3>1
  <2>2. [p \in Orders |-> posted[p].escrow]' =
            [[p \in Orders |-> posted[p].escrow] EXCEPT
                ![o] = [p \in Orders |-> posted[p].escrow]'[o]]
    <3> DEFINE f == [p \in Orders |-> posted[p].escrow]
    <3>1. /\ f = [p \in Orders |-> f[p]] /\ f' = [p \in Orders |-> f'[p]]
          /\ \A p \in Orders : f'[p] = IF p = o THEN f'[o] ELSE f[p]
      BY <1>1
    <3>2. f' = [f EXCEPT ![o] = f'[o]]
      <4> HIDE DEF f
      <4> QED
        BY <3>1, ExceptAt
    <3> QED
      BY <3>2
  <2>3. [p \in Orders |-> posted[p].customer]' =
            [[p \in Orders |-> posted[p].customer] EXCEPT
                ![o] = -[p \in Orders |-> posted[p].escrow]'[o]]
    <3>1. \A p \in Orders : posted'[p].customer =
              IF p = o THEN -(posted'[p].escrow) ELSE posted[p].customer
      BY <1>1
    <3> QED
      BY <3>1
  <2>4. [p \in Orders |-> posted[p].driver + posted[p].platform]' =
            [p \in Orders |-> posted[p].driver + posted[p].platform]
    <3>1. \A p \in Orders :
              posted'[p].driver + posted'[p].platform =
              posted[p].driver + posted[p].platform
      BY <1>1, <1>3
    <3> QED
      BY <3>1
  <2>5. [p \in Orders |-> posted[p].escrow]'[o] >= 0
    BY <1>1
  <2> QED
    BY <1>2, <2>1, <2>2, <2>3, <2>4, <2>5 DEF Promise!Open
<1> QED
    BY <1>5 DEF PromiseStep, Promise!Next

\* The last posting of an order closes it, as the promise says.
LEMMA CloseStep ==
    ASSUME OrdersInv, NEW o \in Orders, NEW row, NEW n \in Net,
           order' = [order EXCEPT ![o] = row],
           posted' = [posted EXCEPT ![o] = n],
           order[o].status \in Live,
           row.status \in Final,
           n.escrow = 0, n.customer <= 0,
           n.customer + n.driver + n.platform = 0
    PROVE  PromiseStep
<1>1. \A p \in Orders : /\ order'[p] = IF p = o THEN row ELSE order[p]
                        /\ posted'[p] = IF p = o THEN n ELSE posted[p]
    BY DEF OrdersInv, TypeOK
<1>2. Phase(order[o]) = "open" /\ Phase(row) = "closed"
    BY DEF Phase, Live, Carried, Final
<1>3. /\ n.driver + n.platform = -n.customer
    BY DEF Net
<1>4. Promise!Close(o)
  <2>1. [p \in Orders |-> Phase(order[p])]' =
            [[p \in Orders |-> Phase(order[p])] EXCEPT ![o] = "closed"]
    <3>1. \A p \in Orders :
              Phase(order'[p]) = IF p = o THEN "closed" ELSE Phase(order[p])
      BY <1>1, <1>2
    <3> QED
      BY <3>1
  <2>2. [p \in Orders |-> posted[p].escrow]' =
            [[p \in Orders |-> posted[p].escrow] EXCEPT ![o] = 0]
    <3>1. \A p \in Orders :
              posted'[p].escrow = IF p = o THEN 0 ELSE posted[p].escrow
      BY <1>1
    <3> QED
      BY <3>1
  <2>3. [p \in Orders |-> posted[p].customer]' =
            [[p \in Orders |-> posted[p].customer] EXCEPT
                ![o] = [p \in Orders |-> posted[p].customer]'[o]]
    <3> DEFINE f == [p \in Orders |-> posted[p].customer]
    <3>1. /\ f = [p \in Orders |-> f[p]] /\ f' = [p \in Orders |-> f'[p]]
          /\ \A p \in Orders : f'[p] = IF p = o THEN f'[o] ELSE f[p]
      BY <1>1
    <3>2. f' = [f EXCEPT ![o] = f'[o]]
      <4> HIDE DEF f
      <4> QED
        BY <3>1, ExceptAt
    <3> QED
      BY <3>2
  <2>4. [p \in Orders |-> posted[p].driver + posted[p].platform]' =
            [[p \in Orders |-> posted[p].driver + posted[p].platform]
                EXCEPT ![o] = -[p \in Orders |-> posted[p].customer]'[o]]
    <3> DEFINE f == [p \in Orders |-> posted[p].customer]
               g == [p \in Orders |->
                        posted[p].driver + posted[p].platform]
    <3>1. /\ g = [p \in Orders |-> g[p]] /\ g' = [p \in Orders |-> g'[p]]
          /\ \A p \in Orders : g'[p] = IF p = o THEN -(f'[o]) ELSE g[p]
      BY <1>1, <1>3
    <3>2. g' = [g EXCEPT ![o] = -(f'[o])]
      <4> HIDE DEF f, g
      <4> QED
        BY <3>1, ExceptAt
    <3> QED
      BY <3>2
  <2>5. [p \in Orders |-> posted[p].customer]'[o] <= 0
    BY <1>1
  <2> QED
    BY <1>2, <2>1, <2>2, <2>3, <2>4, <2>5 DEF Promise!Close
<1> QED
    BY <1>4 DEF PromiseStep, Promise!Next

-----------------------------------------------------------------------------

-----------------------------------------------------------------------------
(* The actions *)

\* A row that moves on within its life, with its money and its driver.
LEMMA ProgressStep ==
    ASSUME OrdersInv, NEW o \in Orders, NEW row \in Row,
           order' = [order EXCEPT ![o] = row],
           order[o].status \in Live,
           row.status \in Live,
           row.pay = order[o].pay, row.parcel = order[o].parcel,
           row.driver = order[o].driver,
           Filled(row),
           \/ Carrying(row) /\ Carrying(order[o])
           \/ ~Carrying(row) /\ ~Carrying(order[o]),
           req' \in [Requests -> InFlight \cup {None}],
           \A q \in Requests : req'[q] # None => req'[q] = req[q],
           UNCHANGED <<stops, custBal, drvBal, debt, drvStatus, drvWork, posted>>
    PROVE  Good
<1>1. TypeOK /\ TypeOK'
    BY DEF OrdersInv, TypeOK
<1>2. HeldFor(row) = HeldFor(order[o])
    BY DEF HeldFor, Fare
<1>3. /\ row.status \notin Final /\ row.status # "NONE"
      /\ order[o].status \notin Final
    BY DEF Final, Live, Carried
<1>4. /\ RowsOK' /\ LiveLedger' /\ ReadingOK'
      /\ SettledSplit' /\ FinalKept
  <2>1. posted' = [posted EXCEPT ![o] = posted[o]]
    BY <1>1 DEF TypeOK
  <2>2. posted[o] = Moved(HeldFor(row), -HeldFor(row), 0, 0)
    BY <1>2, <1>3 DEF OrdersInv, LiveLedger, Final
  <2>3. row.status # "SETTLED"
    BY <1>3 DEF Final
  <2> QED
    BY <1>3, <2>1, <2>2, <2>3, LedgerStep
<1>5. DutyStep
  <2>1. Carrier(row) = Carrier(order[o])
    BY DEF Carrier, Carrying
  <2> QED
    BY <2>1, SameCarrierStep
<1>6. CustomerNotOverdrawn'
    BY <1>1 DEF OrdersInv, CustomerNotOverdrawn, TypeOK
<1>7. PromiseStep
  <2>1. Phase(row) = Phase(order[o])
    BY DEF Phase, Live, Carried
  <2> QED
    BY <2>1, SamePhaseStep
<1> QED
    BY <1>1, <1>4, <1>5, <1>6, <1>7 DEF Good, OrdersInv

\* An order ends with a posting: what is left to show of an action that ends
\* one is that the posting fits the final status.
LEMMA FinishStep ==
    ASSUME OrdersInv, NEW o \in Orders, NEW row \in Row, NEW n \in Net,
           order[o].status \in Live,
           order' = [order EXCEPT ![o] = row],
           row.status \in Final,
           row.driver = order[o].driver,
           Filled(row),
           posted' = [posted EXCEPT ![o] = n],
           n.escrow = 0, n.customer <= 0,
           n.customer + n.driver + n.platform = 0,
           row.status = "CANCELLED" => n = Moved(0, 0, 0, 0),
           row.status = "SETTLED" => Split(row, n),
           order[o].driver = None \/ Carrying(order[o]),
           \A d \in Drivers :
              drvWork'[d] = IF d = order[o].driver THEN "IDLE" ELSE drvWork[d],
           \A x \in Customers : custBal'[x] >= 0,
           \A q \in Requests : req'[q] # None => req'[q] = req[q],
           TypeOK'
    PROVE  Good
<1>1. row.status \notin Live /\ row.status \notin Carried /\ row.status # "NONE"
    BY DEF Final, Live, Carried
<1>2. order[o].status \notin Final
    BY DEF Final, Live, Carried
<1>3. /\ RowsOK' /\ LiveLedger' /\ ReadingOK'
      /\ SettledSplit' /\ FinalKept
  <2>1. HeldFor(row) = 0
    BY <1>1 DEF HeldFor
  <2>2. row.status # "SETTLED" => n = Moved(HeldFor(row), -HeldFor(row), 0, 0)
    BY <2>1 DEF Final
  <2> QED
    BY <1>1, <1>2, <2>2, LedgerStep
<1>4. DutyStep
    BY <1>1, EndStep DEF TypeOK
<1>5. CustomerNotOverdrawn'
    BY DEF CustomerNotOverdrawn
<1>6. PromiseStep
    BY CloseStep
<1> QED
    BY <1>3, <1>4, <1>5, <1>6 DEF Good, OrdersInv

\* The readings of CreateSendOrder and AcceptSendOrder change nothing but the
\* request.
LEMMA GateStep ==
    ASSUME OrdersInv, NEW r \in Requests,
           \/ \E c \in Customers, p \in Parcels : CreateGate(r, c, p)
           \/ \E d \in Drivers, o \in Orders : AcceptGate(r, d, o)
    PROVE  Good
<1>1. PICK q \in Posting \cup Accept :
          /\ req' = [req EXCEPT ![r] = q]
          /\ q.op \in {"create", "accept"}
          /\ UNCHANGED <<order, stops, custBal, drvBal, debt, drvStatus, drvWork, posted>>
  <2>1. CASE \E c \in Customers, p \in Parcels : CreateGate(r, c, p)
    <3>1. PICK c \in Customers, p \in Parcels : CreateGate(r, c, p)
        BY <2>1
    <3>2. [op |-> "create", customer |-> c, parcel |-> p] \in Posting
        BY DEF Posting
    <3> QED
        BY <3>1, <3>2 DEF CreateGate
  <2>2. CASE \E d \in Drivers, o \in Orders : AcceptGate(r, d, o)
    <3>1. PICK d \in Drivers, o \in Orders : AcceptGate(r, d, o)
        BY <2>2
    <3>2. [op |-> "accept", driver |-> d, order |-> o] \in Accept
        BY DEF Accept
    <3> QED
        BY <3>1, <3>2 DEF AcceptGate
  <2> QED
    BY <2>1, <2>2
<1>2. TypeOK'
    BY <1>1 DEF OrdersInv, TypeOK, InFlight
<1>3. ReadingOK'
    BY <1>1 DEF OrdersInv, TypeOK, ReadingOK
<1> QED
    BY <1>1, <1>2, <1>3, QuietStep

\* validateSendTransition, applied to the row that was read, lets through what
\* Asked says.
LEMMA ReadOrderStep ==
    ASSUME OrdersInv, NEW r \in Requests, NEW o \in Orders,
           NEW actor \in Customers \cup Drivers,
           NEW target \in Targets, ReadOrder(r, o, actor, target)
    PROVE  Good
<1> DEFINE p == [op |-> "patch", order |-> o, actor |-> actor,
                 target |-> target, seen |-> order[o].status]
<1>1. /\ order[o].status \in Live
      /\ ValidTransition(order[o], actor, target)
      /\ req' = [req EXCEPT ![r] = p]
      /\ UNCHANGED <<order, stops, custBal, drvBal, debt, drvStatus, drvWork, posted>>
    BY DEF ReadOrder
<1>2. order[o] \in Row /\ Filled(order[o])
    BY DEF OrdersInv, TypeOK, RowsOK
<1>3. order[o].customer \in Customers
    BY <1>1, <1>2 DEF Filled, Live, Carried
<1>4. actor \in Drivers => order[o].driver = actor
    BY <1>1, <1>3, NamesAssumption DEF ValidTransition
<1>5. Asked(p)
  <2>1. CASE actor = order[o].customer /\ target = "CANCELLED"
             /\ order[o].status = "SEARCHING_DRIVER"
    BY <1>3, <2>1 DEF Asked
  <2>2. CASE actor = order[o].driver /\ <<order[o].status, target>> \in Carry
    <3>1. actor \in Drivers
        BY <1>2, <2>2, NamesAssumption DEF Row
    <3> QED
        BY <2>2, <3>1 DEF Asked
  <2>3. CASE actor = order[o].driver /\ target = "CANCELLED"
             /\ order[o].status \in Carried
    <3>1. actor \in Drivers
        BY <1>2, <2>3, NamesAssumption DEF Row
    <3> QED
        BY <2>3, <3>1 DEF Asked
  <2> QED
    BY <1>1, <2>1, <2>2, <2>3 DEF ValidTransition
<1>6. p \in Patch
    BY <1>1, <1>5 DEF Patch
<1>7. TypeOK'
    BY <1>1, <1>6 DEF OrdersInv, TypeOK, InFlight
<1>8. ReadingOK'
    BY <1>1, <1>4 DEF OrdersInv, TypeOK, ReadingOK
<1> QED
    BY <1>1, <1>7, <1>8, QuietStep

\* A stop report is read for the order's own driver.
LEMMA ReadStopStep ==
    ASSUME OrdersInv, NEW r \in Requests, NEW o \in Orders, NEW target \in StopTargets,
           NEW s \in Stop, ReadStop(r, o, target, s)
    PROVE  Good
<1> DEFINE p == [op |-> "stop", order |-> o, actor |-> order[o].driver,
                 target |-> target, seen |-> order[o].status, at |-> s]
<1>1. /\ order[o].status \in {"PICKED_UP", "IN_TRANSIT"}
      /\ req' = [req EXCEPT ![r] = p]
      /\ UNCHANGED <<order, stops, custBal, drvBal, debt, drvStatus, drvWork, posted>>
    BY DEF ReadStop
<1>2. order[o].driver \in Drivers
    BY <1>1 DEF OrdersInv, RowsOK, Filled, Carried
<1>3. p \in Report
    BY <1>1, <1>2 DEF Report
<1>4. TypeOK'
    BY <1>1, <1>3 DEF OrdersInv, TypeOK, InFlight
<1>5. ReadingOK'
    BY <1>1 DEF OrdersInv, TypeOK, ReadingOK
<1> QED
    BY <1>1, <1>4, <1>5, QuietStep

\* The transaction that creates an order opens it with its fare in escrow.
LEMMA CreateCommitStep ==
    ASSUME OrdersInv, NEW r \in Requests, NEW o \in Orders, NEW pay \in {"WALLET", "CASH"},
           CreateCommit(r, o, pay)
    PROVE  Good
<1> DEFINE c    == req[r].customer
           row  == [NoRow EXCEPT !.status = "SEARCHING_DRIVER", !.customer = c,
                                 !.pay = pay, !.parcel = req[r].parcel]
           hold == IF pay = "WALLET" THEN Fare(row) ELSE 0
           n    == Moved(hold, -hold, 0, 0)
<1>1. c \in Customers /\ req[r].parcel \in Parcels
  <2>1. req[r] \in Posting
    BY DEF CreateCommit, OrdersInv, TypeOK, InFlight, Accept, Patch, Report
  <2> QED
    BY <2>1 DEF Posting
<1>2. /\ row \in Row
      /\ row.status = "SEARCHING_DRIVER"
      /\ row.customer = c /\ row.pay = pay /\ row.driver = None
      /\ row.parcel \in Parcels /\ row.settled = FALSE
    BY <1>1 DEF NoRow, Row, Live
<1>3. /\ order[o].status = "NONE"
      /\ hold <= custBal[c]
      /\ order' = [order EXCEPT ![o] = row]
      /\ Post(o, c, None, n)
      /\ Done(r)
      /\ UNCHANGED <<stops, debt, drvStatus, drvWork>>
    BY DEF CreateCommit
<1> HIDE DEF c, row
<1>4. /\ row.status \in Live
      /\ hold \in Nat /\ hold = HeldFor(row)
    BY <1>2, FareNat DEF HeldFor, Live
<1> HIDE DEF hold
<1>5. /\ n \in Net /\ n.escrow = hold /\ n.customer = -hold
      /\ n.driver = 0 /\ n.platform = 0
    BY <1>4, MovedNet
<1>6. TypeOK
    BY DEF OrdersInv
<1>7. posted[o] = Moved(0, 0, 0, 0)
    BY <1>3 DEF OrdersInv, LiveLedger, HeldFor, Live, Carried
<1>8. Plus(posted[o], n) = n
    BY <1>4, <1>7 DEF Plus, Moved
<1> HIDE DEF n
<1>9. TypeOK'
  <2>1. order' \in [Orders -> Row]
    BY <1>2, <1>3, <1>6 DEF TypeOK
  <2> QED
    BY <2>1, <1>3, <1>5, <1>6, PostEffect, DoneEffect DEF TypeOK
<1>10. posted' = [posted EXCEPT ![o] = n]
    BY <1>3, <1>5, <1>6, <1>8, PostEffect
<1>11. \A q \in Requests : req'[q] # None => req'[q] = req[q]
    BY <1>3, <1>6, DoneEffect
<1>12. /\ RowsOK' /\ LiveLedger' /\ ReadingOK' /\ SettledSplit' /\ FinalKept
  <2>1. Filled(row) /\ row.status # "SETTLED" /\ row.status # "NONE"
    BY <1>1, <1>2 DEF Filled, Carried
  <2>2. n = Moved(HeldFor(row), -HeldFor(row), 0, 0)
    BY <1>4 DEF n
  <2>3. order[o].status \notin Final /\ order[o].driver = None
    BY <1>3 DEF Final, OrdersInv, RowsOK, Filled
  <2> QED
    BY <1>3, <1>10, <1>11, <2>1, <2>2, <2>3, LedgerStep
<1>13. DutyStep
  <2>1. Carrier(row) = None /\ Carrier(order[o]) = None
    BY <1>2, <1>3 DEF Carrier, Carried
  <2> QED
    BY <1>3, <2>1, SameCarrierStep
<1>14. CustomerNotOverdrawn'
  <2>1. \A x \in Customers : custBal'[x] = IF x = c THEN custBal[x] - hold ELSE custBal[x]
    BY <1>3, <1>4, <1>5, <1>6, PostEffect DEF TypeOK
  <2> QED
    BY <1>3, <1>4, <1>6, <2>1 DEF OrdersInv, CustomerNotOverdrawn, TypeOK
<1>15. PromiseStep
  <2>1. n.escrow >= 0 /\ n.customer = -n.escrow
    BY <1>4, <1>5
  <2> QED
    BY <1>3, <1>4, <1>5, <1>10, <2>1, OpenStep
<1> QED
    BY <1>9, <1>12, <1>13, <1>14, <1>15 DEF Good, OrdersInv

\* Acceptance ties a driver who is still idle to an order that still searches.
LEMMA AcceptCommitStep ==
    ASSUME OrdersInv, NEW r \in Requests, AcceptCommit(r)
    PROVE  Good
<1> DEFINE d   == req[r].driver
           o   == req[r].order
           row == [order[o] EXCEPT !.driver = d, !.status = "DRIVER_ASSIGNED"]
<1>1. TypeOK
    BY DEF OrdersInv
<1>2. d \in Drivers /\ o \in Orders
  <2>1. req[r] \in Accept
    BY DEF AcceptCommit, OrdersInv, TypeOK, InFlight, Posting, Patch, Report
  <2> QED
    BY <2>1 DEF Accept
<1>3. /\ drvWork[d] = "IDLE"
      /\ order[o].status = "SEARCHING_DRIVER" /\ order[o].driver = None
      /\ order' = [order EXCEPT ![o] = row]
      /\ drvWork' = [drvWork EXCEPT ![d] = "BUSY"]
      /\ Done(r)
      /\ UNCHANGED <<stops, custBal, drvBal, debt, drvStatus, posted>>
    BY DEF AcceptCommit, StillFree
<1>4. order[o] \in Row /\ Filled(order[o])
    BY <1>1, <1>2 DEF TypeOK, OrdersInv, RowsOK
<1>5. /\ row \in Row
      /\ row.status = "DRIVER_ASSIGNED" /\ row.driver = d
      /\ row.customer = order[o].customer /\ row.settled = order[o].settled
      /\ row.pay = order[o].pay /\ row.parcel = order[o].parcel
    BY <1>2, <1>4 DEF Row, Live, Carried
<1> HIDE DEF row, d, o
<1>6. TypeOK'
    BY <1>1, <1>2, <1>3, <1>5, DoneEffect DEF TypeOK
<1>7. HeldFor(row) = HeldFor(order[o])
    BY <1>3, <1>5 DEF HeldFor, Fare, Live, Carried
<1>8. /\ RowsOK' /\ LiveLedger' /\ ReadingOK' /\ SettledSplit' /\ FinalKept
  <2>1. Filled(row)
    BY <1>2, <1>3, <1>4, <1>5 DEF Filled
  <2>2. posted' = [posted EXCEPT ![o] = posted[o]]
    BY <1>1, <1>3 DEF TypeOK
  <2>3. posted[o] = Moved(HeldFor(row), -HeldFor(row), 0, 0)
    BY <1>2, <1>3, <1>7 DEF OrdersInv, LiveLedger
  <2>4. \A q \in Requests : req'[q] # None => req'[q] = req[q]
    BY <1>1, <1>3, DoneEffect
  <2>5. row.status # "SETTLED" /\ row.status # "NONE" /\ order[o].status \notin Final
    BY <1>3, <1>5 DEF Final
  <2> QED
    BY <1>2, <1>3, <2>1, <2>2, <2>3, <2>4, <2>5, LedgerStep
<1>9. DutyStep
  <2>1. Carrier(order[o]) = None /\ Carrier(row) = d
    BY <1>3, <1>5 DEF Carrier, Carried
  <2> QED
    BY <1>2, <1>3, <2>1, TakeStep
<1>10. CustomerNotOverdrawn'
    BY <1>1, <1>3 DEF OrdersInv, CustomerNotOverdrawn, TypeOK
<1>11. PromiseStep
  <2>1. Phase(row) = Phase(order[o])
    BY <1>3, <1>5 DEF Phase, Live, Carried
  <2> QED
    BY <1>2, <1>3, <2>1, SamePhaseStep
<1> QED
    BY <1>6, <1>8, <1>9, <1>10, <1>11 DEF Good, OrdersInv

\* The driver's steps keep the order in its driver's hands.
LEMMA MoveOnStep ==
    ASSUME OrdersInv, NEW r \in Requests, MoveOn(r)
    PROVE  Good
<1> DEFINE o   == req[r].order
           row == [order[o] EXCEPT !.status = req[r].target]
<1>1. /\ Locked(r, "patch") /\ Done(r)
      /\ req[r].target \in {"PICKED_UP", "IN_TRANSIT"}
    BY DEF MoveOn
<1>2. /\ o \in Orders /\ order[o] \in Row /\ order[o].status \in Live
      /\ order[o].status = req[r].seen
      /\ Asked(req[r])
    BY <1>1, LockedFacts
<1>3. Filled(order[o]) /\ TypeOK
    BY <1>2 DEF OrdersInv, RowsOK
<1>4. order[o].status \in {"DRIVER_ASSIGNED", "PICKED_UP"}
    BY <1>1, <1>2 DEF Asked, Carry
<1>5. order[o].driver \in Drivers /\ order[o].driver # None
    BY <1>3, <1>4, NamesAssumption DEF Filled, Carried
<1>6. /\ row \in Row
      /\ row.status = req[r].target /\ row.driver = order[o].driver
      /\ row.customer = order[o].customer
      /\ row.pay = order[o].pay /\ row.parcel = order[o].parcel
      /\ row.settled = order[o].settled
    BY <1>1, <1>2 DEF Row, Live, Carried
<1>7. /\ order' = [order EXCEPT ![o] = row]
      /\ UNCHANGED <<stops, custBal, drvBal, debt, drvStatus, drvWork, posted>>
    BY DEF MoveOn
<1> HIDE DEF row, o
<1>8. row.status \in Live
    BY <1>1, <1>6 DEF Live, Carried
<1>9. Filled(row)
    BY <1>1, <1>3, <1>4, <1>5, <1>6 DEF Filled
<1>10. Carrying(row) /\ Carrying(order[o])
    BY <1>1, <1>4, <1>5, <1>6 DEF Carrying, Carried
<1>11. /\ req' \in [Requests -> InFlight \cup {None}]
       /\ \A q \in Requests : req'[q] # None => req'[q] = req[q]
    BY <1>1, <1>3, DoneEffect
<1> QED
    BY <1>2, <1>6, <1>7, <1>8, <1>9, <1>10, <1>11, ProgressStep

\* The mark that time has passed changes nothing else.
LEMMA GoOverdueStep ==
    ASSUME OrdersInv, NEW o \in Orders, GoOverdue(o)
    PROVE  Good
<1> DEFINE row == [order[o] EXCEPT !.overdue = TRUE]
<1>1. /\ order[o] \in Row /\ Filled(order[o])
      /\ req \in [Requests -> InFlight \cup {None}]
    BY DEF OrdersInv, TypeOK, RowsOK
<1>2. /\ row \in Row
      /\ row.status = order[o].status /\ row.driver = order[o].driver
      /\ row.customer = order[o].customer
      /\ row.pay = order[o].pay /\ row.parcel = order[o].parcel
      /\ row.settled = order[o].settled
    BY <1>1 DEF Row
<1>3. /\ order' = [order EXCEPT ![o] = row]
      /\ order[o].status \in Live
      /\ UNCHANGED <<stops, custBal, drvBal, debt, drvStatus, drvWork, posted, req>>
    BY DEF GoOverdue, Live
<1> HIDE DEF row
<1>4. Filled(row)
    BY <1>1, <1>2 DEF Filled
<1>5. Carrying(row) <=> Carrying(order[o])
    BY <1>2 DEF Carrying
<1> QED
    BY <1>1, <1>2, <1>3, <1>4, <1>5, ProgressStep

\* A cancelled order gives back what was held: shared by the cancellations of
\* the parties and of the worker.
LEMMA CancelledStep ==
    ASSUME OrdersInv, NEW o \in Orders, NEW row \in Row, NEW back,
           order[o].status \in Live,
           order' = [order EXCEPT ![o] = row],
           row.status = "CANCELLED",
           row.driver = order[o].driver, row.parcel = order[o].parcel,
           row.customer = order[o].customer,
           row.settled = order[o].settled,
           back = IF Refundable(order[o]) THEN Fare(order[o]) ELSE 0,
           Post(o, order[o].customer, None, Moved(-back, back, 0, 0)),
           \A d \in Drivers :
              drvWork'[d] = IF d = order[o].driver THEN "IDLE" ELSE drvWork[d],
           \A q \in Requests : req'[q] # None => req'[q] = req[q],
           drvWork' \in [Drivers -> {"IDLE", "BUSY"}],
           req' \in [Requests -> InFlight \cup {None}],
           UNCHANGED <<stops, debt, drvStatus>>
    PROVE  Good
<1> DEFINE n == Moved(-back, back, 0, 0)
           z == Moved(0, 0, 0, 0)
<1>1. TypeOK /\ order[o] \in Row /\ Filled(order[o])
    BY DEF OrdersInv, TypeOK, RowsOK
<1>2. order[o].status \notin {"NONE", "SETTLED", "CANCELLED"}
    BY DEF Live, Carried
<1>3. ~order[o].settled /\ order[o].parcel \in Parcels
    BY <1>1, <1>2 DEF Filled
<1>4. back = HeldFor(order[o]) /\ back \in Nat
    BY <1>1, <1>2, <1>3, FareNat DEF Refundable, HeldFor
<1>5. n \in Net /\ n.customer = back
    BY <1>4, MovedNet
<1>6. Plus(posted[o], n) = z
  <2>1. posted[o] = Moved(back, -back, 0, 0)
    BY <1>2, <1>4 DEF OrdersInv, LiveLedger
  <2> QED
    BY <1>4, <2>1 DEF Plus, Moved
<1>7. z \in Net /\ z.escrow = 0 /\ z.customer = 0 /\ z.driver = 0 /\ z.platform = 0
    BY DEF z, Moved, Net
<1> HIDE DEF n, z
<1>8. /\ posted' = [posted EXCEPT ![o] = z]
      /\ posted' \in [Orders -> Net]
      /\ custBal' \in [Customers -> Int] /\ drvBal' \in [Drivers -> Int]
      /\ \A x \in Customers :
            custBal'[x] = IF x = order[o].customer THEN custBal[x] + back ELSE custBal[x]
    BY <1>1, <1>5, <1>6, PostEffect DEF n
<1>9. TypeOK'
    BY <1>1, <1>8 DEF TypeOK
<1>10. \A x \in Customers : custBal'[x] >= 0
    BY <1>1, <1>4, <1>8 DEF OrdersInv, CustomerNotOverdrawn, TypeOK
<1>11. Filled(row)
    BY <1>1, <1>2, <1>3 DEF Filled, Carried
<1>12. row.status \in Final /\ row.status # "SETTLED"
    BY DEF Final
<1>13. z = Moved(0, 0, 0, 0)
    BY DEF z
<1>14. z.customer <= 0 /\ z.customer + z.driver + z.platform = 0
    BY <1>7
<1>15. order[o].driver = None \/ Carrying(order[o])
    BY <1>1 DEF Filled, Carrying, Live
<1> QED
    BY <1>7, <1>8, <1>9, <1>10, <1>11, <1>12, <1>13, <1>14, <1>15, FinishStep

\* A cancellation by the sender or the driver.
LEMMA CancelOrderStep ==
    ASSUME OrdersInv, NEW r \in Requests, CancelOrder(r)
    PROVE  Good
<1> DEFINE o    == req[r].order
           old  == order[o]
           back == IF Refundable(old) THEN Fare(old) ELSE 0
           row  == [order[o] EXCEPT !.status = "CANCELLED"]
<1>1. /\ Locked(r, "patch") /\ Done(r)
      /\ order' = [order EXCEPT ![o] = row]
      /\ Post(o, old.customer, None, Moved(-back, back, 0, 0))
      /\ DriverIdle(old.driver)
      /\ UNCHANGED <<stops, debt, drvStatus>>
    BY DEF CancelOrder
<1>2. o \in Orders /\ old \in Row /\ old.status \in Live
    BY <1>1, LockedFacts
<1>3. TypeOK
    BY DEF OrdersInv
<1>4. /\ row \in Row /\ row.status = "CANCELLED"
      /\ row.driver = old.driver /\ row.parcel = old.parcel
      /\ row.customer = old.customer /\ row.settled = old.settled
    BY <1>2 DEF Row, Final
<1>5. /\ drvWork' \in [Drivers -> {"IDLE", "BUSY"}]
      /\ \A d \in Drivers : drvWork'[d] = IF d = old.driver THEN "IDLE" ELSE drvWork[d]
    BY <1>1, <1>3, ResetEffect
<1>6. /\ req' \in [Requests -> InFlight \cup {None}]
      /\ \A q \in Requests : req'[q] # None => req'[q] = req[q]
    BY <1>1, <1>3, DoneEffect
<1> HIDE DEF o, row, back
<1>7. back = IF Refundable(old) THEN Fare(old) ELSE 0
    BY DEF back
<1> QED
    BY <1>1, <1>2, <1>4, <1>5, <1>6, <1>7, CancelledStep

\* A cancellation by the worker: no driver has the order yet.
LEMMA AutoCancelStep ==
    ASSUME OrdersInv, NEW o \in Orders, AutoCancel(o)
    PROVE  Good
<1> DEFINE old  == order[o]
           back == IF Refundable(old) THEN Fare(old) ELSE 0
           row  == [order[o] EXCEPT !.status = "CANCELLED"]
<1>1. /\ old.status = "SEARCHING_DRIVER"
      /\ order' = [order EXCEPT ![o] = row]
      /\ Post(o, old.customer, None, Moved(-back, back, 0, 0))
      /\ UNCHANGED <<stops, debt, drvStatus, drvWork, req>>
    BY DEF AutoCancel, Sweepable
<1>2. TypeOK /\ old \in Row /\ Filled(old)
    BY DEF OrdersInv, TypeOK, RowsOK
<1>3. /\ row \in Row /\ row.status = "CANCELLED"
      /\ row.driver = old.driver /\ row.parcel = old.parcel
      /\ row.customer = old.customer /\ row.settled = old.settled
    BY <1>2 DEF Row, Final
<1>4. old.driver = None /\ old.status \in Live
    BY <1>1, <1>2 DEF Filled, Live
<1>5. /\ drvWork' \in [Drivers -> {"IDLE", "BUSY"}]
      /\ \A d \in Drivers : drvWork'[d] = IF d = old.driver THEN "IDLE" ELSE drvWork[d]
    BY <1>1, <1>2, <1>4, NamesAssumption DEF TypeOK
<1>6. /\ req' \in [Requests -> InFlight \cup {None}]
      /\ \A q \in Requests : req'[q] # None => req'[q] = req[q]
    BY <1>1, <1>2 DEF TypeOK
<1> HIDE DEF row, back
<1>7. back = IF Refundable(old) THEN Fare(old) ELSE 0
    BY DEF back
<1> QED
    BY <1>1, <1>3, <1>4, <1>5, <1>6, <1>7, CancelledStep

\* What settling by either way of paying does to an order's entries.
LEMMA SettlementNet ==
    ASSUME NEW row \in Row, row.parcel \in Parcels, row.status = "IN_TRANSIT",
           NEW old \in Net,
           old.escrow = HeldFor(row), old.customer = -HeldFor(row),
           old.driver = 0, old.platform = 0,
           NEW n,
           n = IF row.pay = "WALLET" THEN WalletSettlement(Fare(row))
               ELSE CashSettlement(Fare(row))
    PROVE  /\ n \in Net /\ n.customer = 0
           /\ Plus(old, n) \in Net
           /\ Plus(old, n).escrow = 0
           /\ Plus(old, n).customer <= 0
           /\ Plus(old, n).customer + Plus(old, n).driver + Plus(old, n).platform = 0
           /\ Split(row, Plus(old, n))
<1> DEFINE fare == Fare(row)
           cut  == Commission(fare)
           m    == Plus(old, n)
<1>1. fare \in Nat
    BY FareNat
<1>2. cut \in Nat /\ cut <= fare /\ 10 * cut - fare \in -5..5
    BY <1>1, CommissionBounds
<1>3. row.pay \in {"WALLET", "CASH"}
    BY DEF Row
<1>4. CASE row.pay = "WALLET"
  <2>1. n = Moved(-fare, 0, fare - cut, cut)
    BY <1>4 DEF WalletSettlement
  <2>2. HeldFor(row) = fare
    BY <1>4 DEF HeldFor, Live, Carried
  <2> HIDE DEF fare, cut
  <2>3. /\ n \in Net /\ n.escrow = -fare /\ n.customer = 0
        /\ n.driver = fare - cut /\ n.platform = cut
    BY <1>1, <1>2, <2>1 DEF Moved, Net
  <2>4. /\ m \in Net
        /\ m.escrow = old.escrow + n.escrow
        /\ m.customer = old.customer + n.customer
        /\ m.driver = old.driver + n.driver
        /\ m.platform = old.platform + n.platform
    BY <2>3, PlusNet
  <2> HIDE DEF m
  <2>5. /\ m.escrow = 0 /\ m.customer = -fare
        /\ m.driver = fare - cut /\ m.platform = cut
    BY <1>1, <1>2, <2>2, <2>3, <2>4
  <2>6. /\ m.customer <= 0 /\ m.customer + m.driver + m.platform = 0
        /\ m.driver + m.platform = fare
    BY <1>1, <1>2, <2>5
  <2>7. Split(row, m)
    BY <1>2, <1>4, <2>5, <2>6 DEF Split, fare
  <2> QED
    BY <2>3, <2>4, <2>5, <2>6, <2>7 DEF m
<1>5. CASE row.pay = "CASH"
  <2>1. n = Moved(0, 0, -cut, cut)
    BY <1>5 DEF CashSettlement
  <2>2. HeldFor(row) = 0
    BY <1>5 DEF HeldFor
  <2> HIDE DEF fare, cut
  <2>3. /\ n \in Net /\ n.escrow = 0 /\ n.customer = 0
        /\ n.driver = -cut /\ n.platform = cut
    BY <1>1, <1>2, <2>1 DEF Moved, Net
  <2>4. /\ m \in Net
        /\ m.escrow = old.escrow + n.escrow
        /\ m.customer = old.customer + n.customer
        /\ m.driver = old.driver + n.driver
        /\ m.platform = old.platform + n.platform
    BY <2>3, PlusNet
  <2> HIDE DEF m
  <2>5. m.escrow = 0 /\ m.customer = 0 /\ m.driver = -cut /\ m.platform = cut
    BY <1>1, <1>2, <2>2, <2>3, <2>4
  <2>6. /\ m.customer <= 0 /\ m.customer + m.driver + m.platform = 0
        /\ m.driver = -m.platform
    BY <1>1, <1>2, <2>5
  <2>7. Split(row, m)
    BY <1>2, <1>5, <2>5, <2>6 DEF Split, fare
  <2> QED
    BY <2>3, <2>4, <2>5, <2>6, <2>7 DEF m
<1> QED
    BY <1>3, <1>4, <1>5

\* Settlement, by whichever endpoint, empties the escrow, splits the fare and
\* frees the driver.
LEMMA SettleStep ==
    ASSUME OrdersInv, NEW r \in Requests, NEW o \in Orders, Settle(o), Done(r),
           stops' \in [Orders -> [StopNumbers -> StopStatus]],
           UNCHANGED debt
    PROVE  Good
<1> DEFINE old  == order[o]
           n    == IF old.pay = "WALLET" THEN WalletSettlement(Fare(old))
                   ELSE CashSettlement(Fare(old))
           row  == [order[o] EXCEPT !.status = "SETTLED", !.settled = TRUE]
           m    == Plus(posted[o], n)
<1>1. /\ old.status = "IN_TRANSIT" /\ old.driver # None
      /\ order' = [order EXCEPT ![o] = row]
      /\ Post(o, old.customer, old.driver, n)
      /\ drvStatus' = [drvStatus EXCEPT ![old.driver] =
            IF old.pay = "CASH" /\ drvBal[old.driver] + n.driver < NegativeCeiling
            THEN "SUSPENDED" ELSE @]
      /\ DriverIdle(old.driver)
    BY DEF Settle
<1>2. TypeOK /\ old \in Row /\ Filled(old)
    BY DEF OrdersInv, TypeOK, RowsOK
<1>3. /\ old.customer \in Customers /\ old.driver \in Drivers
      /\ old.parcel \in Parcels /\ old.status \in Live
    BY <1>1, <1>2 DEF Filled, Carried, Live
<1>4. /\ row \in Row /\ row.status = "SETTLED" /\ row.settled = TRUE
      /\ row.pay = old.pay /\ row.parcel = old.parcel
      /\ row.driver = old.driver /\ row.customer = old.customer
    BY <1>2 DEF Row, Final
<1>5. /\ posted[o] \in Net
      /\ posted[o].escrow = HeldFor(old) /\ posted[o].customer = -HeldFor(old)
      /\ posted[o].driver = 0 /\ posted[o].platform = 0
    BY <1>1, LivePosted
<1>6. /\ n \in Net /\ n.customer = 0
      /\ m \in Net /\ m.escrow = 0 /\ m.customer <= 0
      /\ m.customer + m.driver + m.platform = 0
      /\ Split(old, m)
  <2> HIDE DEF old
  <2> QED
    BY <1>1, <1>2, <1>3, <1>5, SettlementNet DEF old
<1> HIDE DEF n
<1>7. Split(row, m)
  <2>1. Fare(row) = Fare(old)
    BY <1>4 DEF Fare
  <2> HIDE DEF row, old, m
  <2> QED
    BY <1>4, <1>6, <2>1 DEF Split
<1>8. /\ posted' = [posted EXCEPT ![o] = m]
      /\ posted' \in [Orders -> Net]
      /\ custBal' \in [Customers -> Int] /\ drvBal' \in [Drivers -> Int]
      /\ \A x \in Customers :
            custBal'[x] = IF x = old.customer THEN custBal[x] + n.customer ELSE custBal[x]
    BY <1>1, <1>2, <1>6, PostEffect
<1>9. TypeOK'
  <2>1. order' \in [Orders -> Row]
    BY <1>1, <1>2, <1>4 DEF TypeOK
  <2>2. drvStatus' \in [Drivers -> {"ACTIVE", "SUSPENDED"}]
    BY <1>1, <1>2 DEF TypeOK
  <2> QED
    BY <1>1, <1>2, <1>8, <2>1, <2>2, ResetEffect, DoneEffect DEF TypeOK
<1>10. \A x \in Customers : custBal'[x] >= 0
    BY <1>2, <1>6, <1>8 DEF OrdersInv, CustomerNotOverdrawn, TypeOK
<1>11. \A x \in Drivers : drvWork'[x] = IF x = old.driver THEN "IDLE" ELSE drvWork[x]
    BY <1>1, <1>2, ResetEffect
<1>12. \A q \in Requests : req'[q] # None => req'[q] = req[q]
    BY <1>2, DoneEffect
<1>13. Carrying(old)
    BY <1>1 DEF Carrying, Carried
<1>14. Filled(row) /\ row.status \in Final /\ row.status # "CANCELLED"
    BY <1>3, <1>4 DEF Filled, Final, Carried
<1> HIDE DEF row, m
<1> QED
    BY <1>1, <1>3, <1>4, <1>6, <1>7, <1>8, <1>9, <1>10, <1>11, <1>12, <1>13, <1>14,
       FinishStep

\* A reported stop keeps the type of the stops.
LEMMA ReportedType ==
    ASSUME OrdersInv, NEW r \in Requests, Locked(r, "stop")
    PROVE  Reported(r) \in [Orders -> [StopNumbers -> StopStatus]]
<1>1. req[r] \in Report
    BY ReportFacts
<1>2. req[r].target \in StopStatus /\ req[r].at[1] \in Orders
    BY <1>1 DEF Report, StopTargets, StopStatus, Stop
<1>3. stops \in [Orders -> [StopNumbers -> StopStatus]]
    BY DEF OrdersInv, TypeOK
<1> QED
    BY <1>2, <1>3 DEF Reported

\* The request for DELIVERED settles.
LEMMA DeliverStep ==
    ASSUME OrdersInv, NEW r \in Requests, Deliver(r)
    PROVE  Good
<1>1. Locked(r, "patch") /\ Settle(req[r].order) /\ Done(r) /\ UNCHANGED <<stops, debt>>
    BY DEF Deliver
<1>2. req[r].order \in Orders
    BY <1>1, LockedFacts
<1>3. stops' \in [Orders -> [StopNumbers -> StopStatus]]
    BY <1>1 DEF OrdersInv, TypeOK
<1> QED
    BY <1>1, <1>2, <1>3, SettleStep

\* The report of the last stop settles.
LEMMA LastStopStep ==
    ASSUME OrdersInv, NEW r \in Requests, LastStop(r)
    PROVE  Good
<1>1. /\ Locked(r, "stop") /\ Settle(req[r].order) /\ Done(r)
      /\ stops' = Reported(r) /\ UNCHANGED debt
    BY DEF LastStop
<1>2. req[r].order \in Orders
    BY <1>1, ReportFacts
<1>3. stops' \in [Orders -> [StopNumbers -> StopStatus]]
    BY <1>1, ReportedType
<1> QED
    BY <1>1, <1>2, <1>3, SettleStep

\* Any other stop report touches no order and no money.
LEMMA UpdateStopStep ==
    ASSUME OrdersInv, NEW r \in Requests, UpdateStop(r)
    PROVE  Good
<1>1. /\ Locked(r, "stop") /\ Done(r) /\ stops' = Reported(r)
      /\ UNCHANGED <<order, custBal, drvBal, debt, drvStatus, drvWork, posted>>
    BY DEF UpdateStop
<1>2. TypeOK /\ ReadingOK
    BY DEF OrdersInv
<1>3. TypeOK'
    BY <1>1, <1>2, ReportedType, DoneEffect DEF TypeOK
<1>4. ReadingOK'
    BY <1>1, <1>2, DoneEffect DEF ReadingOK
<1> QED
    BY <1>1, <1>3, <1>4, QuietStep

\* The remaining actions touch neither an order nor its money.
LEMMA AsideStep ==
    ASSUME OrdersInv,
           \/ \E r \in Requests : Fail(r)
           \/ \E d \in Drivers, s \in {"ACTIVE", "SUSPENDED"} : UpdateUserStatus(d, s)
    PROVE  Good
<1>1. TypeOK /\ ReadingOK
    BY DEF OrdersInv
<1>2. /\ TypeOK' /\ ReadingOK'
      /\ UNCHANGED <<order, custBal, drvBal, drvWork, posted>>
  <2>1. CASE \E r \in Requests : Fail(r)
    BY <1>1, <2>1, DoneEffect DEF Fail, TypeOK, ReadingOK
  <2>2. CASE \E d \in Drivers, s \in {"ACTIVE", "SUSPENDED"} : UpdateUserStatus(d, s)
    BY <1>1, <2>2 DEF UpdateUserStatus, TypeOK, ReadingOK
  <2> QED
    BY <2>1, <2>2
<1> QED
    BY <1>2, QuietStep

-----------------------------------------------------------------------------
(* Theorems *)

\* Every step keeps the inductive invariant, never touches an order that
\* ended, and moves money only as the promise allows.
LEMMA NextStep == ASSUME OrdersInv, [Next]_vars PROVE Good
<1>1. CASE Next
  <2>1. CASE \/ \E r \in Requests, c \in Customers, p \in Parcels : CreateGate(r, c, p)
             \/ \E r \in Requests, d \in Drivers, o \in Orders : AcceptGate(r, d, o)
    BY <2>1, GateStep
  <2>2. CASE \E r \in Requests, o \in Orders, pay \in {"WALLET", "CASH"} :
                CreateCommit(r, o, pay)
    BY <2>2, CreateCommitStep
  <2>3. CASE \E r \in Requests : AcceptCommit(r)
    BY <2>3, AcceptCommitStep
  <2>4. CASE \E r \in Requests, o \in Orders, actor \in Customers \cup Drivers,
                target \in Targets : ReadOrder(r, o, actor, target)
    BY <2>4, ReadOrderStep
  <2>5. CASE \E r \in Requests, o \in Orders, target \in StopTargets, s \in Stop :
                ReadStop(r, o, target, s)
    BY <2>5, ReadStopStep
  <2>6. CASE \E r \in Requests : MoveOn(r)
    BY <2>6, MoveOnStep
  <2>7. CASE \E r \in Requests : CancelOrder(r)
    BY <2>7, CancelOrderStep
  <2>8. CASE \E r \in Requests : Deliver(r)
    BY <2>8, DeliverStep
  <2>9. CASE \E r \in Requests : UpdateStop(r)
    BY <2>9, UpdateStopStep
  <2>10. CASE \E r \in Requests : LastStop(r)
    BY <2>10, LastStopStep
  <2>11. CASE \E o \in Orders : AutoCancel(o)
    BY <2>11, AutoCancelStep
  <2>12. CASE \E o \in Orders : GoOverdue(o)
    BY <2>12, GoOverdueStep
  <2>13. CASE \/ \E r \in Requests : Fail(r)
              \/ \E d \in Drivers, s \in {"ACTIVE", "SUSPENDED"} : UpdateUserStatus(d, s)
    BY <2>13, AsideStep
  <2> QED
    BY <1>1, <2>1, <2>2, <2>3, <2>4, <2>5, <2>6, <2>7, <2>8, <2>9, <2>10, <2>11,
       <2>12, <2>13 DEF Next
<1>2. CASE UNCHANGED vars
  <2>1. TypeOK' /\ ReadingOK'
    BY <1>2 DEF OrdersInv, TypeOK, ReadingOK, vars
  <2> QED
    BY <1>2, <2>1, QuietStep DEF vars
<1> QED
    BY <1>1, <1>2

\* working_status follows from the drivers' duty: who carries an order is busy, and
\* with one order only.
LEMMA ExclusiveStep ==
    ASSUME OrdersInv, OrdersInv', DriverExclusive, DutyStep
    PROVE  DriverExclusive'
<1> DEFINE carrier == [o \in Orders |-> Carrier(order[o])]
           One(c, w) ==
              /\ \A d \in Drivers : w[d] = "BUSY" <=> \E o \in Orders : c[o] = d
              /\ \A o, p \in Orders : c[o] = c[p] /\ c[o] # None => o = p
<1>1. /\ \A o \in Orders : carrier[o] \in Drivers \cup {None}
      /\ \A d \in Drivers : \A o \in Orders :
            carrier[o] = d <=> order[o].driver = d /\ order[o].status \in Carried
    BY NamesAssumption DEF OrdersInv, TypeOK, Row, Carrier
<1>2. \A d \in Drivers : \A o \in Orders :
            carrier'[o] = d <=> order'[o].driver = d /\ order'[o].status \in Carried
    BY NamesAssumption DEF OrdersInv, TypeOK, Row, Carrier
<1>3. \A o \in Orders : Carrying(order'[o]) => order'[o].driver \in Drivers
    BY DEF OrdersInv, TypeOK, Row, Carrying
<1>4. drvWork \in [Drivers -> {"IDLE", "BUSY"}] /\ carrier = [o \in Orders |-> carrier[o]]
    BY DEF OrdersInv, TypeOK
<1>5. One(carrier, drvWork)
    BY <1>1, NamesAssumption DEF DriverExclusive, Carrying
<1>6. One(carrier', drvWork')
  <2>1. CASE UNCHANGED <<carrier, drvWork>>
    <3> HIDE DEF carrier
    <3> QED
      BY <1>5, <2>1
  <2>2. ASSUME NEW d \in Drivers, NEW o \in Orders, Duty!Take(d, o)
        PROVE  One(carrier', drvWork')
    <3>1. /\ carrier[o] = None /\ drvWork[d] = "IDLE"
          /\ carrier' = [carrier EXCEPT ![o] = d]
          /\ drvWork' = [drvWork EXCEPT ![d] = "BUSY"]
      BY <2>2 DEF Duty!Take
    <3> HIDE DEF carrier
    <3> QED
      BY <1>4, <1>5, <3>1, NamesAssumption
  <2>3. ASSUME NEW o \in Orders, Duty!Release(o)
        PROVE  One(carrier', drvWork')
    <3>1. /\ carrier[o] \in Drivers
          /\ carrier' = [carrier EXCEPT ![o] = None]
          /\ drvWork' = [drvWork EXCEPT ![carrier[o]] = "IDLE"]
      BY <1>1, <2>3 DEF Duty!Release
    <3> HIDE DEF carrier
    <3> QED
      BY <1>4, <1>5, <3>1, NamesAssumption
  <2> QED
    BY <2>1, <2>2, <2>3 DEF DutyStep, Duty!Next, Duty!vars
<1> QED
  <2>1. \A d \in Drivers :
            drvWork'[d] = "BUSY" <=>
               \E o \in Orders : order'[o].driver = d /\ order'[o].status \in Carried
    BY <1>2, <1>6
  <2>2. ASSUME NEW o \in Orders, NEW p \in Orders,
               Carrying(order'[o]), Carrying(order'[p]),
               order'[o].driver = order'[p].driver
        PROVE  o = p
    BY <1>2, <1>3, <1>6, <2>2, NamesAssumption DEF Carrying
  <2> QED
    BY <2>1, <2>2 DEF DriverExclusive

\* The empty system is the promise's initial state.
LEMMA InitPromise == Init => Promise!Init
<1> SUFFICES ASSUME Init PROVE Promise!Init
    OBVIOUS
<1>1. \A o \in Orders : order[o] = NoRow /\ posted[o] = Zero
    BY DEF Init
<1>2. Phase(NoRow) = "none"
    BY DEF Phase, NoRow
<1>3. Zero.escrow = 0 /\ Zero.customer = 0 /\ Zero.driver + Zero.platform = 0
    BY MovedNet DEF Zero
<1> QED
    BY <1>1, <1>2, <1>3 DEF Promise!Init

\* The inductive invariant holds in every state of the specification,
\* whatever the sets of users, orders, requests and parcels.
THEOREM SendInvariant == Spec => []IndInv
<1>1. IndInv /\ [Next]_vars => IndInv'
    BY NextStep, ExclusiveStep DEF Good, IndInv
<1> QED
    BY InitIndInv, <1>1, PTL DEF Spec

\* A settled order paid driver and platform their shares, whichever of the two
\* endpoints settled it and whatever the parcel's fare.
THEOREM SendSplit == Spec => []SettledSplit
<1>1. IndInv => SettledSplit
    BY DEF IndInv, OrdersInv
<1> QED
    BY SendInvariant, <1>1, PTL

\* The shares of the fare that the stops of an order are given add up to the
\* fare, for every parcel: to one hundredth more only when the last stop of three
\* is left with nothing.
THEOREM SendAllocation == Spec => []AllocationClose
<1>1. IndInv => AllocationClose
    BY SharesClose DEF IndInv, OrdersInv, RowsOK, Filled, AllocationClose
<1> QED
    BY SendInvariant, <1>1, PTL

\* A driver carries one send order at a time and working_status says so.
THEOREM SendDriver == Spec => []DriverExclusive
<1>1. IndInv => DriverExclusive
    BY DEF IndInv, OrdersInv
<1> QED
    BY SendInvariant, <1>1, PTL

\* A send order that ended is never touched again.
THEOREM SendFinal == Spec => FinalIsFinal
<1>1. IndInv /\ [Next]_vars => [FinalKept]_vars
    BY NextStep DEF Good, IndInv
<1> QED
    BY SendInvariant, <1>1, PTL DEF Spec, FinalIsFinal, FinalKept

\* Send orders implement the promise about their money, whoever ends them.
THEOREM SendKeepsPromise == Spec => KeepsPromise
<1>1. IndInv /\ [Next]_vars => [Promise!Next]_(Promise!vars)
    BY NextStep DEF Good, IndInv, PromiseStep
<1> QED
    BY InitPromise, SendInvariant, <1>1, PTL DEF Spec, KeepsPromise, Promise!Spec

\* At first no driver carries an order, and all are idle.
LEMMA InitDuty == Init => Duty!Init
<1> SUFFICES ASSUME Init PROVE Duty!Init
    OBVIOUS
<1>1. \A o \in Orders : order[o] = NoRow
    BY DEF Init
<1>2. Carrier(NoRow) = None
    BY DEF Carrier, NoRow, Carried
<1> QED
    BY <1>1, <1>2 DEF Init, Duty!Init

\* Send orders implement the duty towards their drivers, whoever moves them.
THEOREM SendKeepsDuty == Spec => KeepsDuty
<1>1. IndInv /\ [Next]_vars => [Duty!Next]_(Duty!vars)
    BY NextStep DEF Good, IndInv, DutyStep
<1> QED
    BY InitDuty, SendInvariant, <1>1, PTL DEF Spec, KeepsDuty, Duty!Spec

=============================================================================
