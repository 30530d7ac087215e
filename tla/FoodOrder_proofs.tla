--------------------------- MODULE FoodOrder_proofs ---------------------------
(***************************************************************************)
(* The inductive invariant of food orders, and that they keep the promise  *)
(* about their money (EscrowPromise), for all values of the constants.     *)
(***************************************************************************)
EXTENDS FoodOrder, TLAPS

\* A step of the promised order, or none.
PromiseStep == [Promise!Next]_(Promise!vars)

\* A step of a driver's duty, or none.
DutyStep == [Duty!Next]_(Duty!vars)

\* What every action of the system is shown to do.
Good == OrdersInv' /\ FinalKept /\ PromiseStep /\ DutyStep

\* The commission never exceeds the items it is taken from.
LEMMA CommissionBounds ==
    ASSUME NEW s \in Nat
    PROVE  Commission(s) \in Nat /\ Commission(s) <= s
BY DEF Commission

\* The delivery fee divides into the driver's and the platform's part.
LEMMA FeeParts ==
    /\ DeliveryFee \in Nat
    /\ DeliveryCommission \in Nat
    /\ DriverEarning \in Nat
    /\ DriverEarning = DeliveryFee - DeliveryCommission
BY AmountsAssumption DEF DeliveryCommission, DriverEarning

\* Postings and their columns: Moved makes a total and reads back.
LEMMA MovedNet ==
    ASSUME NEW e \in Int, NEW c \in Int, NEW m \in Int, NEW d \in Int, NEW p \in Int
    PROVE  /\ Moved(e, c, m, d, p) \in Net
           /\ Moved(e, c, m, d, p).escrow = e
           /\ Moved(e, c, m, d, p).customer = c
           /\ Moved(e, c, m, d, p).merchant = m
           /\ Moved(e, c, m, d, p).driver = d
           /\ Moved(e, c, m, d, p).platform = p
BY DEF Moved, Net

\* The running total of an order's entries stays a total.
LEMMA PlusNet ==
    ASSUME NEW m \in Net, NEW n \in Net
    PROVE  /\ Plus(m, n) \in Net
           /\ Plus(m, n).escrow = m.escrow + n.escrow
           /\ Plus(m, n).customer = m.customer + n.customer
           /\ Plus(m, n).merchant = m.merchant + n.merchant
           /\ Plus(m, n).driver = m.driver + n.driver
           /\ Plus(m, n).platform = m.platform + n.platform
BY DEF Plus, Net, Moved

\* Totals that agree on every wallet are equal.
LEMMA NetEqual ==
    ASSUME NEW m \in Net
    PROVE  m = Moved(m.escrow, m.customer, m.merchant, m.driver, m.platform)
BY DEF Net, Moved

\* The total of an order is a positive amount.
LEMMA TotalNat == ASSUME NEW row \in Row PROVE Total(row) \in Nat
BY AmountsAssumption DEF Total, Row

\* What an order that is not settled has posted.
LEMMA LivePosted ==
    ASSUME OrdersInv, NEW o \in Orders, order[o].status # "SETTLED"
    PROVE  /\ order[o] \in Row
           /\ posted[o] \in Net
           /\ HeldFor(order[o]) \in Nat
           /\ posted[o].escrow = HeldFor(order[o])
           /\ posted[o].customer = -HeldFor(order[o])
           /\ posted[o].merchant = 0
           /\ posted[o].driver = 0
           /\ posted[o].platform = 0
<1>1. order[o] \in Row /\ posted[o] \in Net
    BY DEF OrdersInv, TypeOK
<1>2. HeldFor(order[o]) \in Nat
    BY <1>1, TotalNat DEF HeldFor
<1>3. posted[o] = Moved(HeldFor(order[o]), -HeldFor(order[o]), 0, 0, 0)
    BY DEF OrdersInv, LiveLedger
<1> QED
    BY <1>1, <1>2, <1>3, MovedNet

-----------------------------------------------------------------------------
(* The initial states *)

\* The empty system satisfies the inductive invariant.
LEMMA InitIndInv == Init => IndInv
<1> SUFFICES ASSUME Init PROVE IndInv
    OBVIOUS
<1>1. TypeOK
  <2>1. NoRow \in Row
    BY DEF Row, NoRow, KitchenStatus
  <2>2. Zero \in Net
    BY DEF Net, Zero, Moved
  <2>3. CustStart \subseteq Int /\ DrvStart \subseteq Int
    BY AmountsAssumption
  <2> QED
    BY <2>1, <2>2, <2>3 DEF Init, TypeOK
<1>2. \A o \in Orders : order[o] = NoRow /\ posted[o] = Zero
    BY DEF Init
<1>3. /\ NoRow.status = "NONE" /\ NoRow.driver = None /\ NoRow.settled = FALSE
      /\ NoRow.kitchen = "WAITING" /\ NoRow.customer = None
      /\ NoRow.merchant = None /\ NoRow.refunded = FALSE
    BY DEF NoRow
<1>4. RowsOK
    BY <1>2, <1>3 DEF RowsOK, Filled
<1>5. KitchenInStep
    BY <1>2, <1>3 DEF KitchenInStep, InStep
<1>6. HeldFor(NoRow) = 0
    BY <1>3 DEF HeldFor, Live, Unanswered, Carried
<1>7. LiveLedger /\ SettledSplit
    BY <1>2, <1>3, <1>6 DEF LiveLedger, SettledSplit, Zero
<1>8. ReadingOK
    BY DEF Init, ReadingOK
<1>9. DriverExclusive
    BY <1>2, <1>3 DEF Init, DriverExclusive, Carrying, Carried
<1>10. CustomerNotOverdrawn
  <2>1. \A c \in Customers : custBal[c] \in CustStart
    BY DEF Init
  <2>2. \A x \in CustStart : x \in Nat
    BY AmountsAssumption
  <2>3. \A x \in Nat : x >= 0
    OBVIOUS
  <2> QED
    BY <2>1, <2>2, <2>3 DEF CustomerNotOverdrawn
<1> QED
    BY <1>1, <1>4, <1>5, <1>7, <1>8, <1>9, <1>10 DEF IndInv, OrdersInv

-----------------------------------------------------------------------------
(* What the helpers of the actions do to the state *)

\* Posting keeps the types and moves only the two wallets it names.
LEMMA PostEffect ==
    ASSUME TypeOK, NEW o \in Orders, NEW c, NEW d, NEW n \in Net, Post(o, c, d, n)
    PROVE  /\ posted' \in [Orders -> Net]
           /\ posted' = [posted EXCEPT ![o] = Plus(posted[o], n)]
           /\ custBal' \in [Customers -> Int]
           /\ drvBal' \in [Drivers -> Int]
           /\ \A x \in Customers :
                 custBal'[x] = IF x = c THEN custBal[x] + n.customer ELSE custBal[x]
<1>1. Plus(posted[o], n) \in Net
    BY PlusNet DEF TypeOK
<1>2. n.customer \in Int /\ n.driver \in Int
    BY DEF Net
<1> QED
    BY <1>1, <1>2 DEF Post, TypeOK

\* Freeing a driver (ResetDriverIdle) keeps the type of working_status.
LEMMA ResetEffect ==
    ASSUME TypeOK, NEW d, ResetDriverIdle(d)
    PROVE  /\ drvWork' \in [Drivers -> {"IDLE", "BUSY"}]
           /\ \A x \in Drivers : drvWork'[x] = IF x = d THEN "IDLE" ELSE drvWork[x]
BY DEF ResetDriverIdle, TypeOK

\* Ending a request keeps the type of the requests in flight and the readings
\* of the others.
LEMMA DoneEffect ==
    ASSUME TypeOK, NEW r \in Requests, Done(r)
    PROVE  /\ req' \in [Requests -> Cart \cup Patch \cup {None}]
           /\ \A q \in Requests : req'[q] # None => req'[q] = req[q]
BY DEF Done, TypeOK

\* What a status change that got its lock knows.
LEMMA LockedFacts ==
    ASSUME OrdersInv, NEW r \in Requests, NEW T, Locked(r, T)
    PROVE  /\ req[r] \in Patch
           /\ req[r].order \in Orders
           /\ order[req[r].order] \in Row
           /\ order[req[r].order].status \in Live
           /\ order[req[r].order].status = req[r].seen
           /\ req[r].actor \in Customers \cup Merchants \cup Drivers
           /\ req[r].target \in T
           /\ Asked(req[r])
           /\ req[r].actor \in Drivers =>
                  order[req[r].order].driver = req[r].actor
<1>1. req[r] \in Cart \cup Patch \cup {None}
    BY DEF OrdersInv, TypeOK
<1>2. req[r] # None /\ req[r].op = "patch"
    BY DEF Locked
<1>3. req[r] \in Patch
    BY <1>1, <1>2 DEF Cart
<1>4. /\ req[r].order \in Orders
      /\ req[r].actor \in Customers \cup Merchants \cup Drivers
      /\ req[r].seen \in Live
      /\ Asked(req[r])
    BY <1>3 DEF Patch
<1>5. order[req[r].order].status = req[r].seen /\ req[r].target \in T
    BY DEF Locked
<1>6. order[req[r].order] \in Row
    BY <1>4 DEF OrdersInv, TypeOK
<1>7. req[r].actor \in Drivers => order[req[r].order].driver = req[r].actor
    BY <1>2 DEF OrdersInv, ReadingOK
<1> QED
    BY <1>3, <1>4, <1>5, <1>6, <1>7

-----------------------------------------------------------------------------
(* Frames: what an action has to show of the row it changes *)

\* Actions that leave the orders and the balances alone.
LEMMA QuietStep ==
    ASSUME OrdersInv, TypeOK', ReadingOK',
           UNCHANGED <<order, custBal, drvBal, drvWork, posted>>
    PROVE  Good
<1>1. OrdersInv' /\ FinalKept
    BY DEF FinalKept, OrdersInv, RowsOK, KitchenInStep, LiveLedger, SettledSplit,
           CustomerNotOverdrawn
<1>2. UNCHANGED Promise!vars /\ UNCHANGED Duty!vars
    BY DEF Promise!vars, Duty!vars
<1> QED
    BY <1>1, <1>2 DEF Good, PromiseStep, DutyStep

\* One row and its entries change: the others keep what held of them, and so
\* do the readings that requests still hold.
LEMMA LedgerStep ==
    ASSUME OrdersInv, NEW o \in Orders, NEW row, NEW n,
           order' = [order EXCEPT ![o] = row],
           posted' = [posted EXCEPT ![o] = n],
           Filled(row),
           InStep(row),
           row.status # "SETTLED" =>
               n = Moved(HeldFor(row), -HeldFor(row), 0, 0, 0),
           row.status = "SETTLED" => Split(row, n),
           order[o].status \notin Final,
           order[o].driver # None => row.driver = order[o].driver,
           \A q \in Requests : req'[q] # None => req'[q] = req[q]
    PROVE  /\ FinalKept
           /\ RowsOK'
           /\ KitchenInStep'
           /\ LiveLedger'
           /\ ReadingOK'
           /\ SettledSplit'
<1>1. \A p \in Orders : /\ order'[p] = IF p = o THEN row ELSE order[p]
                        /\ posted'[p] = IF p = o THEN n ELSE posted[p]
    BY DEF OrdersInv, TypeOK
<1>2. RowsOK /\ KitchenInStep /\ LiveLedger /\ ReadingOK /\ SettledSplit
    BY DEF OrdersInv
<1>3. RowsOK'
    BY <1>1, <1>2 DEF RowsOK
<1>4. KitchenInStep'
    BY <1>1, <1>2 DEF KitchenInStep
<1>5. LiveLedger'
    BY <1>1, <1>2 DEF LiveLedger
<1>6. SettledSplit'
    BY <1>1, <1>2 DEF SettledSplit
<1>7. FinalKept
    BY <1>1 DEF FinalKept
<1>8. ReadingOK'
  <2>1. ASSUME NEW q \in Requests, req'[q] # None, req'[q].op = "patch"
        PROVE  req'[q].actor \in Drivers =>
                   order'[req'[q].order].driver = req'[q].actor
    <3>1. req'[q] = req[q] /\ req[q] # None /\ req[q].op = "patch"
        BY <2>1
    <3>2. req[q].order \in Orders
        BY <3>1 DEF OrdersInv, TypeOK, Cart, Patch
    <3>3. req[q].actor \in Drivers => order[req[q].order].driver = req[q].actor
        BY <1>2, <3>1 DEF ReadingOK
    <3> QED
        BY <1>1, <3>1, <3>2, <3>3, NamesAssumption
  <2> QED
    BY <2>1 DEF ReadingOK
<1> QED
    BY <1>3, <1>4, <1>5, <1>6, <1>7, <1>8

\* A row that is in nobody's hands before and after, or in the same driver's.
LEMMA SameCarrierStep ==
    ASSUME OrdersInv, NEW o \in Orders, NEW row,
           order' = [order EXCEPT ![o] = row],
           Carrier(row) = Carrier(order[o]),
           UNCHANGED drvWork
    PROVE  DutyStep
<1>1. \A p \in Orders : Carrier(order'[p]) = Carrier(order[p])
    BY DEF OrdersInv, TypeOK
<1>2. [p \in Orders |-> Carrier(order[p])]' = [p \in Orders |-> Carrier(order[p])]
    BY <1>1
<1> QED
    BY <1>2 DEF DutyStep, Duty!vars

\* An idle driver takes an order that is in nobody's hands.
LEMMA TakeStep ==
    ASSUME OrdersInv, NEW o \in Orders, NEW row, NEW d \in Drivers,
           order' = [order EXCEPT ![o] = row],
           Carrier(order[o]) = None,
           Carrier(row) = d,
           drvWork[d] = "IDLE",
           drvWork' = [drvWork EXCEPT ![d] = "BUSY"]
    PROVE  DutyStep
<1>1. \A p \in Orders : Carrier(order'[p]) = IF p = o THEN d ELSE Carrier(order[p])
    BY DEF OrdersInv, TypeOK
<1>2. [p \in Orders |-> Carrier(order[p])]' =
          [[p \in Orders |-> Carrier(order[p])] EXCEPT ![o] = d]
    BY <1>1
<1>3. Duty!Take(d, o)
    BY <1>2 DEF Duty!Take
<1> QED
    BY <1>3 DEF DutyStep, Duty!Next

\* An order ends and its driver, if it has one, is idle.
LEMMA EndStep ==
    ASSUME OrdersInv, NEW o \in Orders, NEW row,
           order' = [order EXCEPT ![o] = row],
           row.status \notin Carried,
           order[o].driver = None \/ Carrying(order[o]),
           drvWork' \in [Drivers -> {"IDLE", "BUSY"}],
           \A d \in Drivers :
              drvWork'[d] = IF d = order[o].driver THEN "IDLE" ELSE drvWork[d]
    PROVE  DutyStep
<1>1. Carrier(row) = None /\ Carrier(order[o]) = order[o].driver
    BY DEF Carrier, Carrying
<1>2. drvWork \in [Drivers -> {"IDLE", "BUSY"}]
    BY DEF OrdersInv, TypeOK
<1>3. CASE order[o].driver = None
  <2>1. drvWork' = drvWork
    BY <1>2, <1>3, NamesAssumption
  <2> QED
    BY <1>1, <1>3, <2>1, SameCarrierStep
<1>4. CASE order[o].driver # None
  <2>1. \A p \in Orders : Carrier(order'[p]) = IF p = o THEN None ELSE Carrier(order[p])
    BY <1>1 DEF OrdersInv, TypeOK
  <2>2. [p \in Orders |-> Carrier(order[p])]' =
            [[p \in Orders |-> Carrier(order[p])] EXCEPT ![o] = None]
    BY <2>1
  <2>3. drvWork' = [drvWork EXCEPT ![order[o].driver] = "IDLE"]
    BY <1>2
  <2>4. Duty!Release(o)
    BY <1>1, <1>4, <2>2, <2>3 DEF Duty!Release
  <2> QED
    BY <2>4 DEF DutyStep, Duty!Next
<1> QED
    BY <1>3, <1>4

\* A step that keeps the phase and the entries of its order is none of the
\* promise's business.
LEMMA SamePhaseStep ==
    ASSUME OrdersInv, NEW o \in Orders, NEW row,
           order' = [order EXCEPT ![o] = row],
           Phase(row) = Phase(order[o]),
           UNCHANGED posted
    PROVE  PromiseStep
<1>1. \A p \in Orders : Phase(order'[p]) = Phase(order[p])
    BY DEF OrdersInv, TypeOK
<1>2. [p \in Orders |-> Phase(order[p])]' = [p \in Orders |-> Phase(order[p])]
    BY <1>1
<1> QED
    BY <1>2 DEF PromiseStep, Promise!vars

\* A function changed at one point only.
LEMMA ExceptAt ==
    ASSUME NEW S, NEW f, NEW g, NEW o \in S, NEW x,
           f = [p \in S |-> f[p]], g = [p \in S |-> g[p]],
           \A p \in S : g[p] = IF p = o THEN x ELSE f[p]
    PROVE  g = [f EXCEPT ![o] = x]
OBVIOUS

\* The first posting of an order opens it, as the promise says.
LEMMA OpenStep ==
    ASSUME OrdersInv, NEW o \in Orders, NEW row, NEW n \in Net,
           order' = [order EXCEPT ![o] = row],
           posted' = [posted EXCEPT ![o] = n],
           order[o].status = "NONE",
           row.status \in Live,
           n.escrow >= 0, n.customer = -n.escrow,
           n.merchant = 0, n.driver = 0, n.platform = 0
    PROVE  PromiseStep
<1>1. \A p \in Orders : /\ order'[p] = IF p = o THEN row ELSE order[p]
                        /\ posted'[p] = IF p = o THEN n ELSE posted[p]
    BY DEF OrdersInv, TypeOK
<1>2. Phase(order[o]) = "none" /\ Phase(row) = "open"
    BY DEF Phase, Live, Unanswered, Carried
<1>3. /\ posted[o].merchant = 0 /\ posted[o].driver = 0 /\ posted[o].platform = 0
    BY LivePosted
<1>4. n.escrow \in Int
    BY DEF Net
<1>5. Promise!Open(o)
  <2>1. [p \in Orders |-> Phase(order[p])]' =
            [[p \in Orders |-> Phase(order[p])] EXCEPT ![o] = "open"]
    <3>1. \A p \in Orders :
              Phase(order'[p]) = IF p = o THEN "open" ELSE Phase(order[p])
      BY <1>1, <1>2
    <3> QED
      BY <3>1
  <2>2. [p \in Orders |-> posted[p].escrow]' =
            [[p \in Orders |-> posted[p].escrow] EXCEPT
                ![o] = [p \in Orders |-> posted[p].escrow]'[o]]
    <3> DEFINE f == [p \in Orders |-> posted[p].escrow]
    <3>1. /\ f = [p \in Orders |-> f[p]] /\ f' = [p \in Orders |-> f'[p]]
          /\ \A p \in Orders : f'[p] = IF p = o THEN f'[o] ELSE f[p]
      BY <1>1
    <3>2. f' = [f EXCEPT ![o] = f'[o]]
      <4> HIDE DEF f
      <4> QED
        BY <3>1, ExceptAt
    <3> QED
      BY <3>2
  <2>3. [p \in Orders |-> posted[p].customer]' =
            [[p \in Orders |-> posted[p].customer] EXCEPT
                ![o] = -[p \in Orders |-> posted[p].escrow]'[o]]
    <3>1. \A p \in Orders : posted'[p].customer =
              IF p = o THEN -(posted'[p].escrow) ELSE posted[p].customer
      BY <1>1
    <3> QED
      BY <3>1
  <2>4. [p \in Orders |-> posted[p].merchant + posted[p].driver + posted[p].platform]' =
            [p \in Orders |-> posted[p].merchant + posted[p].driver + posted[p].platform]
    <3>1. \A p \in Orders :
              posted'[p].merchant + posted'[p].driver + posted'[p].platform =
              posted[p].merchant + posted[p].driver + posted[p].platform
      BY <1>1, <1>3
    <3> QED
      BY <3>1
  <2>5. [p \in Orders |-> posted[p].escrow]'[o] >= 0
    BY <1>1
  <2> QED
    BY <1>2, <2>1, <2>2, <2>3, <2>4, <2>5 DEF Promise!Open
<1> QED
    BY <1>5 DEF PromiseStep, Promise!Next

\* The last posting of an order closes it, as the promise says.
LEMMA CloseStep ==
    ASSUME OrdersInv, NEW o \in Orders, NEW row, NEW n \in Net,
           order' = [order EXCEPT ![o] = row],
           posted' = [posted EXCEPT ![o] = n],
           order[o].status \in Live,
           row.status \in Final,
           n.escrow = 0, n.customer <= 0,
           n.customer + n.merchant + n.driver + n.platform = 0
    PROVE  PromiseStep
<1>1. \A p \in Orders : /\ order'[p] = IF p = o THEN row ELSE order[p]
                        /\ posted'[p] = IF p = o THEN n ELSE posted[p]
    BY DEF OrdersInv, TypeOK
<1>2. Phase(order[o]) = "open" /\ Phase(row) = "closed"
    BY DEF Phase, Live, Unanswered, Carried, Final
<1>3. /\ n.merchant + n.driver + n.platform = -n.customer
    BY DEF Net
<1>4. Promise!Close(o)
  <2>1. [p \in Orders |-> Phase(order[p])]' =
            [[p \in Orders |-> Phase(order[p])] EXCEPT ![o] = "closed"]
    <3>1. \A p \in Orders :
              Phase(order'[p]) = IF p = o THEN "closed" ELSE Phase(order[p])
      BY <1>1, <1>2
    <3> QED
      BY <3>1
  <2>2. [p \in Orders |-> posted[p].escrow]' =
            [[p \in Orders |-> posted[p].escrow] EXCEPT ![o] = 0]
    <3>1. \A p \in Orders :
              posted'[p].escrow = IF p = o THEN 0 ELSE posted[p].escrow
      BY <1>1
    <3> QED
      BY <3>1
  <2>3. [p \in Orders |-> posted[p].customer]' =
            [[p \in Orders |-> posted[p].customer] EXCEPT
                ![o] = [p \in Orders |-> posted[p].customer]'[o]]
    <3> DEFINE f == [p \in Orders |-> posted[p].customer]
    <3>1. /\ f = [p \in Orders |-> f[p]] /\ f' = [p \in Orders |-> f'[p]]
          /\ \A p \in Orders : f'[p] = IF p = o THEN f'[o] ELSE f[p]
      BY <1>1
    <3>2. f' = [f EXCEPT ![o] = f'[o]]
      <4> HIDE DEF f
      <4> QED
        BY <3>1, ExceptAt
    <3> QED
      BY <3>2
  <2>4. [p \in Orders |-> posted[p].merchant + posted[p].driver + posted[p].platform]' =
            [[p \in Orders |-> posted[p].merchant + posted[p].driver + posted[p].platform]
                EXCEPT ![o] = -[p \in Orders |-> posted[p].customer]'[o]]
    <3> DEFINE f == [p \in Orders |-> posted[p].customer]
               g == [p \in Orders |->
                        posted[p].merchant + posted[p].driver + posted[p].platform]
    <3>1. /\ g = [p \in Orders |-> g[p]] /\ g' = [p \in Orders |-> g'[p]]
          /\ \A p \in Orders : g'[p] = IF p = o THEN -(f'[o]) ELSE g[p]
      BY <1>1, <1>3
    <3>2. g' = [g EXCEPT ![o] = -(f'[o])]
      <4> HIDE DEF f, g
      <4> QED
        BY <3>1, ExceptAt
    <3> QED
      BY <3>2
  <2>5. [p \in Orders |-> posted[p].customer]'[o] <= 0
    BY <1>1
  <2> QED
    BY <1>2, <2>1, <2>2, <2>3, <2>4, <2>5 DEF Promise!Close
<1> QED
    BY <1>4 DEF PromiseStep, Promise!Next

-----------------------------------------------------------------------------
(* The actions *)

\* A row that moves on within its life, with its money and its driver.
LEMMA ProgressStep ==
    ASSUME OrdersInv, NEW o \in Orders, NEW row \in Row,
           order' = [order EXCEPT ![o] = row],
           order[o].status \in Live,
           row.status \in Live,
           row.pay = order[o].pay, row.sub = order[o].sub,
           row.driver = order[o].driver,
           Filled(row), InStep(row),
           \/ Carrying(row) /\ Carrying(order[o])
           \/ ~Carrying(row) /\ ~Carrying(order[o]),
           req' \in [Requests -> Cart \cup Patch \cup {None}],
           \A q \in Requests : req'[q] # None => req'[q] = req[q],
           UNCHANGED <<custBal, drvBal, debt, drvStatus, drvWork, posted>>
    PROVE  Good
<1>1. TypeOK /\ TypeOK'
    BY DEF OrdersInv, TypeOK
<1>2. HeldFor(row) = HeldFor(order[o])
    BY DEF HeldFor, Total
<1>3. row.status \notin Final /\ order[o].status \notin Final
    BY DEF Final, Live, Unanswered, Carried
<1>4. /\ RowsOK' /\ KitchenInStep' /\ LiveLedger' /\ ReadingOK'
      /\ SettledSplit' /\ FinalKept
  <2>1. posted' = [posted EXCEPT ![o] = posted[o]]
    BY <1>1 DEF TypeOK
  <2>2. posted[o] = Moved(HeldFor(row), -HeldFor(row), 0, 0, 0)
    BY <1>2, <1>3 DEF OrdersInv, LiveLedger, Final
  <2>3. row.status # "SETTLED"
    BY <1>3 DEF Final
  <2> QED
    BY <1>3, <2>1, <2>2, <2>3, LedgerStep
<1>5. DutyStep
  <2>1. Carrier(row) = Carrier(order[o])
    BY DEF Carrier, Carrying
  <2> QED
    BY <2>1, SameCarrierStep
<1>6. CustomerNotOverdrawn'
    BY <1>1 DEF OrdersInv, CustomerNotOverdrawn, TypeOK
<1>7. PromiseStep
  <2>1. Phase(row) = Phase(order[o])
    BY DEF Phase, Live, Unanswered, Carried
  <2> QED
    BY <2>1, SamePhaseStep
<1> QED
    BY <1>1, <1>4, <1>5, <1>6, <1>7 DEF Good, OrdersInv

\* An order ends with a posting: what is left to show of an action that ends
\* one is that the posting fits the final status.
LEMMA FinishStep ==
    ASSUME OrdersInv, NEW o \in Orders, NEW row \in Row, NEW n \in Net,
           order[o].status \in Live,
           order' = [order EXCEPT ![o] = row],
           row.status \in Final,
           row.driver = order[o].driver,
           Filled(row), InStep(row),
           posted' = [posted EXCEPT ![o] = n],
           n.escrow = 0, n.customer <= 0,
           n.customer + n.merchant + n.driver + n.platform = 0,
           row.status = "CANCELLED" => n = Moved(0, 0, 0, 0, 0),
           row.status = "SETTLED" => Split(row, n),
           order[o].driver = None \/ Carrying(order[o]),
           \A d \in Drivers :
              drvWork'[d] = IF d = order[o].driver THEN "IDLE" ELSE drvWork[d],
           \A x \in Customers : custBal'[x] >= 0,
           \A q \in Requests : req'[q] # None => req'[q] = req[q],
           TypeOK'
    PROVE  Good
<1>1. row.status \notin Live /\ row.status \notin Carried
    BY DEF Final, Live, Unanswered, Carried
<1>2. order[o].status \notin Final
    BY DEF Final, Live, Unanswered, Carried
<1>3. /\ RowsOK' /\ KitchenInStep' /\ LiveLedger' /\ ReadingOK'
      /\ SettledSplit' /\ FinalKept
  <2>1. HeldFor(row) = 0
    BY <1>1 DEF HeldFor
  <2>2. row.status # "SETTLED" => n = Moved(HeldFor(row), -HeldFor(row), 0, 0, 0)
    BY <2>1 DEF Final
  <2> QED
    BY <1>2, <2>2, LedgerStep
<1>4. DutyStep
    BY <1>1, EndStep DEF TypeOK
<1>5. CustomerNotOverdrawn'
    BY DEF CustomerNotOverdrawn
<1>6. PromiseStep
    BY CloseStep
<1> QED
    BY <1>3, <1>4, <1>5, <1>6 DEF Good, OrdersInv

\* Reading the cart changes nothing but the request.
LEMMA CreateGateStep ==
    ASSUME OrdersInv, NEW r \in Requests, NEW c \in Customers, NEW m \in Merchants,
           NEW sub \in Subtotals, CreateGate(r, c, m, sub)
    PROVE  Good
<1>1. [op |-> "create", customer |-> c, merchant |-> m, sub |-> sub] \in Cart
    BY DEF Cart
<1>2. TypeOK'
    BY <1>1 DEF CreateGate, OrdersInv, TypeOK
<1>3. ReadingOK'
    BY DEF CreateGate, OrdersInv, TypeOK, ReadingOK
<1> QED
    BY <1>2, <1>3, QuietStep DEF CreateGate

\* validateFoodTransition, applied to the row that was read, lets through what
\* Asked says.
LEMMA ReadOrderStep ==
    ASSUME OrdersInv, NEW r \in Requests, NEW o \in Orders,
           NEW actor \in Customers \cup Merchants \cup Drivers,
           NEW target \in Targets, ReadOrder(r, o, actor, target)
    PROVE  Good
<1> DEFINE p == [op |-> "patch", order |-> o, actor |-> actor,
                 target |-> target, seen |-> order[o].status]
<1>1. /\ order[o].status \in Live
      /\ ~Replay(order[o], target)
      /\ ValidTransition(order[o], actor, target)
      /\ req' = [req EXCEPT ![r] = p]
      /\ UNCHANGED <<order, custBal, drvBal, debt, drvStatus, drvWork, posted>>
    BY DEF ReadOrder
<1>2. order[o] \in Row /\ Filled(order[o]) /\ InStep(order[o])
    BY DEF OrdersInv, TypeOK, RowsOK, KitchenInStep
<1>3. actor \in Drivers => order[o].driver = actor
  <2>1. actor \in Drivers => actor # order[o].customer
    BY <1>1, <1>2, NamesAssumption DEF Row
  <2>2. actor \in Drivers => actor # order[o].merchant
    BY <1>2, NamesAssumption DEF Row
  <2> QED
    BY <1>1, <2>1, <2>2 DEF ValidTransition
<1>4. Asked(p)
  <2>1. CASE actor = order[o].customer
    <3>1. target = "CANCELLED" /\ order[o].status \in Unanswered /\ actor \notin Drivers
        BY <1>1, <1>2, <1>3, <2>1, NamesAssumption DEF ValidTransition, Row
    <3> QED
        BY <3>1 DEF Asked
  <2>2. CASE actor = order[o].merchant
    <3>1. actor \notin Drivers /\ actor # order[o].customer /\ actor # order[o].driver
        BY <1>2, <2>2, NamesAssumption DEF Row
    <3>2. \/ target = "CANCELLED" /\ order[o].kitchen = "WAITING"
          \/ \E k \in Kitchen : k[1] = target /\ k[2] = order[o].kitchen
        BY <1>1, <3>1 DEF ValidTransition
    <3>3. CASE target = "CANCELLED" /\ order[o].kitchen = "WAITING"
        BY <1>1, <1>2, <3>1, <3>3 DEF Asked, InStep, Live, Unanswered, Carried
    <3>4. CASE \E k \in Kitchen : k[1] = target /\ k[2] = order[o].kitchen
        BY <1>1, <1>2, <3>1, <3>4 DEF Asked, InStep, Live, Unanswered, Carried, Kitchen
    <3> QED
        BY <3>2, <3>3, <3>4
  <2>3. CASE actor = order[o].driver /\ actor # order[o].customer
             /\ actor # order[o].merchant
    <3>1. actor \in Drivers
        BY <1>2, <2>3, NamesAssumption DEF Row
    <3> QED
        BY <1>1, <2>3, <3>1 DEF ValidTransition, Asked
  <2> QED
    BY <1>1, <2>1, <2>2, <2>3 DEF ValidTransition
<1>5. p \in Patch
    BY <1>1, <1>4 DEF Patch
<1>6. TypeOK'
    BY <1>1, <1>5 DEF OrdersInv, TypeOK
<1>7. ReadingOK'
    BY <1>1, <1>3 DEF OrdersInv, TypeOK, ReadingOK
<1> QED
    BY <1>1, <1>6, <1>7, QuietStep

\* The transaction that creates an order opens it with its total in escrow.
LEMMA CreateCommitStep ==
    ASSUME OrdersInv, NEW r \in Requests, NEW o \in Orders, NEW pay \in {"WALLET", "CASH"},
           CreateCommit(r, o, pay)
    PROVE  Good
<1> DEFINE c    == req[r].customer
           row  == [NoRow EXCEPT !.status = IF pay = "WALLET" THEN "CONFIRMED"
                                            ELSE "CREATED",
                                 !.customer = c, !.merchant = req[r].merchant,
                                 !.pay = pay, !.sub = req[r].sub]
           hold == IF pay = "WALLET" THEN Total(row) ELSE 0
           n    == Moved(hold, -hold, 0, 0, 0)
<1>1. /\ c \in Customers /\ req[r].merchant \in Merchants
      /\ req[r].sub \in Nat
  <2>1. req[r] \in Cart
    BY DEF CreateCommit, OrdersInv, TypeOK, Patch
  <2> QED
    BY <2>1, AmountsAssumption DEF Cart
<1>2. /\ row \in Row
      /\ row.status = IF pay = "WALLET" THEN "CONFIRMED" ELSE "CREATED"
      /\ row.kitchen = "WAITING"
      /\ row.customer = c /\ row.pay = pay /\ row.driver = None
      /\ row.settled = FALSE /\ row.refunded = FALSE
    BY <1>1 DEF NoRow, Row, Live, Unanswered, KitchenStatus
<1>3. /\ order[o].status = "NONE"
      /\ hold <= custBal[c]
      /\ order' = [order EXCEPT ![o] = row]
      /\ Post(o, c, None, n)
      /\ Done(r)
      /\ UNCHANGED <<debt, drvStatus, drvWork>>
    BY DEF CreateCommit
<1> HIDE DEF c, row
<1>4. /\ row.status \in Live
      /\ hold \in Nat /\ hold = HeldFor(row)
    BY <1>2, TotalNat DEF HeldFor, Live, Unanswered
<1> HIDE DEF hold
<1>5. /\ n \in Net /\ n.escrow = hold /\ n.customer = -hold
      /\ n.merchant = 0 /\ n.driver = 0 /\ n.platform = 0
    BY <1>4, MovedNet
<1>6. TypeOK
    BY DEF OrdersInv
<1>7. posted[o] = Moved(0, 0, 0, 0, 0)
    BY <1>3 DEF OrdersInv, LiveLedger, HeldFor, Live, Unanswered, Carried
<1>8. Plus(posted[o], n) = n
    BY <1>4, <1>7 DEF Plus, Moved
<1> HIDE DEF n
<1>9. TypeOK'
  <2>1. order' \in [Orders -> Row]
    BY <1>2, <1>3, <1>6 DEF TypeOK
  <2> QED
    BY <2>1, <1>3, <1>5, <1>6, PostEffect, DoneEffect DEF TypeOK
<1>10. posted' = [posted EXCEPT ![o] = n]
    BY <1>3, <1>5, <1>6, <1>8, PostEffect
<1>11. \A q \in Requests : req'[q] # None => req'[q] = req[q]
    BY <1>3, <1>6, DoneEffect
<1>12. /\ RowsOK' /\ KitchenInStep' /\ LiveLedger' /\ ReadingOK'
       /\ SettledSplit' /\ FinalKept
  <2>1. Filled(row) /\ InStep(row) /\ row.status # "SETTLED"
    BY <1>1, <1>2 DEF Filled, InStep
  <2>2. n = Moved(HeldFor(row), -HeldFor(row), 0, 0, 0)
    BY <1>4 DEF n
  <2>3. order[o].status \notin Final /\ order[o].driver = None
    BY <1>3 DEF Final, OrdersInv, RowsOK, Filled
  <2> QED
    BY <1>3, <1>10, <1>11, <2>1, <2>2, <2>3, LedgerStep
<1>13. DutyStep
  <2>1. Carrier(row) = None /\ Carrier(order[o]) = None
    BY <1>2, <1>3 DEF Carrier, Carried
  <2> QED
    BY <1>3, <2>1, SameCarrierStep
<1>14. CustomerNotOverdrawn'
  <2>1. \A x \in Customers : custBal'[x] = IF x = c THEN custBal[x] - hold ELSE custBal[x]
    BY <1>3, <1>4, <1>5, <1>6, PostEffect DEF TypeOK
  <2> QED
    BY <1>3, <1>4, <1>6, <2>1 DEF OrdersInv, CustomerNotOverdrawn, TypeOK
<1>15. PromiseStep
  <2>1. n.escrow >= 0 /\ n.customer = -n.escrow
    BY <1>4, <1>5
  <2> QED
    BY <1>3, <1>4, <1>5, <1>10, <2>1, OpenStep
<1> QED
    BY <1>9, <1>12, <1>13, <1>14, <1>15 DEF Good, OrdersInv

\* Acceptance ties an idle driver to one order that is ready.
LEMMA AcceptStep ==
    ASSUME OrdersInv, NEW d \in Drivers, NEW o \in Orders, AcceptFoodOrder(d, o)
    PROVE  Good
<1> DEFINE row == [order[o] EXCEPT !.driver = d]
<1>1. TypeOK
    BY DEF OrdersInv
<1>2. /\ drvWork[d] = "IDLE"
      /\ order[o].status = "READY_FOR_PICKUP" /\ order[o].driver = None
      /\ order' = [order EXCEPT ![o] = row]
      /\ drvWork' = [drvWork EXCEPT ![d] = "BUSY"]
      /\ UNCHANGED <<custBal, drvBal, debt, drvStatus, posted, req>>
    BY DEF AcceptFoodOrder, MayAccept
<1>3. order[o] \in Row /\ Filled(order[o]) /\ InStep(order[o])
    BY <1>1 DEF TypeOK, OrdersInv, RowsOK, KitchenInStep
<1>4. /\ row \in Row
      /\ row.status = "READY_FOR_PICKUP" /\ row.driver = d
      /\ row.kitchen = order[o].kitchen /\ row.customer = order[o].customer
      /\ row.merchant = order[o].merchant
      /\ row.settled = order[o].settled /\ row.refunded = order[o].refunded
      /\ row.pay = order[o].pay /\ row.sub = order[o].sub
    BY <1>2, <1>3 DEF Row
<1> HIDE DEF row
<1>5. TypeOK'
    BY <1>1, <1>2, <1>4 DEF TypeOK
<1>6. HeldFor(row) = HeldFor(order[o])
    BY <1>2, <1>4 DEF HeldFor, Total
<1>7. /\ RowsOK' /\ KitchenInStep' /\ LiveLedger' /\ ReadingOK'
      /\ SettledSplit' /\ FinalKept
  <2>1. Filled(row) /\ InStep(row)
    BY <1>2, <1>3, <1>4 DEF Filled, InStep
  <2>2. posted' = [posted EXCEPT ![o] = posted[o]]
    BY <1>1, <1>2 DEF TypeOK
  <2>3. posted[o] = Moved(HeldFor(row), -HeldFor(row), 0, 0, 0)
    BY <1>2, <1>6 DEF OrdersInv, LiveLedger
  <2>4. \A q \in Requests : req'[q] # None => req'[q] = req[q]
    BY <1>2
  <2>5. row.status # "SETTLED" /\ order[o].status \notin Final
    BY <1>2, <1>4 DEF Final
  <2> QED
    BY <1>2, <2>1, <2>2, <2>3, <2>4, <2>5, LedgerStep
<1>8. DutyStep
  <2>1. Carrier(order[o]) = None /\ Carrier(row) = d
    BY <1>2, <1>4 DEF Carrier, Carried
  <2> QED
    BY <1>2, <2>1, TakeStep
<1>9. CustomerNotOverdrawn'
    BY <1>1, <1>2 DEF OrdersInv, CustomerNotOverdrawn, TypeOK
<1>10. PromiseStep
  <2>1. Phase(row) = Phase(order[o])
    BY <1>2, <1>4 DEF Phase
  <2> QED
    BY <1>2, <2>1, SamePhaseStep
<1> QED
    BY <1>5, <1>7, <1>8, <1>9, <1>10 DEF Good, OrdersInv

\* The merchant's steps keep the two status columns together.
LEMMA PrepareStep ==
    ASSUME OrdersInv, NEW r \in Requests, Prepare(r)
    PROVE  Good
<1> DEFINE o == req[r].order
<1>1. Locked(r, KitchenTargets) /\ Done(r)
    BY DEF Prepare
<1>2. PICK k \in Kitchen :
          /\ k[1] = req[r].target
          /\ order' = [order EXCEPT ![o] = [@ EXCEPT !.status = k[1], !.kitchen = k[3]]]
    BY DEF Prepare
<1> DEFINE row == [order[o] EXCEPT !.status = k[1], !.kitchen = k[3]]
<1>3. /\ o \in Orders /\ order[o] \in Row /\ order[o].status \in Live
      /\ order[o].status = req[r].seen
      /\ req[r].target \in KitchenTargets
      /\ Asked(req[r])
    BY <1>1, LockedFacts
<1>4. Filled(order[o]) /\ InStep(order[o]) /\ TypeOK
    BY <1>3 DEF OrdersInv, RowsOK, KitchenInStep
<1>5. order[o].status \in Unanswered \cup {"PREPARING"}
    BY <1>3 DEF Asked, KitchenTargets, Carry, Unanswered
<1>6. <<k[1], k[3]>> \in {<<"CONFIRMED", "CONFIRMED">>, <<"PREPARING", "PREPARING">>,
                          <<"READY_FOR_PICKUP", "READY">>}
    BY <1>2 DEF Kitchen
<1>7. /\ row \in Row
      /\ row.status = k[1] /\ row.kitchen = k[3] /\ row.driver = order[o].driver
      /\ row.customer = order[o].customer /\ row.merchant = order[o].merchant
      /\ row.pay = order[o].pay /\ row.sub = order[o].sub
      /\ row.settled = order[o].settled /\ row.refunded = order[o].refunded
    BY <1>3, <1>6 DEF Row, Live, Unanswered, Carried, KitchenStatus
<1>8. order' = [order EXCEPT ![o] = row]
    BY <1>2
<1> HIDE DEF row, o
<1>9. order[o].driver = None
    BY <1>4, <1>5 DEF Filled, Unanswered
<1>10. row.status \in Live /\ InStep(row)
    BY <1>6, <1>7 DEF InStep, Live, Unanswered, Carried
<1>11. Filled(row)
    BY <1>4, <1>5, <1>6, <1>7, <1>9 DEF Filled, Unanswered
<1>12. ~Carrying(row) /\ ~Carrying(order[o])
    BY <1>7, <1>9 DEF Carrying
<1>13. /\ req' \in [Requests -> Cart \cup Patch \cup {None}]
       /\ \A q \in Requests : req'[q] # None => req'[q] = req[q]
    BY <1>1, <1>4, DoneEffect
<1> QED
    BY <1>3, <1>7, <1>8, <1>10, <1>11, <1>12, <1>13, ProgressStep DEF Prepare

\* The driver's steps keep the order in its driver's hands.
LEMMA MoveOnStep ==
    ASSUME OrdersInv, NEW r \in Requests, MoveOn(r)
    PROVE  Good
<1> DEFINE o   == req[r].order
           row == [order[o] EXCEPT !.status = req[r].target]
<1>1. Locked(r, {"PICKED_UP", "IN_TRANSIT"}) /\ Done(r)
    BY DEF MoveOn
<1>2. /\ o \in Orders /\ order[o] \in Row /\ order[o].status \in Live
      /\ order[o].status = req[r].seen
      /\ req[r].target \in {"PICKED_UP", "IN_TRANSIT"}
      /\ Asked(req[r])
      /\ req[r].actor \in Drivers => order[o].driver = req[r].actor
    BY <1>1, LockedFacts
<1>3. Filled(order[o]) /\ InStep(order[o]) /\ TypeOK
    BY <1>2 DEF OrdersInv, RowsOK, KitchenInStep
<1>4. /\ order[o].status \in {"READY_FOR_PICKUP", "PICKED_UP"}
      /\ order[o].driver \in Drivers
    BY <1>2 DEF Asked, Carry
<1>5. order[o].driver # None
    BY <1>4, NamesAssumption
<1>6. /\ row \in Row
      /\ row.status = req[r].target /\ row.driver = order[o].driver
      /\ row.customer = order[o].customer /\ row.merchant = order[o].merchant
      /\ row.pay = order[o].pay /\ row.sub = order[o].sub
      /\ row.kitchen = order[o].kitchen
      /\ row.settled = order[o].settled /\ row.refunded = order[o].refunded
    BY <1>2 DEF Row, Live, Unanswered, Carried
<1>7. /\ order' = [order EXCEPT ![o] = row]
      /\ UNCHANGED <<custBal, drvBal, debt, drvStatus, drvWork, posted>>
    BY DEF MoveOn
<1> HIDE DEF row, o
<1>8. row.status \in Live /\ InStep(row)
    BY <1>2, <1>3, <1>4, <1>6 DEF InStep, Live, Unanswered, Carried
<1>9. Filled(row)
    BY <1>2, <1>3, <1>4, <1>6 DEF Filled
<1>10. Carrying(row) /\ Carrying(order[o])
    BY <1>2, <1>4, <1>5, <1>6 DEF Carrying, Carried
<1>11. /\ req' \in [Requests -> Cart \cup Patch \cup {None}]
       /\ \A q \in Requests : req'[q] # None => req'[q] = req[q]
    BY <1>1, <1>3, DoneEffect
<1> QED
    BY <1>2, <1>6, <1>7, <1>8, <1>9, <1>10, <1>11, ProgressStep

\* The mark that time has passed changes nothing else.
LEMMA GoOverdueStep ==
    ASSUME OrdersInv, NEW o \in Orders, GoOverdue(o)
    PROVE  Good
<1> DEFINE row == [order[o] EXCEPT !.overdue = TRUE]
<1>1. /\ order[o] \in Row /\ Filled(order[o]) /\ InStep(order[o])
      /\ req \in [Requests -> Cart \cup Patch \cup {None}]
    BY DEF OrdersInv, TypeOK, RowsOK, KitchenInStep
<1>2. /\ row \in Row
      /\ row.status = order[o].status /\ row.driver = order[o].driver
      /\ row.customer = order[o].customer /\ row.merchant = order[o].merchant
      /\ row.pay = order[o].pay /\ row.sub = order[o].sub
      /\ row.kitchen = order[o].kitchen
      /\ row.settled = order[o].settled /\ row.refunded = order[o].refunded
    BY <1>1 DEF Row
<1>3. /\ order' = [order EXCEPT ![o] = row]
      /\ order[o].status \in Live
      /\ UNCHANGED <<custBal, drvBal, debt, drvStatus, drvWork, posted, req>>
    BY DEF GoOverdue, Live
<1> HIDE DEF row
<1>4. Filled(row) /\ InStep(row)
    BY <1>1, <1>2 DEF Filled, InStep
<1>5. Carrying(row) <=> Carrying(order[o])
    BY <1>2 DEF Carrying
<1> QED
    BY <1>1, <1>2, <1>3, <1>4, <1>5, ProgressStep

\* A cancelled order gives back what was held: shared by the cancellations of
\* the parties and of the worker.
LEMMA CancelledStep ==
    ASSUME OrdersInv, NEW o \in Orders, NEW row \in Row, NEW back,
           order[o].status \in Unanswered \cup {"READY_FOR_PICKUP", "PICKED_UP"},
           order' = [order EXCEPT ![o] = row],
           row.status = "CANCELLED",
           row.kitchen = order[o].kitchen, row.driver = order[o].driver,
           row.customer = order[o].customer, row.merchant = order[o].merchant,
           row.settled = order[o].settled,
           back = IF Refundable(order[o]) THEN Total(order[o]) ELSE 0,
           Post(o, order[o].customer, None, Moved(-back, back, 0, 0, 0)),
           order[o].driver = None \/ Carrying(order[o]),
           \A d \in Drivers :
              drvWork'[d] = IF d = order[o].driver THEN "IDLE" ELSE drvWork[d],
           \A q \in Requests : req'[q] # None => req'[q] = req[q],
           drvWork' \in [Drivers -> {"IDLE", "BUSY"}],
           req' \in [Requests -> Cart \cup Patch \cup {None}],
           UNCHANGED <<debt, drvStatus>>
    PROVE  Good
<1> DEFINE n == Moved(-back, back, 0, 0, 0)
           z == Moved(0, 0, 0, 0, 0)
<1>1. TypeOK /\ order[o] \in Row /\ Filled(order[o]) /\ InStep(order[o])
    BY DEF OrdersInv, TypeOK, RowsOK, KitchenInStep
<1>2. order[o].status \in Live /\ order[o].status \notin {"NONE", "SETTLED", "CANCELLED"}
    BY DEF Live, Unanswered, Carried
<1>3. ~order[o].refunded /\ ~order[o].settled
    BY <1>1, <1>2 DEF Filled
<1>4. back = HeldFor(order[o]) /\ back \in Nat
    BY <1>1, <1>2, <1>3, TotalNat DEF Refundable, HeldFor
<1>5. n \in Net /\ n.customer = back
    BY <1>4, MovedNet
<1>6. Plus(posted[o], n) = z
  <2>1. posted[o] = Moved(back, -back, 0, 0, 0)
    BY <1>2, <1>4 DEF OrdersInv, LiveLedger
  <2> QED
    BY <1>4, <2>1 DEF Plus, Moved
<1>7. z \in Net /\ z.escrow = 0 /\ z.customer = 0 /\ z.merchant = 0
      /\ z.driver = 0 /\ z.platform = 0
    BY DEF z, Moved, Net
<1> HIDE DEF n, z
<1>8. /\ posted' = [posted EXCEPT ![o] = z]
      /\ posted' \in [Orders -> Net]
      /\ custBal' \in [Customers -> Int] /\ drvBal' \in [Drivers -> Int]
      /\ \A x \in Customers :
            custBal'[x] = IF x = order[o].customer THEN custBal[x] + back ELSE custBal[x]
    BY <1>1, <1>5, <1>6, PostEffect DEF n
<1>9. TypeOK'
    BY <1>1, <1>8 DEF TypeOK
<1>10. \A x \in Customers : custBal'[x] >= 0
    BY <1>1, <1>4, <1>8 DEF OrdersInv, CustomerNotOverdrawn, TypeOK
<1>11. Filled(row) /\ InStep(row)
    BY <1>1, <1>2, <1>3 DEF Filled, InStep, Unanswered
<1>12. row.status \in Final /\ row.status # "SETTLED"
    BY DEF Final
<1>13. z = Moved(0, 0, 0, 0, 0)
    BY DEF z
<1>14. z.customer <= 0 /\ z.customer + z.merchant + z.driver + z.platform = 0
    BY <1>7
<1> QED
    BY <1>2, <1>7, <1>8, <1>9, <1>10, <1>11, <1>12, <1>13, <1>14, FinishStep

\* A cancellation by one of the parties.
LEMMA CancelOrderStep ==
    ASSUME OrdersInv, NEW r \in Requests, CancelOrder(r)
    PROVE  Good
<1> DEFINE o    == req[r].order
           old  == order[o]
           back == IF Refundable(old) THEN Total(old) ELSE 0
           row  == [order[o] EXCEPT !.status = "CANCELLED",
                                    !.refunded = old.refunded \/ Refundable(old),
                                    !.endedBy = req[r].actor]
<1>1. /\ Locked(r, {"CANCELLED"}) /\ Done(r)
      /\ order' = [order EXCEPT ![o] = row]
      /\ Post(o, old.customer, None, Moved(-back, back, 0, 0, 0))
      /\ IF req[r].actor \in Drivers THEN ResetDriverIdle(req[r].actor)
         ELSE UNCHANGED drvWork
      /\ UNCHANGED <<debt, drvStatus>>
    BY DEF CancelOrder
<1>2. /\ o \in Orders /\ old \in Row
      /\ old.status = req[r].seen
      /\ req[r].target = "CANCELLED"
      /\ req[r].actor \in Customers \cup Merchants \cup Drivers
      /\ Asked(req[r])
      /\ req[r].actor \in Drivers => old.driver = req[r].actor
    BY <1>1, LockedFacts
<1>3. TypeOK /\ Filled(old)
    BY <1>2 DEF OrdersInv, RowsOK
<1>4. /\ req[r].actor \in Drivers => old.status \in {"READY_FOR_PICKUP", "PICKED_UP"}
      /\ req[r].actor \notin Drivers => old.status \in Unanswered
    BY <1>2 DEF Asked, Carry
<1>5. /\ row \in Row /\ row.status = "CANCELLED"
      /\ row.kitchen = old.kitchen /\ row.driver = old.driver
      /\ row.customer = old.customer /\ row.merchant = old.merchant
      /\ row.settled = old.settled
  <2>1. (old.refunded \/ Refundable(old)) \in BOOLEAN
    BY <1>2 DEF Row, Refundable
  <2> DEFINE paid == old.refunded \/ Refundable(old)
             who   == req[r].actor
  <2>2. paid \in BOOLEAN /\ who \in Customers \cup Merchants \cup Drivers
    BY <1>2, <2>1
  <2>3. row = [order[o] EXCEPT !.status = "CANCELLED", !.refunded = paid,
                               !.endedBy = who]
    OBVIOUS
  <2> HIDE DEF paid, who, row
  <2> QED
    BY <1>2, <2>2, <2>3 DEF Row, Final
<1>6. old.driver = None \/ Carrying(old)
    BY <1>3, <1>4 DEF Filled, Carrying, Unanswered, Carried
<1>7. /\ drvWork' \in [Drivers -> {"IDLE", "BUSY"}]
      /\ \A d \in Drivers : drvWork'[d] = IF d = old.driver THEN "IDLE" ELSE drvWork[d]
  <2>1. CASE req[r].actor \in Drivers
    BY <1>1, <1>2, <1>3, <2>1, ResetEffect
  <2>2. CASE req[r].actor \notin Drivers
    <3>1. old.driver = None
        BY <1>3, <1>4, <2>2 DEF Filled, Unanswered
    <3> QED
        BY <1>1, <1>3, <2>2, <3>1, NamesAssumption DEF TypeOK
  <2> QED
    BY <2>1, <2>2
<1>8. /\ req' \in [Requests -> Cart \cup Patch \cup {None}]
      /\ \A q \in Requests : req'[q] # None => req'[q] = req[q]
    BY <1>1, <1>3, DoneEffect
<1>9. old.status \in Unanswered \cup {"READY_FOR_PICKUP", "PICKED_UP"}
    BY <1>4
<1> HIDE DEF o, row, back
<1>10. back = IF Refundable(old) THEN Total(old) ELSE 0
    BY DEF back
<1> QED
    BY <1>1, <1>2, <1>5, <1>6, <1>7, <1>8, <1>9, <1>10, CancelledStep

\* A cancellation by the worker: no driver has the order yet.
LEMMA AutoCancelStep ==
    ASSUME OrdersInv, NEW o \in Orders, AutoCancel(o)
    PROVE  Good
<1> DEFINE old  == order[o]
           back == IF Refundable(old) THEN Total(old) ELSE 0
           row  == [order[o] EXCEPT !.status = "CANCELLED",
                                    !.refunded = old.refunded \/ Refundable(old)]
<1>1. /\ old.status = "CREATED"
      /\ order' = [order EXCEPT ![o] = row]
      /\ Post(o, old.customer, None, Moved(-back, back, 0, 0, 0))
      /\ UNCHANGED <<debt, drvStatus, drvWork, req>>
    BY DEF AutoCancel, Sweepable
<1>2. TypeOK /\ old \in Row /\ Filled(old)
    BY DEF OrdersInv, TypeOK, RowsOK
<1>3. /\ row \in Row /\ row.status = "CANCELLED"
      /\ row.kitchen = old.kitchen /\ row.driver = old.driver
      /\ row.customer = old.customer /\ row.merchant = old.merchant
      /\ row.settled = old.settled
    BY <1>2 DEF Row, Final, Refundable
<1>4. old.driver = None
    BY <1>1, <1>2 DEF Filled
<1>5. /\ drvWork' \in [Drivers -> {"IDLE", "BUSY"}]
      /\ \A d \in Drivers : drvWork'[d] = IF d = old.driver THEN "IDLE" ELSE drvWork[d]
    BY <1>1, <1>2, <1>4, NamesAssumption DEF TypeOK
<1>6. /\ req' \in [Requests -> Cart \cup Patch \cup {None}]
      /\ \A q \in Requests : req'[q] # None => req'[q] = req[q]
    BY <1>1, <1>2 DEF TypeOK
<1>7. old.status \in Unanswered \cup {"READY_FOR_PICKUP", "PICKED_UP"}
    BY <1>1 DEF Unanswered
<1> HIDE DEF row, back
<1>8. back = IF Refundable(old) THEN Total(old) ELSE 0
    BY DEF back
<1> QED
    BY <1>1, <1>3, <1>4, <1>5, <1>6, <1>7, <1>8, CancelledStep

\* Delivery splits the items and the fee, empties the escrow, frees the driver.
LEMMA DeliverStep ==
    ASSUME OrdersInv, NEW r \in Requests, Deliver(r)
    PROVE  Good
<1> DEFINE o    == req[r].order
           old  == order[o]
           n    == IF old.pay = "WALLET" THEN WalletSettlement(old)
                   ELSE CashSettlement(old)
           row  == [order[o] EXCEPT !.status = "SETTLED", !.settled = TRUE]
           m    == Plus(posted[o], n)
<1>1. /\ Locked(r, {"DELIVERED"}) /\ Done(r)
      /\ old.driver # None
      /\ order' = [order EXCEPT ![o] = row]
      /\ Post(o, old.customer, old.driver, n)
      /\ drvStatus' = [drvStatus EXCEPT ![old.driver] =
            IF old.pay = "CASH" /\ drvBal[old.driver] + n.driver < NegativeCeiling
            THEN "SUSPENDED" ELSE @]
      /\ ResetDriverIdle(old.driver)
      /\ UNCHANGED debt
    BY DEF Deliver
<1>2. /\ o \in Orders /\ old \in Row /\ old.status \in Live
      /\ old.status = req[r].seen /\ req[r].target = "DELIVERED"
      /\ Asked(req[r])
    BY <1>1, LockedFacts
<1>3. TypeOK /\ Filled(old) /\ InStep(old)
    BY <1>2 DEF OrdersInv, RowsOK, KitchenInStep
<1>4. old.status = "IN_TRANSIT"
    BY <1>2 DEF Asked, Carry
<1>5. /\ old.customer \in Customers /\ old.driver \in Drivers
      /\ old.pay \in {"WALLET", "CASH"} /\ old.sub \in Nat /\ ~old.refunded
    BY <1>2, <1>3, <1>4 DEF Filled, Row
<1>6. /\ row \in Row /\ row.status = "SETTLED" /\ row.settled = TRUE
      /\ row.pay = old.pay /\ row.sub = old.sub /\ row.kitchen = old.kitchen
      /\ row.driver = old.driver /\ row.customer = old.customer
      /\ row.refunded = old.refunded
    BY <1>2 DEF Row, Final
<1> DEFINE fee == Commission(old.sub)
           cut == DeliveryCommission
<1>7. /\ fee \in Nat /\ fee <= old.sub /\ cut \in Nat
      /\ DriverEarning = DeliveryFee - cut /\ DeliveryFee \in Nat
      /\ MerchantEarning(old.sub) = old.sub - fee
      /\ Total(old) = old.sub + DeliveryFee
    BY <1>5, CommissionBounds, FeeParts DEF MerchantEarning, Total
<1> HIDE DEF fee, cut
<1>8. /\ posted[o] \in Net
      /\ posted[o].escrow = HeldFor(old) /\ posted[o].customer = -HeldFor(old)
      /\ posted[o].merchant = 0 /\ posted[o].driver = 0 /\ posted[o].platform = 0
    BY <1>2, <1>4, LivePosted
<1>9. ASSUME old.pay = "WALLET"
      PROVE  /\ n \in Net /\ n.customer = 0
             /\ m \in Net /\ m.escrow = 0 /\ m.customer <= 0
             /\ m.customer + m.merchant + m.driver + m.platform = 0
             /\ Split(row, m)
  <2>1. n = Moved(-(old.sub + DeliveryFee), 0, old.sub - fee, DeliveryFee - cut, fee + cut)
    BY <1>7, <1>9 DEF WalletSettlement, fee, cut
  <2>2. /\ -(old.sub + DeliveryFee) \in Int /\ old.sub - fee \in Int
        /\ DeliveryFee - cut \in Int /\ fee + cut \in Int
    BY <1>5, <1>7
  <2>3. /\ n \in Net /\ n.escrow = -(old.sub + DeliveryFee) /\ n.customer = 0
        /\ n.merchant = old.sub - fee /\ n.driver = DeliveryFee - cut
        /\ n.platform = fee + cut
    <3> HIDE DEF n
    <3> QED
      BY <2>1, <2>2 DEF Moved, Net
  <2>4. HeldFor(old) = old.sub + DeliveryFee
    BY <1>2, <1>7, <1>9 DEF HeldFor
  <2> HIDE DEF n
  <2>5. /\ m \in Net
        /\ m.escrow = posted[o].escrow + n.escrow
        /\ m.customer = posted[o].customer + n.customer
        /\ m.merchant = posted[o].merchant + n.merchant
        /\ m.driver = posted[o].driver + n.driver
        /\ m.platform = posted[o].platform + n.platform
    BY <1>8, <2>3, PlusNet
  <2> HIDE DEF m
  <2>6. /\ m.escrow = 0 /\ m.customer = -(old.sub + DeliveryFee)
        /\ m.merchant = old.sub - fee /\ m.driver = DeliveryFee - cut
        /\ m.platform = fee + cut
    BY <1>5, <1>7, <1>8, <2>3, <2>4, <2>5
  <2>7. m.customer <= 0 /\ m.customer + m.merchant + m.driver + m.platform = 0
    BY <1>5, <1>7, <2>6
  <2>8. Total(row) = old.sub + DeliveryFee
    BY <1>6 DEF Total
  <2> HIDE DEF row, o
  <2>9. Split(row, m)
    BY <1>5, <1>6, <1>7, <1>9, <2>6, <2>8 DEF Split, fee, cut
  <2> QED
    BY <2>3, <2>5, <2>6, <2>7, <2>9
<1>10. ASSUME old.pay = "CASH"
      PROVE  /\ n \in Net /\ n.customer = 0
             /\ m \in Net /\ m.escrow = 0 /\ m.customer <= 0
             /\ m.customer + m.merchant + m.driver + m.platform = 0
             /\ Split(row, m)
  <2>1. n = Moved(0, 0, old.sub - fee, -(old.sub - fee + fee + cut), fee + cut)
    BY <1>7, <1>10 DEF CashSettlement, fee, cut
  <2>2. /\ old.sub - fee \in Int
        /\ -(old.sub - fee + fee + cut) \in Int /\ fee + cut \in Int
    BY <1>5, <1>7
  <2>3. /\ n \in Net /\ n.escrow = 0 /\ n.customer = 0
        /\ n.merchant = old.sub - fee /\ n.driver = -(old.sub - fee + fee + cut)
        /\ n.platform = fee + cut
    <3> HIDE DEF n
    <3> QED
      BY <2>1, <2>2 DEF Moved, Net
  <2>4. HeldFor(old) = 0
    BY <1>10 DEF HeldFor
  <2> HIDE DEF n
  <2>5. /\ m \in Net
        /\ m.escrow = posted[o].escrow + n.escrow
        /\ m.customer = posted[o].customer + n.customer
        /\ m.merchant = posted[o].merchant + n.merchant
        /\ m.driver = posted[o].driver + n.driver
        /\ m.platform = posted[o].platform + n.platform
    BY <1>8, <2>3, PlusNet
  <2> HIDE DEF m
  <2>6. /\ m.escrow = 0 /\ m.customer = 0
        /\ m.merchant = old.sub - fee /\ m.driver = -(old.sub + cut)
        /\ m.platform = fee + cut
    BY <1>5, <1>7, <1>8, <2>3, <2>4, <2>5
  <2>7. m.customer <= 0 /\ m.customer + m.merchant + m.driver + m.platform = 0
    BY <1>5, <1>7, <2>6
  <2> HIDE DEF row, o
  <2>8. Split(row, m)
    BY <1>5, <1>6, <1>7, <1>10, <2>6 DEF Split, fee, cut
  <2> QED
    BY <2>3, <2>5, <2>6, <2>7, <2>8
<1> HIDE DEF n
<1>11. /\ n \in Net /\ n.customer = 0
       /\ m \in Net /\ m.escrow = 0 /\ m.customer <= 0
       /\ m.customer + m.merchant + m.driver + m.platform = 0
       /\ Split(row, m)
    BY <1>5, <1>9, <1>10
<1>12. /\ posted' = [posted EXCEPT ![o] = m]
       /\ posted' \in [Orders -> Net]
       /\ custBal' \in [Customers -> Int] /\ drvBal' \in [Drivers -> Int]
       /\ \A x \in Customers :
             custBal'[x] = IF x = old.customer THEN custBal[x] + n.customer ELSE custBal[x]
    BY <1>1, <1>2, <1>3, <1>11, PostEffect
<1>13. TypeOK'
  <2>1. order' \in [Orders -> Row]
    BY <1>1, <1>2, <1>3, <1>6 DEF TypeOK
  <2>2. drvStatus' \in [Drivers -> {"ACTIVE", "SUSPENDED"}]
    BY <1>1, <1>3 DEF TypeOK
  <2> QED
    BY <1>1, <1>3, <1>12, <2>1, <2>2, ResetEffect, DoneEffect DEF TypeOK
<1>14. \A x \in Customers : custBal'[x] >= 0
    BY <1>3, <1>11, <1>12 DEF OrdersInv, CustomerNotOverdrawn, TypeOK
<1>15. \A x \in Drivers : drvWork'[x] = IF x = old.driver THEN "IDLE" ELSE drvWork[x]
    BY <1>1, <1>3, ResetEffect
<1>16. \A q \in Requests : req'[q] # None => req'[q] = req[q]
    BY <1>1, <1>3, DoneEffect
<1>17. Carrying(old)
    BY <1>1, <1>4 DEF Carrying, Carried
<1>18. Filled(row) /\ InStep(row) /\ row.status \in Final /\ row.status # "CANCELLED"
    BY <1>3, <1>4, <1>5, <1>6 DEF Filled, InStep, Final, Carried
<1> HIDE DEF row, m, o
<1> QED
    BY <1>1, <1>2, <1>6, <1>11, <1>12, <1>13, <1>14, <1>15, <1>16, <1>17, <1>18,
       FinishStep

\* The remaining actions touch neither an order nor its money.
LEMMA AsideStep ==
    ASSUME OrdersInv,
           \/ \E r \in Requests : Fail(r)
           \/ \E d \in Drivers, s \in {"ACTIVE", "SUSPENDED"} : UpdateUserStatus(d, s)
    PROVE  Good
<1>1. TypeOK /\ ReadingOK
    BY DEF OrdersInv
<1>2. /\ TypeOK' /\ ReadingOK'
      /\ UNCHANGED <<order, custBal, drvBal, drvWork, posted>>
  <2>1. CASE \E r \in Requests : Fail(r)
    BY <1>1, <2>1, DoneEffect DEF Fail, TypeOK, ReadingOK
  <2>2. CASE \E d \in Drivers, s \in {"ACTIVE", "SUSPENDED"} : UpdateUserStatus(d, s)
    BY <1>1, <2>2 DEF UpdateUserStatus, TypeOK, ReadingOK
  <2> QED
    BY <2>1, <2>2
<1> QED
    BY <1>2, QuietStep

-----------------------------------------------------------------------------
(* Theorems *)

\* Every step keeps the inductive invariant, never touches an order that
\* ended, and moves money only as the promise allows.
LEMMA NextStep == ASSUME OrdersInv, [Next]_vars PROVE Good
<1>1. CASE Next
  <2>1. CASE \E r \in Requests, c \in Customers, m \in Merchants, sub \in Subtotals :
                CreateGate(r, c, m, sub)
    BY <2>1, CreateGateStep
  <2>2. CASE \E r \in Requests, o \in Orders, pay \in {"WALLET", "CASH"} :
                CreateCommit(r, o, pay)
    BY <2>2, CreateCommitStep
  <2>3. CASE \E d \in Drivers, o \in Orders : AcceptFoodOrder(d, o)
    BY <2>3, AcceptStep
  <2>4. CASE \E r \in Requests, o \in Orders,
                actor \in Customers \cup Merchants \cup Drivers, target \in Targets :
                ReadOrder(r, o, actor, target)
    BY <2>4, ReadOrderStep
  <2>5. CASE \E r \in Requests : Prepare(r)
    BY <2>5, PrepareStep
  <2>6. CASE \E r \in Requests : MoveOn(r)
    BY <2>6, MoveOnStep
  <2>7. CASE \E r \in Requests : CancelOrder(r)
    BY <2>7, CancelOrderStep
  <2>8. CASE \E r \in Requests : Deliver(r)
    BY <2>8, DeliverStep
  <2>9. CASE \E o \in Orders : AutoCancel(o)
    BY <2>9, AutoCancelStep
  <2>10. CASE \E o \in Orders : GoOverdue(o)
    BY <2>10, GoOverdueStep
  <2>11. CASE \/ \E r \in Requests : Fail(r)
              \/ \E d \in Drivers, s \in {"ACTIVE", "SUSPENDED"} : UpdateUserStatus(d, s)
    BY <2>11, AsideStep
  <2> QED
    BY <1>1, <2>1, <2>2, <2>3, <2>4, <2>5, <2>6, <2>7, <2>8, <2>9, <2>10, <2>11
       DEF Next
<1>2. CASE UNCHANGED vars
  <2>1. TypeOK' /\ ReadingOK'
    BY <1>2 DEF OrdersInv, TypeOK, ReadingOK, vars
  <2> QED
    BY <1>2, <2>1, QuietStep DEF vars
<1> QED
    BY <1>1, <1>2

\* working_status follows from the drivers' duty: who carries an order is busy, and
\* with one order only.
LEMMA ExclusiveStep ==
    ASSUME OrdersInv, OrdersInv', DriverExclusive, DutyStep
    PROVE  DriverExclusive'
<1> DEFINE carrier == [o \in Orders |-> Carrier(order[o])]
           One(c, w) ==
              /\ \A d \in Drivers : w[d] = "BUSY" <=> \E o \in Orders : c[o] = d
              /\ \A o, p \in Orders : c[o] = c[p] /\ c[o] # None => o = p
<1>1. /\ \A o \in Orders : carrier[o] \in Drivers \cup {None}
      /\ \A d \in Drivers : \A o \in Orders :
            carrier[o] = d <=> order[o].driver = d /\ order[o].status \in Carried
    BY NamesAssumption DEF OrdersInv, TypeOK, Row, Carrier
<1>2. \A d \in Drivers : \A o \in Orders :
            carrier'[o] = d <=> order'[o].driver = d /\ order'[o].status \in Carried
    BY NamesAssumption DEF OrdersInv, TypeOK, Row, Carrier
<1>3. \A o \in Orders : Carrying(order'[o]) => order'[o].driver \in Drivers
    BY DEF OrdersInv, TypeOK, Row, Carrying
<1>4. drvWork \in [Drivers -> {"IDLE", "BUSY"}] /\ carrier = [o \in Orders |-> carrier[o]]
    BY DEF OrdersInv, TypeOK
<1>5. One(carrier, drvWork)
    BY <1>1, NamesAssumption DEF DriverExclusive, Carrying
<1>6. One(carrier', drvWork')
  <2>1. CASE UNCHANGED <<carrier, drvWork>>
    <3> HIDE DEF carrier
    <3> QED
      BY <1>5, <2>1
  <2>2. ASSUME NEW d \in Drivers, NEW o \in Orders, Duty!Take(d, o)
        PROVE  One(carrier', drvWork')
    <3>1. /\ carrier[o] = None /\ drvWork[d] = "IDLE"
          /\ carrier' = [carrier EXCEPT ![o] = d]
          /\ drvWork' = [drvWork EXCEPT ![d] = "BUSY"]
      BY <2>2 DEF Duty!Take
    <3> HIDE DEF carrier
    <3> QED
      BY <1>4, <1>5, <3>1, NamesAssumption
  <2>3. ASSUME NEW o \in Orders, Duty!Release(o)
        PROVE  One(carrier', drvWork')
    <3>1. /\ carrier[o] \in Drivers
          /\ carrier' = [carrier EXCEPT ![o] = None]
          /\ drvWork' = [drvWork EXCEPT ![carrier[o]] = "IDLE"]
      BY <1>1, <2>3 DEF Duty!Release
    <3> HIDE DEF carrier
    <3> QED
      BY <1>4, <1>5, <3>1, NamesAssumption
  <2> QED
    BY <2>1, <2>2, <2>3 DEF DutyStep, Duty!Next, Duty!vars
<1> QED
  <2>1. \A d \in Drivers :
            drvWork'[d] = "BUSY" <=>
               \E o \in Orders : order'[o].driver = d /\ order'[o].status \in Carried
    BY <1>2, <1>6
  <2>2. ASSUME NEW o \in Orders, NEW p \in Orders,
               Carrying(order'[o]), Carrying(order'[p]),
               order'[o].driver = order'[p].driver
        PROVE  o = p
    BY <1>2, <1>3, <1>6, <2>2, NamesAssumption DEF Carrying
  <2> QED
    BY <2>1, <2>2 DEF DriverExclusive

\* The empty system is the promise's initial state.
LEMMA InitPromise == Init => Promise!Init
<1> SUFFICES ASSUME Init PROVE Promise!Init
    OBVIOUS
<1>1. \A o \in Orders : /\ order[o] = NoRow
                        /\ posted[o] = Zero
    BY DEF Init
<1>2. Phase(NoRow) = "none"
    BY DEF Phase, NoRow
<1>3. Zero.escrow = 0 /\ Zero.customer = 0
      /\ Zero.merchant + Zero.driver + Zero.platform = 0
    BY MovedNet DEF Zero
<1> QED
    BY <1>1, <1>2, <1>3 DEF Promise!Init

\* The inductive invariant holds in every state of the specification,
\* whatever the sets of users, orders and requests and whatever the amounts.
THEOREM FoodInvariant == Spec => []IndInv
<1>1. IndInv /\ [Next]_vars => IndInv'
    BY NextStep, ExclusiveStep DEF Good, IndInv
<1> QED
    BY InitIndInv, <1>1, PTL DEF Spec

\* The order's status and its merchant_status stay in step, although only the
\* first is compared again under the lock.
THEOREM FoodKitchen == Spec => []KitchenInStep
<1>1. IndInv => KitchenInStep
    BY DEF IndInv, OrdersInv
<1> QED
    BY FoodInvariant, <1>1, PTL

\* A settled order paid each party its share.
THEOREM FoodSplit == Spec => []SettledSplit
<1>1. IndInv => SettledSplit
    BY DEF IndInv, OrdersInv
<1> QED
    BY FoodInvariant, <1>1, PTL

\* A driver carries one food order at a time and working_status says so.
THEOREM FoodDriver == Spec => []DriverExclusive
<1>1. IndInv => DriverExclusive
    BY DEF IndInv, OrdersInv
<1> QED
    BY FoodInvariant, <1>1, PTL

\* A food order that ended is never touched again.
THEOREM FoodFinal == Spec => FinalIsFinal
<1>1. IndInv /\ [Next]_vars => [FinalKept]_vars
    BY NextStep DEF Good, IndInv
<1> QED
    BY FoodInvariant, <1>1, PTL DEF Spec, FinalIsFinal, FinalKept

\* Food orders implement the promise about their money, whoever ends them.
THEOREM FoodKeepsPromise == Spec => KeepsPromise
<1>1. IndInv /\ [Next]_vars => [Promise!Next]_(Promise!vars)
    BY NextStep DEF Good, IndInv, PromiseStep
<1> QED
    BY InitPromise, FoodInvariant, <1>1, PTL DEF Spec, KeepsPromise, Promise!Spec

\* At first no driver carries an order, and all are idle.
LEMMA InitDuty == Init => Duty!Init
<1> SUFFICES ASSUME Init PROVE Duty!Init
    OBVIOUS
<1>1. \A o \in Orders : order[o] = NoRow
    BY DEF Init
<1>2. Carrier(NoRow) = None
    BY DEF Carrier, NoRow, Carried
<1> QED
    BY <1>1, <1>2 DEF Init, Duty!Init

\* Food orders implement the duty towards their drivers, whoever moves them.
THEOREM FoodKeepsDuty == Spec => KeepsDuty
<1>1. IndInv /\ [Next]_vars => [Duty!Next]_(Duty!vars)
    BY NextStep DEF Good, IndInv, DutyStep
<1> QED
    BY InitDuty, FoodInvariant, <1>1, PTL DEF Spec, KeepsDuty, Duty!Spec

=============================================================================
