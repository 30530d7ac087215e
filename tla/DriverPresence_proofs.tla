------------------------- MODULE DriverPresence_proofs ------------------------
(***************************************************************************)
(* The age of the positions a search shows is bounded, and what stays in   *)
(* Redis reaches the table, for all values of the times, the drivers, the  *)
(* calls in flight and the workers.                                        *)
(***************************************************************************)
EXTENDS DriverPresence, TLAPS

\* The times are numbers, and Forever is later than any TTL set in time.
LEMMA Constants ==
    /\ RedisTTL \in Nat /\ FreshWindow \in Nat /\ PgFreshWindow \in Nat
    /\ FlushInterval \in Nat /\ FlushTime \in Nat /\ CallTime \in Nat
    /\ Horizon \in Nat
    /\ Forever \in Nat
    /\ Horizon + RedisTTL < Forever
    /\ KeyAge \in Nat
    /\ KeyAge = 2 * CallTime + RedisTTL
BY TimesAssumption DEF Forever, KeyAge

\* The older of two coordinates is one of them, and no later than either.
LEMMA OlderIs ==
    ASSUME NEW p, p.lat \in Nat, p.lng \in Nat
    PROVE  /\ Older(p) \in Nat
           /\ Older(p) <= p.lat
           /\ Older(p) <= p.lng
           /\ Older(p) = p.lat \/ Older(p) = p.lng
BY DEF Older

LEMMA InitAges == Init => AgesOK
<1> SUFFICES ASSUME Init PROVE AgesOK
    OBVIOUS
<1>1. TypeOK
  <2>1. 0 \in Times
    BY Constants DEF Times
  <2>2. flush \in [Workers -> Flush]
    <3>1. [since |-> 0, todo |-> {}, lat |-> None, out |-> [d \in Drivers |-> None]] \in Flush
      BY <2>1 DEF Flush
    <3> QED
      BY <3>1 DEF Init
  <2> QED
    BY <2>1, <2>2 DEF Init, TypeOK
<1>2. CallsOK /\ KeysOK /\ RowsOK
    BY DEF Init, CallsOK, KeysOK, RowsOK
<1>3. \A w \in Workers : /\ flush[w].since = 0
                         /\ flush[w].todo = {}
                         /\ flush[w].lat = None
                         /\ \A d \in Drivers : flush[w].out[d] = None
    BY DEF Init
<1>4. FlushesOK
  <2> SUFFICES ASSUME NEW w \in Workers
               PROVE  /\ flush[w].since <= now
                      /\ ~Flushing(w)
                      /\ flush[w].lat = None
                      /\ \A d \in Drivers : flush[w].out[d] = None
    BY DEF FlushesOK
  <2> QED
    BY <1>3 DEF Init, Flushing, InHand
<1> QED
    BY <1>1, <1>2, <1>4 DEF AgesOK

\* Going online or offline, and the orders' and administrators' changes, leave
\* positions alone.
LEMMA UserStep ==
    ASSUME AgesOK, \E d \in Drivers : GoOnline(d) \/ GoOffline(d) \/ UpdateUser(d)
    PROVE  AgesOK'
<1>1. PICK d \in Drivers : GoOnline(d) \/ GoOffline(d) \/ UpdateUser(d)
    OBVIOUS
<1>2. UNCHANGED <<now, key, row, call, flush, unexpiring, missed>>
    BY <1>1 DEF GoOnline, GoOffline, UpdateUser, faults
<1>3. TypeOK'
  <2>1. /\ online' \in [Drivers -> BOOLEAN]
        /\ duty' \in [Drivers -> {"IDLE", "BUSY", "SUSPENDED"}]
        /\ leaving' \subseteq Drivers
    BY <1>1 DEF AgesOK, TypeOK, GoOnline, GoOffline, UpdateUser
  <2> QED
    BY <1>2, <2>1 DEF AgesOK, TypeOK
<1>4. CallsOK' /\ KeysOK' /\ RowsOK'
    BY <1>2 DEF AgesOK, CallsOK, KeysOK, RowsOK, Step
<1>5. FlushesOK'
    BY <1>2 DEF AgesOK, FlushesOK, Flushing, InHand
<1> QED
    BY <1>3, <1>4, <1>5 DEF AgesOK

\* The key of one driver goes; calls and flushes are as they were.
LEMMA DeleteKeyStep ==
    ASSUME AgesOK, NEW d \in Drivers, DeleteKey(d)
    PROVE  AgesOK'
<1>1. /\ UNCHANGED <<now, online, duty, row, call, flush, unexpiring, missed>>
      /\ leaving' = leaving \ {d}
      /\ key' = [key EXCEPT ![d] = None]
    BY DEF DeleteKey, faults
<1>2. TypeOK'
    BY <1>1 DEF AgesOK, TypeOK
<1>3. \A x \in Drivers : key'[x] # None => key'[x] = key[x]
    BY <1>1 DEF AgesOK, TypeOK
<1>4. CallsOK'
  <2> SUFFICES ASSUME NEW c \in Calls, call[c] # None
               PROVE  /\ call[c].at <= now
                      /\ now <= call[c].at + CallTime
                      /\ call[c].step = "expire" /\ key'[call[c].driver] # None
                            => call[c].at <= key'[call[c].driver].at + CallTime
    BY <1>1 DEF CallsOK
  <2>1. call[c].driver \in Drivers
    BY DEF AgesOK, TypeOK, Update
  <2> QED
    BY <1>3, <2>1 DEF AgesOK, CallsOK
<1>5. KeysOK' /\ RowsOK'
    BY <1>1, <1>3 DEF AgesOK, KeysOK, RowsOK, Step
<1>6. FlushesOK'
    BY <1>1 DEF AgesOK, FlushesOK, Flushing, InHand
<1> QED
    BY <1>2, <1>4, <1>5, <1>6 DEF AgesOK

\* Time passes only while every call and flush has some left, and takes the
\* keys whose time is over.
LEMMA TickStep ==
    ASSUME AgesOK, Tick
    PROVE  AgesOK'
<1>1. /\ UNCHANGED <<online, duty, leaving, row, call, flush, unexpiring, missed>>
      /\ now' = now + 1
      /\ now < Horizon
    BY DEF Tick, users, faults
<1>2. now \in Nat /\ now' \in Times /\ now' \in Nat
    BY <1>1, Constants DEF AgesOK, TypeOK, Times
<1>3. /\ key' \in [Drivers -> Hash \cup {None}]
      /\ \A d \in Drivers : key'[d] # None => key'[d] = key[d] /\ key[d].until > now
  <2>1. key' = [d \in Drivers |-> IF key[d] # None /\ key[d].until <= now THEN None ELSE key[d]]
    BY DEF Tick
  <2>2. \A d \in Drivers : key[d] # None => key[d].until \in Nat
    BY Constants DEF AgesOK, TypeOK, Hash
  <2> QED
    BY <2>1, <2>2, <1>2 DEF AgesOK, TypeOK
<1>4. TypeOK'
    BY <1>1, <1>2, <1>3 DEF AgesOK, TypeOK
<1>5. CallsOK'
  <2> SUFFICES ASSUME NEW c \in Calls, call[c] # None
               PROVE  /\ call[c].at <= now + 1
                      /\ now + 1 <= call[c].at + CallTime
                      /\ call[c].step = "expire" /\ key'[call[c].driver] # None
                            => call[c].at <= key'[call[c].driver].at + CallTime
    BY <1>1 DEF CallsOK
  <2>1. call[c].driver \in Drivers /\ call[c].at \in Nat
    BY Constants DEF AgesOK, TypeOK, Update, Times
  <2>2. now - call[c].at < CallTime
    BY DEF Tick
  <2>3. /\ call[c].at <= now
        /\ call[c].step = "expire" /\ key[call[c].driver] # None
              => call[c].at <= key[call[c].driver].at + CallTime
    BY DEF AgesOK, CallsOK
  <2> QED
    BY <1>2, <1>3, <2>1, <2>2, <2>3, Constants
<1>6. KeysOK'
  <2> SUFFICES ASSUME NEW d \in Drivers, key'[d] # None
               PROVE  /\ key[d].at <= now + 1
                      /\ now + 1 <= key[d].until
                      /\ key[d].until # Forever => key[d].until <= now + 1 + RedisTTL
                      /\ d \notin unexpiring =>
                            IF key[d].until = Forever
                            THEN \E c \in Calls : Step(c, "expire") /\ call[c].driver = d
                            ELSE key[d].until <= key[d].at + KeyAge
    BY <1>1, <1>3 DEF KeysOK, Step
  <2>1. key[d] # None /\ key[d] \in Hash /\ key[d].until > now
    BY <1>3 DEF AgesOK, TypeOK
  <2>2. key[d].at \in Nat /\ key[d].until \in Nat
    BY <2>1, Constants DEF Hash, Times
  <2>3. /\ key[d].at <= now
        /\ key[d].until # Forever => key[d].until <= now + RedisTTL
        /\ d \notin unexpiring =>
              IF key[d].until = Forever
              THEN \E c \in Calls : Step(c, "expire") /\ call[c].driver = d
              ELSE key[d].until <= key[d].at + KeyAge
    BY <2>1 DEF AgesOK, KeysOK
  <2> QED
    BY <1>2, <2>1, <2>2, <2>3, Constants
<1>7. FlushesOK'
  <2> SUFFICES ASSUME NEW w \in Workers
               PROVE  /\ flush[w].since <= now + 1
                      /\ Flushing(w) => now + 1 <= flush[w].since + FlushTime
    BY <1>1 DEF AgesOK, FlushesOK, Flushing, InHand
  <2>1. flush[w].since \in Nat
    BY Constants DEF AgesOK, TypeOK, Flush, Times
  <2>2. flush[w].since <= now
    BY DEF AgesOK, FlushesOK
  <2>3. Flushing(w) => now - flush[w].since < FlushTime
    BY DEF Tick
  <2> QED
    BY <1>2, <2>1, <2>2, <2>3, Constants
<1>8. RowsOK'
    BY <1>1 DEF AgesOK, RowsOK
<1> QED
    BY <1>4, <1>5, <1>6, <1>7, <1>8 DEF AgesOK

-----------------------------------------------------------------------------
(* UpdateLocation *)

\* A call that begins takes the present time, and one whose HSET fails goes on
\* to the row: neither is about to set a TTL.
LEMMA EarlyCallStep ==
    ASSUME AgesOK, NEW c \in Calls,
           (\E d \in Drivers : UpdateLocation(c, d)) \/ HSetFails(c)
    PROVE  AgesOK'
<1>1. UNCHANGED <<now, online, duty, leaving, key, row, flush, unexpiring, missed>>
    BY DEF UpdateLocation, HSetFails, users, faults
<1>2. /\ call' \in [Calls -> Update \cup {None}]
      /\ \A x \in Calls \ {c} : call'[x] = call[x]
      /\ call'[c] \in Update
      /\ call'[c].at <= now
      /\ now <= call'[c].at + CallTime
      /\ call'[c].step # "expire"
      /\ ~Step(c, "expire")
  <2>1. CASE \E d \in Drivers : UpdateLocation(c, d)
    <3>1. PICK d \in Drivers : UpdateLocation(c, d)
      BY <2>1
    <3>2. /\ call[c] = None
          /\ call' = [call EXCEPT ![c] = [driver |-> d, at |-> now, step |-> "hset"]]
      BY <3>1 DEF UpdateLocation
    <3>3. now \in Times /\ now \in Nat
      BY Constants DEF AgesOK, TypeOK, Times
    <3>4. call'[c] = [driver |-> d, at |-> now, step |-> "hset"]
      BY <3>2 DEF AgesOK, TypeOK
    <3>5. call'[c] \in Update
      BY <3>3, <3>4 DEF Update
    <3> QED
      BY <3>2, <3>3, <3>4, <3>5, Constants DEF AgesOK, TypeOK, Step
  <2>2. CASE HSetFails(c)
    <3>1. /\ call[c] # None
          /\ call[c].step = "hset"
          /\ call' = [call EXCEPT ![c].step = "upsert"]
      BY <2>2 DEF HSetFails, Step, Goto
    <3>2. call[c] \in Update
      BY <3>1 DEF AgesOK, TypeOK
    <3>3. call'[c] = [call[c] EXCEPT !.step = "upsert"]
      BY <3>1 DEF AgesOK, TypeOK
    <3>4. call'[c] \in Update /\ call'[c].at = call[c].at /\ call'[c].step = "upsert"
      BY <3>2, <3>3 DEF Update
    <3>5. call[c].at <= now /\ now <= call[c].at + CallTime
      BY <3>1 DEF AgesOK, CallsOK
    <3> QED
      BY <3>1, <3>4, <3>5 DEF AgesOK, TypeOK, Step
  <2> QED
    BY <2>1, <2>2
<1>3. TypeOK'
    BY <1>1, <1>2 DEF AgesOK, TypeOK
<1>4. CallsOK'
    BY <1>1, <1>2 DEF AgesOK, CallsOK
<1>5. KeysOK'
    BY <1>1, <1>2 DEF AgesOK, KeysOK, Step
<1>6. FlushesOK' /\ RowsOK'
    BY <1>1 DEF AgesOK, FlushesOK, Flushing, InHand, RowsOK
<1> QED
    BY <1>3, <1>4, <1>5, <1>6 DEF AgesOK

\* HSET puts the call's position in the key and leaves its TTL.
LEMMA HSetStep ==
    ASSUME AgesOK, NEW c \in Calls, HSet(c)
    PROVE  AgesOK'
<1> DEFINE d == call[c].driver
           until == IF key[d] = None THEN Forever ELSE key[d].until
<1>1. /\ UNCHANGED <<now, online, duty, leaving, row, flush, unexpiring, missed>>
      /\ call[c] # None
      /\ call[c].step = "hset"
      /\ call' = [call EXCEPT ![c].step = "expire"]
      /\ key' = [key EXCEPT ![d] = [at |-> call[c].at, until |-> until]]
    BY DEF HSet, Step, Goto, users, faults
<1>2. call[c] \in Update /\ d \in Drivers /\ call[c].at \in Times /\ call[c].at \in Nat
  <2>1. call[c] \in Update
    BY <1>1 DEF AgesOK, TypeOK
  <2> QED
    BY <2>1, Constants DEF Update, Times
<1>3. now \in Nat /\ now <= Horizon
    BY Constants DEF AgesOK, TypeOK, Times
<1>4. until \in 0..Forever /\ until \in Nat
  <2>1. key[d] # None => key[d] \in Hash
    BY <1>2 DEF AgesOK, TypeOK
  <2> QED
    BY <2>1, Constants DEF Hash
<1> HIDE DEF until
<1>5. key'[d] = [at |-> call[c].at, until |-> until]
    BY <1>1, <1>2 DEF AgesOK, TypeOK
<1>6. key'[d] \in Hash /\ key'[d].at = call[c].at /\ key'[d].until = until
    BY <1>2, <1>4, <1>5 DEF Hash
<1>7. /\ call'[c] = [call[c] EXCEPT !.step = "expire"]
      /\ \A x \in Calls \ {c} : call'[x] = call[x]
    BY <1>1 DEF AgesOK, TypeOK
<1>8. /\ call'[c] \in Update
      /\ call'[c].driver = d
      /\ call'[c].at = call[c].at
      /\ call'[c].step = "expire"
    BY <1>2, <1>7 DEF Update
<1>9. \A x \in Drivers \ {d} : key'[x] = key[x]
    BY <1>1 DEF AgesOK, TypeOK
<1>10. TypeOK'
  <2>1. key' \in [Drivers -> Hash \cup {None}]
    BY <1>1, <1>2, <1>5, <1>6 DEF AgesOK, TypeOK
  <2>2. call' \in [Calls -> Update \cup {None}]
    BY <1>1, <1>7, <1>8 DEF AgesOK, TypeOK
  <2> QED
    BY <1>1, <2>1, <2>2 DEF AgesOK, TypeOK
<1>11. call[c].at <= now /\ now <= call[c].at + CallTime
    BY <1>1 DEF AgesOK, CallsOK
<1>12. CallsOK'
  <2> SUFFICES ASSUME NEW x \in Calls, call'[x] # None
               PROVE  /\ call'[x].at <= now
                      /\ now <= call'[x].at + CallTime
                      /\ call'[x].step = "expire" /\ key'[call'[x].driver] # None
                            => call'[x].at <= key'[call'[x].driver].at + CallTime
    BY <1>1 DEF CallsOK
  <2>1. CASE x = c
    BY <2>1, <1>2, <1>6, <1>8, <1>11, Constants
  <2>2. CASE x # c
    <3>1. /\ call'[x] = call[x] /\ call[x] # None
          /\ call[x].driver \in Drivers /\ call[x].at \in Nat
      BY <2>2, <1>7, Constants DEF AgesOK, TypeOK, Update, Times
    <3>2. /\ call[x].at <= now
          /\ now <= call[x].at + CallTime
          /\ call[x].step = "expire" /\ key[call[x].driver] # None
                => call[x].at <= key[call[x].driver].at + CallTime
      BY <3>1 DEF AgesOK, CallsOK
    <3>3. CASE call[x].driver = d
      BY <3>1, <3>2, <3>3, <1>2, <1>3, <1>6, <1>11, Constants
    <3>4. CASE call[x].driver # d
      BY <3>1, <3>2, <3>4, <1>9
    <3> QED
      BY <3>3, <3>4
  <2> QED
    BY <2>1, <2>2
<1>13. KeysOK'
  <2> SUFFICES ASSUME NEW x \in Drivers, key'[x] # None
               PROVE  /\ key'[x].at <= now
                      /\ now <= key'[x].until
                      /\ key'[x].until # Forever => key'[x].until <= now + RedisTTL
                      /\ x \notin unexpiring =>
                            IF key'[x].until = Forever
                            THEN \E z \in Calls : Step(z, "expire")' /\ call'[z].driver = x
                            ELSE key'[x].until <= key'[x].at + KeyAge
    BY <1>1 DEF KeysOK
  <2>1. CASE x = d
    <3>1. Step(c, "expire")' /\ call'[c].driver = d
      <4>1. call'[c] # None
        BY <1>8, NoneAssumption
      <4> QED
        BY <4>1, <1>8 DEF Step
    <3>2. until = Forever \/ (key[d] # None /\ until = key[d].until)
      BY DEF until
    <3>3. until # Forever => now <= until /\ until <= now + RedisTTL
      BY <3>2, <1>2 DEF AgesOK, KeysOK
    <3> QED
      BY <2>1, <3>1, <3>3, <1>2, <1>3, <1>4, <1>6, <1>11, Constants
  <2>2. CASE x # d
    <3>1. key'[x] = key[x] /\ key[x] # None
      BY <2>2, <1>9
    <3>2. \A z \in Calls : Step(z, "expire") => Step(z, "expire")' /\ call'[z].driver = call[z].driver
      BY <1>1, <1>7 DEF Step
    <3> QED
      BY <3>1, <3>2, <1>1 DEF AgesOK, KeysOK
  <2> QED
    BY <2>1, <2>2
<1>14. FlushesOK' /\ RowsOK'
    BY <1>1 DEF AgesOK, FlushesOK, Flushing, InHand, RowsOK
<1> QED
    BY <1>10, <1>12, <1>13, <1>14 DEF AgesOK

\* EXPIRE bounds the life of a key whose position is not much older than the
\* call's own.
LEMMA ExpireStep ==
    ASSUME AgesOK, NEW c \in Calls, Expire(c)
    PROVE  AgesOK'
<1> DEFINE d == call[c].driver
<1>1. /\ UNCHANGED <<now, online, duty, leaving, row, flush, unexpiring, missed>>
      /\ call[c] # None
      /\ call[c].step = "expire"
      /\ call' = [call EXCEPT ![c] = None]
      /\ key' = [key EXCEPT ![d] = IF @ = None THEN None ELSE [@ EXCEPT !.until = now + RedisTTL]]
    BY DEF Expire, Step, Return, users, faults
<1>2. call[c] \in Update /\ d \in Drivers /\ call[c].at \in Nat
  <2>1. call[c] \in Update
    BY <1>1 DEF AgesOK, TypeOK
  <2> QED
    BY <2>1, Constants DEF Update, Times
<1>3. now \in Nat /\ now <= Horizon
    BY Constants DEF AgesOK, TypeOK, Times
<1>4. /\ call'[c] = None
      /\ \A x \in Calls \ {c} : call'[x] = call[x]
      /\ call' \in [Calls -> Update \cup {None}]
    BY <1>1 DEF AgesOK, TypeOK
<1>5. /\ \A x \in Drivers \ {d} : key'[x] = key[x]
      /\ key[d] = None => key'[d] = None
      /\ key[d] # None => key'[d] = [key[d] EXCEPT !.until = now + RedisTTL]
    BY <1>1, <1>2 DEF AgesOK, TypeOK
<1>6. key[d] # None => /\ key[d] \in Hash
                       /\ key[d].at \in Nat
                       /\ key'[d] \in Hash
                       /\ key'[d].at = key[d].at
                       /\ key'[d].until = now + RedisTTL
  <2>1. key[d] # None => key[d] \in Hash
    BY <1>2 DEF AgesOK, TypeOK
  <2>2. now + RedisTTL \in 0..Forever
    BY <1>3, Constants
  <2> QED
    BY <1>5, <2>1, <2>2, Constants DEF Hash, Times
<1>7. TypeOK'
  <2>1. key' \in [Drivers -> Hash \cup {None}]
    BY <1>1, <1>2, <1>5, <1>6 DEF AgesOK, TypeOK
  <2> QED
    BY <1>1, <1>4, <2>1 DEF AgesOK, TypeOK
<1>8. CallsOK'
  <2> SUFFICES ASSUME NEW x \in Calls, call'[x] # None
               PROVE  /\ call'[x].at <= now
                      /\ now <= call'[x].at + CallTime
                      /\ call'[x].step = "expire" /\ key'[call'[x].driver] # None
                            => call'[x].at <= key'[call'[x].driver].at + CallTime
    BY <1>1 DEF CallsOK
  <2>1. call'[x] = call[x] /\ call[x] # None /\ call[x].driver \in Drivers
    BY <1>4 DEF AgesOK, TypeOK, Update
  <2>2. key'[call[x].driver] # None => /\ key[call[x].driver] # None
                                       /\ key'[call[x].driver].at = key[call[x].driver].at
    BY <2>1, <1>5, <1>6
  <2> QED
    BY <2>1, <2>2 DEF AgesOK, CallsOK
<1>9. KeysOK'
  <2> SUFFICES ASSUME NEW x \in Drivers, key'[x] # None
               PROVE  /\ key'[x].at <= now
                      /\ now <= key'[x].until
                      /\ key'[x].until # Forever => key'[x].until <= now + RedisTTL
                      /\ x \notin unexpiring =>
                            IF key'[x].until = Forever
                            THEN \E z \in Calls : Step(z, "expire")' /\ call'[z].driver = x
                            ELSE key'[x].until <= key'[x].at + KeyAge
    BY <1>1 DEF KeysOK
  <2>1. CASE x = d
    <3>1. key[d] # None
      BY <2>1, <1>5
    <3>2. key[d].at <= now
      BY <3>1, <1>2 DEF AgesOK, KeysOK
    <3>3. call[c].at <= key[d].at + CallTime /\ now <= call[c].at + CallTime
      BY <3>1, <1>1 DEF AgesOK, CallsOK
    <3> QED
      BY <2>1, <3>1, <3>2, <3>3, <1>2, <1>3, <1>6, Constants
  <2>2. CASE x # d
    <3>1. key'[x] = key[x] /\ key[x] # None
      BY <2>2, <1>5
    <3>2. \A z \in Calls : Step(z, "expire") /\ call[z].driver = x
                               => Step(z, "expire")' /\ call'[z].driver = x
      BY <2>2, <1>4 DEF Step
    <3> QED
      BY <3>1, <3>2, <1>1 DEF AgesOK, KeysOK
  <2> QED
    BY <2>1, <2>2
<1>10. FlushesOK' /\ RowsOK'
    BY <1>1 DEF AgesOK, FlushesOK, Flushing, InHand, RowsOK
<1> QED
    BY <1>7, <1>8, <1>9, <1>10 DEF AgesOK

\* More drivers known to have a key without a TTL claim less.
LEMMA LeaveKeyStep ==
    ASSUME AgesOK, NEW c \in Calls, ExpireFails(c) \/ Abandon(c)
    PROVE  AgesOK'
<1> DEFINE d == call[c].driver
<1>1. /\ UNCHANGED <<now, online, duty, leaving, key, row, flush, missed>>
      /\ call[c] # None
      /\ Step(c, "expire") => LeaveKey(c)
      /\ ~Step(c, "expire") => UNCHANGED unexpiring
    BY DEF ExpireFails, Abandon, Step, users, faults
<1>2. call[c] \in Update /\ d \in Drivers
  <2>1. call[c] \in Update
    BY <1>1 DEF AgesOK, TypeOK
  <2> QED
    BY <2>1 DEF Update
<1>3. /\ unexpiring \subseteq unexpiring'
      /\ unexpiring' \subseteq Drivers
      /\ Step(c, "expire") /\ key[d] # None /\ key[d].until = Forever => d \in unexpiring'
    BY <1>1, <1>2 DEF LeaveKey, AgesOK, TypeOK
<1>4. /\ call' \in [Calls -> Update \cup {None}]
      /\ \A x \in Calls \ {c} : call'[x] = call[x]
      /\ call'[c] # None => /\ call'[c].at = call[c].at
                            /\ call'[c].step = "upsert"
  <2>1. CASE ExpireFails(c)
    <3>1. call'[c] = [call[c] EXCEPT !.step = "upsert"]
      BY <2>1 DEF ExpireFails, Goto, AgesOK, TypeOK
    <3>2. call'[c] \in Update /\ call'[c].at = call[c].at /\ call'[c].step = "upsert"
      BY <3>1, <1>2 DEF Update
    <3> QED
      BY <2>1, <3>2 DEF ExpireFails, Goto, AgesOK, TypeOK
  <2>2. CASE Abandon(c)
    BY <2>2 DEF Abandon, Return, AgesOK, TypeOK
  <2> QED
    BY <2>1, <2>2
<1>5. TypeOK'
    BY <1>1, <1>3, <1>4 DEF AgesOK, TypeOK
<1>6. CallsOK'
    BY <1>1, <1>4 DEF AgesOK, CallsOK
<1>7. KeysOK'
  <2> SUFFICES ASSUME NEW x \in Drivers, key[x] # None
               PROVE  x \notin unexpiring' =>
                         IF key[x].until = Forever
                         THEN \E z \in Calls : Step(z, "expire")' /\ call'[z].driver = x
                         ELSE key[x].until <= key[x].at + KeyAge
    BY <1>1 DEF AgesOK, KeysOK
  <2> SUFFICES ASSUME x \notin unexpiring', key[x].until = Forever
               PROVE  \E z \in Calls : Step(z, "expire")' /\ call'[z].driver = x
    BY <1>3 DEF AgesOK, KeysOK
  <2>1. PICK z \in Calls : Step(z, "expire") /\ call[z].driver = x
    BY <1>3 DEF AgesOK, KeysOK
  <2>2. z # c
    BY <2>1, <1>3
  <2> QED
    BY <2>1, <2>2, <1>4 DEF Step
<1>8. FlushesOK' /\ RowsOK'
    BY <1>1, <1>3 DEF AgesOK, FlushesOK, Flushing, InHand, RowsOK
<1> QED
    BY <1>5, <1>6, <1>7, <1>8 DEF AgesOK

\* The row gets the position of a call that has not lasted long.
LEMMA UpsertStep ==
    ASSUME AgesOK, NEW c \in Calls, Upsert(c)
    PROVE  AgesOK'
<1> DEFINE d == call[c].driver
           new == [lat |-> call[c].at, lng |-> call[c].at, stamp |-> now]
<1>1. /\ UNCHANGED <<now, online, duty, leaving, key, flush, unexpiring, missed>>
      /\ call[c] # None
      /\ call[c].step = "upsert"
      /\ call' = [call EXCEPT ![c] = None]
      /\ row' = [row EXCEPT ![d] = new]
    BY DEF Upsert, Step, Return, users, faults
<1>2. call[c] \in Update /\ d \in Drivers /\ call[c].at \in Times /\ call[c].at \in Nat
  <2>1. call[c] \in Update
    BY <1>1 DEF AgesOK, TypeOK
  <2> QED
    BY <2>1, Constants DEF Update, Times
<1>3. now \in Nat /\ now \in Times
    BY Constants DEF AgesOK, TypeOK, Times
<1>4. /\ call'[c] = None
      /\ \A x \in Calls \ {c} : call'[x] = call[x]
      /\ call' \in [Calls -> Update \cup {None}]
    BY <1>1 DEF AgesOK, TypeOK
<1>5. /\ row'[d] = new
      /\ \A x \in Drivers \ {d} : row'[x] = row[x]
    BY <1>1, <1>2 DEF AgesOK, TypeOK
<1>6. new \in Location
    BY <1>2, <1>3 DEF Location
<1>7. TypeOK'
  <2>1. row' \in [Drivers -> Location \cup {None}]
    BY <1>1, <1>2, <1>6 DEF AgesOK, TypeOK
  <2> QED
    BY <1>1, <1>4, <2>1 DEF AgesOK, TypeOK
<1>8. CallsOK'
    BY <1>1, <1>4 DEF AgesOK, CallsOK
<1>9. KeysOK'
    BY <1>1, <1>4 DEF AgesOK, KeysOK, Step
<1>10. FlushesOK'
    BY <1>1 DEF AgesOK, FlushesOK, Flushing, InHand
<1>11. RowsOK'
  <2>1. now <= call[c].at + CallTime
    BY <1>1 DEF AgesOK, CallsOK
  <2>2. Older(new) = call[c].at
    BY DEF Older
  <2>3. new.stamp <= Older(new) + KeyAge + FlushTime
    BY <2>1, <2>2, <1>2, <1>3, Constants
  <2> HIDE DEF new
  <2> QED
    BY <1>1, <1>5, <2>3 DEF AgesOK, RowsOK
<1> QED
    BY <1>7, <1>8, <1>9, <1>10, <1>11 DEF AgesOK

-----------------------------------------------------------------------------
(* FlushLoop *)

\* What FlushesOK says of one flush f while time is t.
FlushOK(f, t) ==
    /\ f.since <= t
    /\ f.todo # {} \/ (\E d \in Drivers : f.out[d] # None) => t <= f.since + FlushTime
    /\ f.lat # None => /\ f.lat.driver \in f.todo
                       /\ f.lat.driver \notin unexpiring => f.since <= f.lat.at + KeyAge
    /\ \A d \in Drivers : f.out[d] # None =>
          /\ d \notin f.todo
          /\ d \notin unexpiring => f.since <= Older(f.out[d]) + KeyAge

LEMMA FlushesAre == FlushesOK <=> \A w \in Workers : FlushOK(flush[w], now)
BY DEF FlushesOK, FlushOK, Flushing, InHand

\* Worker w replaces its flush by another that is in order.
LEMMA FlushChange ==
    ASSUME AgesOK, NEW w \in Workers, NEW f \in Flush, FlushOK(f, now),
           flush' = [flush EXCEPT ![w] = f],
           UNCHANGED <<now, users, key, call, unexpiring>>,
           missed' \subseteq Drivers,
           row' \in [Drivers -> Location \cup {None}],
           RowsOK'
    PROVE  AgesOK'
<1>1. /\ flush' \in [Workers -> Flush]
      /\ flush'[w] = f
      /\ \A x \in Workers \ {w} : flush'[x] = flush[x]
    BY DEF AgesOK, TypeOK
<1>2. TypeOK'
    BY <1>1 DEF AgesOK, TypeOK, users
<1>3. CallsOK' /\ KeysOK'
    BY DEF AgesOK, CallsOK, KeysOK, Step
<1>4. \A x \in Workers : FlushOK(flush[x], now)
    BY FlushesAre DEF AgesOK
<1>5. \A x \in Workers : FlushOK(flush'[x], now)
    BY <1>1, <1>4
<1>6. FlushesOK'
    BY <1>5 DEF FlushesOK, FlushOK, Flushing, InHand
<1> QED
    BY <1>2, <1>3, <1>6 DEF AgesOK

\* A flush that begins has nothing in hand.
LEMMA BeginFlushStep ==
    ASSUME AgesOK, NEW w \in Workers, BeginFlush(w)
    PROVE  AgesOK'
<1> DEFINE f == [flush[w] EXCEPT !.since = now, !.todo = Drivers]
<1>1. /\ flush' = [flush EXCEPT ![w] = f]
      /\ UNCHANGED <<now, users, key, call, unexpiring, row, missed>>
    BY DEF BeginFlush, faults
<1>2. flush[w] \in Flush /\ now \in Times /\ now \in Nat
    BY Constants DEF AgesOK, TypeOK, Times
<1>3. /\ f \in Flush
      /\ f.since = now
      /\ f.todo = Drivers
      /\ f.lat = flush[w].lat
      /\ f.out = flush[w].out
    BY <1>2 DEF Flush
<1>4. flush[w].todo = {} /\ \A d \in Drivers : flush[w].out[d] = None
    BY DEF BeginFlush, Flushing, InHand
<1>5. flush[w].lat = None
    BY <1>4 DEF AgesOK, FlushesOK
<1> HIDE DEF f
<1>6. FlushOK(f, now)
    BY <1>2, <1>3, <1>4, <1>5, Constants DEF FlushOK
<1>7. missed' \subseteq Drivers /\ row' \in [Drivers -> Location \cup {None}] /\ RowsOK'
    BY <1>1 DEF AgesOK, TypeOK, RowsOK
<1> QED
    BY <1>1, <1>3, <1>6, <1>7, FlushChange

\* A key that is there has a position that is not too old now, and the flush
\* has begun by now.
LEMMA KeyRecent ==
    ASSUME AgesOK, NEW d \in Drivers, key[d] # None
    PROVE  /\ key[d].at \in Times
           /\ key[d].at \in Nat
           /\ d \notin unexpiring => now <= key[d].at + KeyAge
<1>1. key[d] \in Hash /\ now \in Nat
    BY Constants DEF AgesOK, TypeOK, Times
<1>2. key[d].at \in Times /\ key[d].at \in Nat /\ key[d].until \in Nat
    BY <1>1, Constants DEF Hash, Times
<1>3. now <= key[d].until
    BY DEF AgesOK, KeysOK
<1>4. CASE key[d].until = Forever /\ d \notin unexpiring
  <2>1. PICK c \in Calls : Step(c, "expire") /\ call[c].driver = d
    BY <1>4 DEF AgesOK, KeysOK
  <2>2. call[c] # None /\ call[c].at \in Nat
    BY <2>1, Constants DEF Step, AgesOK, TypeOK, Update, Times
  <2>3. call[c].at <= key[d].at + CallTime /\ now <= call[c].at + CallTime
    BY <2>1, <2>2 DEF AgesOK, CallsOK, Step
  <2> QED
    BY <2>2, <2>3, <1>1, <1>2, Constants
<1>5. CASE key[d].until # Forever /\ d \notin unexpiring
  <2>1. key[d].until <= key[d].at + KeyAge
    BY <1>5 DEF AgesOK, KeysOK
  <2> QED
    BY <2>1, <1>1, <1>2, <1>3, Constants
<1> QED
    BY <1>2, <1>4, <1>5

\* A latitude that is read comes from such a key.
LEMMA ReadLatStep ==
    ASSUME AgesOK, NEW w \in Workers, NEW d \in Drivers, ReadLat(w, d)
    PROVE  AgesOK'
<1> DEFINE f == IF key[d] = None THEN [flush[w] EXCEPT !.todo = @ \ {d}]
                ELSE [flush[w] EXCEPT !.lat = [driver |-> d, at |-> key[d].at]]
<1>1. /\ flush' = [flush EXCEPT ![w] = f]
      /\ UNCHANGED <<now, users, key, call, unexpiring, row, missed>>
      /\ d \in flush[w].todo
      /\ flush[w].lat = None
  <2>1. flush' = [flush EXCEPT ![w] =
                    IF key[d] = None THEN [flush[w] EXCEPT !.todo = flush[w].todo \ {d}]
                    ELSE [flush[w] EXCEPT !.lat = [driver |-> d, at |-> key[d].at]]]
    BY DEF ReadLat
  <2> QED
    BY <2>1 DEF ReadLat, faults, AgesOK, TypeOK
<1>2. flush[w] \in Flush /\ now \in Nat /\ FlushOK(flush[w], now)
    BY FlushesAre, Constants DEF AgesOK, TypeOK, Times
<1>3. flush[w].since \in Nat
    BY <1>2, Constants DEF Flush, Times
<1>4. f \in Flush /\ FlushOK(f, now)
  <2>1. CASE key[d] = None
    <3>1. /\ f \in Flush
          /\ f.since = flush[w].since
          /\ f.todo = flush[w].todo \ {d}
          /\ f.lat = None
          /\ f.out = flush[w].out
      BY <2>1, <1>1, <1>2 DEF Flush
    <3> HIDE DEF f
    <3> QED
      BY <3>1, <1>1, <1>2 DEF FlushOK
  <2>2. CASE key[d] # None
    <3>1. /\ f \in Flush
          /\ f.since = flush[w].since
          /\ f.todo = flush[w].todo
          /\ f.lat = [driver |-> d, at |-> key[d].at]
          /\ f.out = flush[w].out
      <4>1. [driver |-> d, at |-> key[d].at] \in Reading
        BY <2>2, KeyRecent DEF Reading
      <4> QED
        BY <4>1, <2>2, <1>2 DEF Flush
    <3>2. d \notin unexpiring => flush[w].since <= key[d].at + KeyAge
      BY <2>2, <1>2, <1>3, KeyRecent, Constants DEF FlushOK
    <3> HIDE DEF f
    <3> QED
      BY <3>1, <3>2, <1>1, <1>2 DEF FlushOK
  <2> QED
    BY <2>1, <2>2
<1> HIDE DEF f
<1>5. missed' \subseteq Drivers /\ row' \in [Drivers -> Location \cup {None}] /\ RowsOK'
    BY <1>1 DEF AgesOK, TypeOK, RowsOK
<1> QED
    BY <1>1, <1>4, <1>5, FlushChange

\* Both coordinates of a position come from keys that were not too old.
LEMMA ReadLngStep ==
    ASSUME AgesOK, NEW w \in Workers, ReadLng(w)
    PROVE  AgesOK'
<1> DEFINE d == flush[w].lat.driver
           p == IF key[d] = None THEN None ELSE [lat |-> flush[w].lat.at, lng |-> key[d].at]
           f == [flush[w] EXCEPT !.todo = @ \ {d}, !.lat = None, !.out[d] = p]
<1>1. /\ flush' = [flush EXCEPT ![w] = f]
      /\ UNCHANGED <<now, users, key, call, unexpiring, row, missed>>
      /\ flush[w].lat # None
  <2>1. flush' = [flush EXCEPT ![w] =
                        [flush[w] EXCEPT !.todo = flush[w].todo \ {d}, !.lat = None,
                                  !.out[d] = IF key[d] = None THEN None
                                             ELSE [lat |-> flush[w].lat.at,
                                                   lng |-> key[d].at]]]
    BY DEF ReadLng
  <2> QED
    BY <2>1 DEF ReadLng, faults, AgesOK, TypeOK
<1>2. flush[w] \in Flush /\ now \in Nat /\ FlushOK(flush[w], now)
    BY FlushesAre, Constants DEF AgesOK, TypeOK, Times
<1>3. flush[w].since \in Nat
    BY <1>2, Constants DEF Flush, Times
<1>4. /\ flush[w].lat \in Reading
      /\ d \in Drivers
      /\ flush[w].lat.at \in Times
      /\ flush[w].lat.at \in Nat
    BY <1>1, <1>2, Constants DEF Flush, Reading, Times
<1>5. /\ p \in Position \cup {None}
      /\ p # None /\ d \notin unexpiring => flush[w].since <= Older(p) + KeyAge
  <2>1. CASE key[d] # None
    <3>1. /\ key[d].at \in Times
          /\ key[d].at \in Nat
          /\ d \notin unexpiring => now <= key[d].at + KeyAge
      BY <2>1, <1>4, KeyRecent
    <3>2. p = [lat |-> flush[w].lat.at, lng |-> key[d].at]
      BY <2>1
    <3>3. p \in Position
      BY <3>1, <3>2, <1>4 DEF Position
    <3>4. /\ Older(p) \in Nat
          /\ Older(p) = flush[w].lat.at \/ Older(p) = key[d].at
      BY <3>1, <3>2, <1>4 DEF Older
    <3>5. d \notin unexpiring => flush[w].since <= flush[w].lat.at + KeyAge
      BY <1>1, <1>2 DEF FlushOK
    <3>6. d \notin unexpiring => flush[w].since <= key[d].at + KeyAge
      BY <3>1, <1>2, <1>3, Constants DEF FlushOK
    <3> QED
      BY <3>3, <3>4, <3>5, <3>6
  <2>2. CASE key[d] = None
    BY <2>2
  <2> QED
    BY <2>1, <2>2
<1>6. flush[w].out \in [Drivers -> Position \cup {None}]
    BY <1>2 DEF Flush
<1> HIDE DEF p
<1>7. /\ f \in Flush
      /\ f.since = flush[w].since
      /\ f.todo = flush[w].todo \ {d}
      /\ f.lat = None
      /\ f.out = [flush[w].out EXCEPT ![d] = p]
  <2>1. [flush[w].out EXCEPT ![d] = p] \in [Drivers -> Position \cup {None}]
    BY <1>4, <1>5, <1>6
  <2> QED
    BY <2>1, <1>2, <1>4 DEF Flush
<1>8. /\ f.out[d] = p
      /\ \A x \in Drivers \ {d} : f.out[x] = flush[w].out[x]
    BY <1>4, <1>6, <1>7
<1> HIDE DEF f
<1>9. flush[w].todo # {}
    BY <1>1, <1>2 DEF FlushOK
<1>10. FlushOK(f, now)
    BY <1>2, <1>5, <1>7, <1>8, <1>9 DEF FlushOK
<1>11. missed' \subseteq Drivers /\ row' \in [Drivers -> Location \cup {None}] /\ RowsOK'
    BY <1>1 DEF AgesOK, TypeOK, RowsOK
<1> QED
    BY <1>1, <1>7, <1>10, <1>11, FlushChange

\* A row is stamped while its flush lasts.
LEMMA WriteRowStep ==
    ASSUME AgesOK, NEW w \in Workers, NEW d \in Drivers, WriteRow(w, d)
    PROVE  AgesOK'
<1> DEFINE p == flush[w].out[d]
           new == [lat |-> p.lat, lng |-> p.lng, stamp |-> now]
           f == [flush[w] EXCEPT !.out[d] = None]
<1>1. /\ flush' = [flush EXCEPT ![w] = f]
      /\ row' = [row EXCEPT ![d] = new]
      /\ UNCHANGED <<now, users, key, call, unexpiring, missed>>
      /\ p # None
  <2>1. flush' = [flush EXCEPT ![w].out[d] = None]
    BY DEF WriteRow
  <2> QED
    BY <2>1 DEF WriteRow, faults, AgesOK, TypeOK
<1>2. flush[w] \in Flush /\ now \in Nat /\ now \in Times /\ FlushOK(flush[w], now)
    BY FlushesAre, Constants DEF AgesOK, TypeOK, Times
<1>3. /\ flush[w].since \in Nat
      /\ flush[w].out \in [Drivers -> Position \cup {None}]
      /\ p \in Position
    BY <1>1, <1>2, Constants DEF Flush, Times
<1>4. p.lat \in Times /\ p.lng \in Times /\ p.lat \in Nat /\ p.lng \in Nat
    BY <1>3, Constants DEF Position, Times
<1>5. now <= flush[w].since + FlushTime
    BY <1>1, <1>2 DEF FlushOK
<1>6. d \notin unexpiring => flush[w].since <= Older(p) + KeyAge
    BY <1>1, <1>2 DEF FlushOK
<1>7. Older(new) = Older(p) /\ new.stamp = now /\ new \in Location
    BY <1>2, <1>4 DEF Older, Location
<1>8. d \notin unexpiring => new.stamp <= Older(new) + KeyAge + FlushTime
    BY <1>2, <1>3, <1>4, <1>5, <1>6, <1>7, OlderIs, Constants
<1>9. /\ f \in Flush
      /\ f.since = flush[w].since
      /\ f.todo = flush[w].todo
      /\ f.lat = flush[w].lat
      /\ f.out = [flush[w].out EXCEPT ![d] = None]
    BY <1>2, <1>3 DEF Flush
<1>10. \A x \in Drivers : f.out[x] # None => f.out[x] = flush[w].out[x]
    BY <1>3, <1>9
<1> HIDE DEF f, new
<1>11. FlushOK(f, now)
    BY <1>2, <1>9, <1>10 DEF FlushOK
<1>12. /\ row' \in [Drivers -> Location \cup {None}]
       /\ row'[d] = new
       /\ \A x \in Drivers \ {d} : row'[x] = row[x]
    BY <1>1, <1>7 DEF AgesOK, TypeOK
<1>13. RowsOK'
    BY <1>1, <1>8, <1>12 DEF AgesOK, RowsOK
<1>14. missed' \subseteq Drivers
    BY <1>1 DEF AgesOK, TypeOK
<1> QED
    BY <1>1, <1>9, <1>11, <1>12, <1>13, <1>14, FlushChange

\* A flush that leaves drivers out has nothing else in hand than before.
LEMMA LeaveOutStep ==
    ASSUME AgesOK, NEW w \in Workers, NEW left \in SUBSET Drivers, LeaveOut(w, left)
    PROVE  AgesOK'
<1> DEFINE out == [d \in Drivers |-> IF d \in left THEN None ELSE flush[w].out[d]]
           f == [flush[w] EXCEPT !.todo = flush[w].todo \ left, !.lat = None, !.out = out]
<1>1. /\ flush' = [flush EXCEPT ![w] = f]
      /\ UNCHANGED <<now, users, key, call, unexpiring, row>>
      /\ missed' = missed \cup left
    BY DEF LeaveOut
<1>2. flush[w] \in Flush /\ FlushOK(flush[w], now)
    BY FlushesAre DEF AgesOK, TypeOK
<1>3. out \in [Drivers -> Position \cup {None}]
    BY <1>2 DEF Flush
<1>4. \A d \in Drivers : out[d] # None => out[d] = flush[w].out[d]
    OBVIOUS
<1> HIDE DEF out
<1>5. /\ f \in Flush
      /\ f.since = flush[w].since
      /\ f.todo = flush[w].todo \ left
      /\ f.lat = None
      /\ f.out = out
    BY <1>2, <1>3 DEF Flush
<1> HIDE DEF f
<1>6. FlushOK(f, now)
    BY <1>2, <1>4, <1>5 DEF FlushOK
<1>7. missed' \subseteq Drivers /\ row' \in [Drivers -> Location \cup {None}] /\ RowsOK'
    BY <1>1 DEF AgesOK, TypeOK, RowsOK
<1> QED
    BY <1>1, <1>5, <1>6, <1>7, FlushChange

-----------------------------------------------------------------------------
(* What stays in Redis reaches the table *)

\* The types of what the lemmas below compare.
LEMMA Numbers ==
    ASSUME AgesOK
    PROVE  /\ now \in Nat
           /\ \A w \in Workers : flush[w].since \in Nat /\ flush[w].since <= now
           /\ \A d \in Drivers : key[d] # None =>
                 /\ key[d].at \in Nat
                 /\ Settled(d) \in Nat
                 /\ Settled(d) = key[d].at + CallTime
<1>1. now \in Nat
    BY Constants DEF AgesOK, TypeOK, Times
<1>2. ASSUME NEW w \in Workers PROVE flush[w].since \in Nat /\ flush[w].since <= now
    BY Constants DEF AgesOK, TypeOK, FlushesOK, Flush, Times
<1>3. ASSUME NEW d \in Drivers, key[d] # None
      PROVE  key[d].at \in Nat /\ Settled(d) \in Nat /\ Settled(d) = key[d].at + CallTime
    BY <1>3, KeyRecent, Constants DEF Settled
<1> QED
    BY <1>1, <1>2, <1>3

\* Readings, rows and flushes stay, and a key that is still there holds the
\* position it held.
LEMMA SameKeys ==
    ASSUME HandsNew, RowsDue, UNCHANGED <<row, flush, missed>>,
           \A d \in Drivers : key'[d] # None => key[d] # None /\ key'[d].at = key[d].at
    PROVE  HandsNew' /\ RowsDue'
<1>1. HandsNew'
    BY DEF HandsNew, Settled
<1>2. RowsDue'
  <2> SUFFICES ASSUME NEW d \in Drivers \ missed', key'[d] # None
               PROVE  InTable(d)' \/ \E w \in Workers : Due(w, d)'
    BY DEF RowsDue
  <2>1. key[d] # None /\ key'[d].at = key[d].at
    OBVIOUS
  <2>2. InTable(d) \/ \E w \in Workers : Due(w, d)
    BY <2>1 DEF RowsDue
  <2>3. InTable(d) => InTable(d)'
    BY <2>1 DEF InTable
  <2>4. \A w \in Workers : Due(w, d) => Due(w, d)'
    BY <2>1 DEF Due, Settled
  <2> QED
    BY <2>2, <2>3, <2>4
<1> QED
    BY <1>1, <1>2

\* What HandsNew and Due say of one flush.
HandOK(f, d) ==
    f.since > Settled(d) =>
        /\ f.lat # None /\ f.lat.driver = d => f.lat.at >= key[d].at
        /\ f.out[d] # None => Older(f.out[d]) >= key[d].at

HandDue(f, d) ==
    \/ f.since <= Settled(d)
    \/ /\ f.since <= Settled(d) + FlushInterval
       /\ d \in f.todo \/ f.out[d] # None

\* Worker w replaces its flush by another of which the same can be said.
LEMMA HandChange ==
    ASSUME AgesOK, ReachOK, NEW w \in Workers, NEW f,
           flush' = [flush EXCEPT ![w] = f],
           UNCHANGED <<now, key>>,
           missed \subseteq missed',
           now <= f.since + FlushInterval,
           \A d \in Drivers : key[d] # None =>
               /\ HandOK(f, d)
               /\ d \notin missed' /\ (InTable(d) \/ Due(w, d))
                     => InTable(d)' \/ HandDue(f, d)
    PROVE  ReachOK'
<1>1. /\ flush'[w] = f
      /\ \A x \in Workers \ {w} : flush'[x] = flush[x]
    BY DEF AgesOK, TypeOK
<1>2. PausesOK'
    BY <1>1 DEF ReachOK, PausesOK
<1>3. HandsNew'
  <2> SUFFICES ASSUME NEW x \in Workers, NEW d \in Drivers, key[d] # None
               PROVE  HandOK(flush'[x], d)
    BY DEF HandsNew, HandOK, Settled
  <2>1. HandOK(flush[x], d)
    BY DEF ReachOK, HandsNew, HandOK
  <2> QED
    BY <1>1, <2>1
<1>4. RowsDue'
  <2> SUFFICES ASSUME NEW d \in Drivers \ missed', key[d] # None
               PROVE  InTable(d)' \/ \E x \in Workers : Due(x, d)'
    BY DEF RowsDue
  <2>1. \A x \in Workers : Due(x, d)' <=> HandDue(flush'[x], d)
    BY DEF Due, HandDue, Settled
  <2>2. \A x \in Workers : Due(x, d) <=> HandDue(flush[x], d)
    BY DEF Due, HandDue
  <2>3. InTable(d) \/ \E x \in Workers : Due(x, d)
    BY DEF ReachOK, RowsDue
  <2>4. InTable(d) \/ Due(w, d) => InTable(d)' \/ HandDue(f, d)
    OBVIOUS
  <2> QED
    BY <1>1, <2>1, <2>2, <2>3, <2>4
<1> QED
    BY <1>2, <1>3, <1>4 DEF ReachOK

LEMMA InitReach == Init => ReachOK
<1> SUFFICES ASSUME Init PROVE ReachOK
    OBVIOUS
<1>1. now = 0 /\ \A w \in Workers : flush[w].since = 0
    BY DEF Init
<1>2. \A d \in Drivers : key[d] = None
    BY DEF Init
<1> QED
    BY <1>1, <1>2, Constants DEF ReachOK, PausesOK, HandsNew, RowsDue

\* Calls and users leave positions, rows and flushes alone.
LEMMA QuietReach ==
    ASSUME ReachOK, UNCHANGED <<now, key, row, flush, missed>>
    PROVE  ReachOK'
<1>1. PausesOK'
    BY DEF ReachOK, PausesOK
<1>2. HandsNew' /\ RowsDue'
    BY SameKeys DEF ReachOK
<1> QED
    BY <1>1, <1>2 DEF ReachOK

\* Time takes keys, and waits for workers whose pause is over.
LEMMA TickReach ==
    ASSUME AgesOK, ReachOK, Tick
    PROVE  ReachOK'
<1>1. /\ UNCHANGED <<row, flush, missed>>
      /\ now' = now + 1
      /\ key' = [d \in Drivers |-> IF key[d] # None /\ key[d].until <= now THEN None ELSE key[d]]
      /\ \A w \in Workers :
            now - flush[w].since < IF Flushing(w) THEN FlushTime ELSE FlushInterval
    BY DEF Tick, faults
<1>2. PausesOK'
  <2> SUFFICES ASSUME NEW w \in Workers PROVE now + 1 <= flush[w].since + FlushInterval
    BY <1>1 DEF PausesOK
  <2>1. now - flush[w].since < FlushInterval
    <3>1. FlushTime <= FlushInterval
      BY TimesAssumption
    <3> QED
      BY <1>1, <3>1, Numbers, Constants
  <2> QED
    BY <2>1, Numbers, Constants
<1>3. \A d \in Drivers : key'[d] # None => key[d] # None /\ key'[d].at = key[d].at
    BY <1>1
<1> QED
    BY <1>1, <1>2, <1>3, SameKeys DEF ReachOK

\* A key is deleted, or given its TTL.
LEMMA KeyReach ==
    ASSUME AgesOK, ReachOK,
           (\E d \in Drivers : DeleteKey(d)) \/ (\E c \in Calls : Expire(c))
    PROVE  ReachOK'
<1>1. UNCHANGED <<now, row, flush, missed>>
    BY DEF DeleteKey, Expire, users, faults
<1>2. PausesOK'
    BY <1>1 DEF ReachOK, PausesOK
<1>3. \A d \in Drivers : key'[d] # None => key[d] # None /\ key'[d].at = key[d].at
  <2>1. CASE \E d \in Drivers : DeleteKey(d)
    BY <2>1 DEF DeleteKey, AgesOK, TypeOK
  <2>2. CASE \E c \in Calls : Expire(c)
    <3>1. PICK c \in Calls : Expire(c)
      BY <2>2
    <3> DEFINE x == call[c].driver
               k == IF key[x] = None THEN None
                    ELSE [key[x] EXCEPT !.until = now + RedisTTL]
    <3>2. key' = [key EXCEPT ![x] = k]
      BY <3>1 DEF Expire
    <3>3. call[c] # None
      BY <3>1 DEF Expire, Step
    <3>4. x \in Drivers
      BY <3>3 DEF AgesOK, TypeOK, Update
    <3>5. k # None => key[x] # None /\ k.at = key[x].at
      <4>1. key[x] \in Hash \cup {None}
        BY <3>4 DEF AgesOK, TypeOK
      <4> QED
        BY <4>1 DEF Hash
    <3> HIDE DEF k
    <3> QED
      BY <3>2, <3>4, <3>5 DEF AgesOK, TypeOK
  <2> QED
    BY <2>1, <2>2
<1> QED
    BY <1>1, <1>2, <1>3, SameKeys DEF ReachOK

\* A position just put into a key is too new for any flush to have begun since
\* it was settled: every worker is due.
LEMMA HSetReach ==
    ASSUME AgesOK, ReachOK, NEW c \in Calls, HSet(c)
    PROVE  ReachOK'
<1>1. UNCHANGED <<now, row, flush, missed>> /\ call[c] # None
    BY DEF HSet, Step, faults
<1>2. /\ call[c].driver \in Drivers
      /\ call[c].at \in Nat
      /\ now <= call[c].at + CallTime
  <2>1. call[c] \in Update
    BY <1>1 DEF AgesOK, TypeOK
  <2> QED
    BY <1>1, <2>1, Constants DEF Update, Times, AgesOK, CallsOK
<1> PICK d \in Drivers : d = call[c].driver
    BY <1>2
<1>3. key'[d].at = call[c].at /\ \A x \in Drivers \ {d} : key'[x] = key[x]
  <2> DEFINE until == IF key[d] = None THEN Forever ELSE key[d].until
  <2>1. key' = [key EXCEPT ![d] = [at |-> call[c].at, until |-> until]]
    BY DEF HSet
  <2> HIDE DEF until
  <2> QED
    BY <2>1 DEF AgesOK, TypeOK
<1>4. Settled(d)' = call[c].at + CallTime
    BY <1>3 DEF Settled
<1>5. \A w \in Workers : flush'[w].since <= Settled(d)' /\ ~(flush'[w].since > Settled(d)')
    BY <1>1, <1>2, <1>4, Numbers, Constants
<1>6. PausesOK'
    BY <1>1 DEF ReachOK, PausesOK
<1>7. HandsNew'
  <2> SUFFICES ASSUME NEW w \in Workers, NEW x \in Drivers, key'[x] # None,
                      flush'[w].since > Settled(x)'
               PROVE  LET r == flush[w].lat
                          p == flush[w].out[x]
                      IN  /\ r # None /\ r.driver = x => r.at >= key'[x].at
                          /\ p # None => Older(p) >= key'[x].at
    BY <1>1 DEF HandsNew
  <2>1. x # d
    BY <1>5
  <2>2. key'[x] = key[x] /\ Settled(x)' = Settled(x)
    BY <1>3, <2>1 DEF Settled
  <2> QED
    BY <1>1, <2>2 DEF ReachOK, HandsNew
<1>8. RowsDue'
  <2> SUFFICES ASSUME NEW x \in Drivers \ missed', key'[x] # None
               PROVE  InTable(x)' \/ \E w \in Workers : Due(w, x)'
    BY <1>1 DEF RowsDue
  <2>1. CASE x = d
    <3>1. PICK w \in Workers : TRUE
      BY WorkersAssumption
    <3>2. Due(w, x)'
      BY <1>5, <2>1 DEF Due
    <3> QED
      BY <3>2
  <2>2. CASE x # d
    <3>1. key'[x] = key[x]
      BY <1>3, <2>2
    <3>2. InTable(x) \/ \E w \in Workers : Due(w, x)
      BY <1>1, <3>1 DEF ReachOK, RowsDue
    <3>3. InTable(x) => InTable(x)'
      BY <1>1, <3>1 DEF InTable
    <3>4. \A w \in Workers : Due(w, x) => Due(w, x)'
      BY <1>1, <3>1 DEF Due, Settled
    <3> QED
      BY <3>2, <3>3, <3>4
  <2> QED
    BY <2>1, <2>2
<1> QED
    BY <1>6, <1>7, <1>8 DEF ReachOK

\* A call may still write a position older than the key's, but only while every
\* worker is due.
LEMMA UpsertReach ==
    ASSUME AgesOK, ReachOK, NEW c \in Calls, Upsert(c)
    PROVE  ReachOK'
<1> DEFINE d == call[c].driver
           new == [lat |-> call[c].at, lng |-> call[c].at, stamp |-> now]
<1>1. /\ UNCHANGED <<now, key, flush, missed>>
      /\ call[c] # None
      /\ row' = [row EXCEPT ![d] = new]
    BY DEF Upsert, Step, faults
<1>2. /\ d \in Drivers
      /\ call[c].at \in Times
      /\ call[c].at \in Nat
      /\ now <= call[c].at + CallTime
  <2>1. call[c] \in Update
    BY <1>1 DEF AgesOK, TypeOK
  <2> QED
    BY <1>1, <2>1, Constants DEF Update, Times, AgesOK, CallsOK
<1>3. /\ new # None
      /\ Older(new) = call[c].at
  <2>1. new \in Location
    BY <1>2 DEF Location, AgesOK, TypeOK
  <2> QED
    BY <1>2, <2>1, NoneAssumption DEF Older
<1> HIDE DEF new
<1>4. row'[d] = new /\ \A x \in Drivers \ {d} : row'[x] = row[x]
    BY <1>1, <1>2 DEF AgesOK, TypeOK
<1> HIDE DEF d
<1>5. PausesOK' /\ HandsNew'
    BY <1>1 DEF ReachOK, PausesOK, HandsNew, Settled
<1>6. RowsDue'
  <2> SUFFICES ASSUME NEW x \in Drivers \ missed', key[x] # None
               PROVE  InTable(x)' \/ \E w \in Workers : Due(w, x)'
    BY <1>1 DEF RowsDue
  <2>1. CASE x = d /\ key[x].at <= call[c].at
    <3>1. InTable(x)'
      BY <2>1, <1>1, <1>2, <1>3, <1>4, Numbers DEF InTable
    <3> QED
      BY <3>1
  <2>2. CASE x = d /\ ~(key[x].at <= call[c].at)
    <3>1. PICK w \in Workers : TRUE
      BY WorkersAssumption
    <3>2. flush[w].since <= Settled(x)
      BY <2>2, <1>2, Numbers, Constants
    <3>3. Due(w, x)'
      BY <3>2, <1>1 DEF Due, Settled
    <3> QED
      BY <3>3
  <2>3. CASE x # d
    <3>1. row'[x] = row[x]
      BY <1>4, <2>3
    <3>2. InTable(x) \/ \E w \in Workers : Due(w, x)
      BY <1>1 DEF ReachOK, RowsDue
    <3>3. InTable(x) => InTable(x)'
      BY <1>1, <3>1 DEF InTable
    <3>4. \A w \in Workers : Due(w, x) => Due(w, x)'
      BY <1>1 DEF Due, Settled
    <3> QED
      BY <3>2, <3>3, <3>4
  <2> QED
    BY <2>1, <2>2, <2>3
<1> QED
    BY <1>5, <1>6 DEF ReachOK

\* A flush begins before the pause is over, so in time for every position its
\* worker was due to write.
LEMMA BeginReach ==
    ASSUME AgesOK, ReachOK, NEW w \in Workers, BeginFlush(w)
    PROVE  ReachOK'
<1> DEFINE f == [flush[w] EXCEPT !.since = now, !.todo = Drivers]
<1>1. /\ flush' = [flush EXCEPT ![w] = f]
      /\ UNCHANGED <<now, key, row, missed>>
      /\ flush[w].todo = {}
      /\ \A d \in Drivers : flush[w].out[d] = None
    BY DEF BeginFlush, Flushing, InHand, faults
<1>2. flush[w] \in Flush
    BY DEF AgesOK, TypeOK
<1>3. /\ f.since = now
      /\ f.todo = Drivers
      /\ f.lat = flush[w].lat
      /\ f.out = flush[w].out
    BY <1>2 DEF Flush
<1>4. flush[w].lat = None
    BY <1>1 DEF AgesOK, FlushesOK
<1> HIDE DEF f
<1>5. now <= f.since + FlushInterval
    BY <1>3, Numbers, Constants
<1>6. ASSUME NEW d \in Drivers, key[d] # None
      PROVE  /\ HandOK(f, d)
             /\ InTable(d) \/ Due(w, d) => InTable(d)' \/ HandDue(f, d)
  <2>1. HandOK(f, d)
    BY <1>1, <1>3, <1>4 DEF HandOK
  <2>2. InTable(d) => InTable(d)'
    BY <1>1 DEF InTable
  <2>3. ASSUME Due(w, d) PROVE HandDue(f, d)
    <3>1. flush[w].since <= Settled(d)
      BY <2>3, <1>1 DEF Due
    <3>2. now <= flush[w].since + FlushInterval
      BY DEF ReachOK, PausesOK
    <3>3. now <= Settled(d) + FlushInterval
      BY <3>1, <3>2, <1>6, Numbers, Constants
    <3> QED
      BY <3>3, <1>3 DEF HandDue
  <2> QED
    BY <2>1, <2>2, <2>3
<1> QED
    BY <1>1, <1>5, <1>6, HandChange

\* A key that is there is read as it is.
LEMMA ReadLatReach ==
    ASSUME AgesOK, ReachOK, NEW w \in Workers, NEW d \in Drivers, ReadLat(w, d)
    PROVE  ReachOK'
<1> DEFINE f == IF key[d] = None THEN [flush[w] EXCEPT !.todo = flush[w].todo \ {d}]
                ELSE [flush[w] EXCEPT !.lat = [driver |-> d, at |-> key[d].at]]
<1>1. /\ flush' = [flush EXCEPT ![w] = f]
      /\ UNCHANGED <<now, key, row, missed>>
      /\ flush[w].lat = None
    BY DEF ReadLat, faults
<1>2. flush[w] \in Flush
    BY DEF AgesOK, TypeOK
<1>3. /\ f.since = flush[w].since
      /\ \A x \in Drivers \ {d} : x \in flush[w].todo => x \in f.todo
      /\ key[d] # None => f.todo = flush[w].todo
      /\ f.lat # None => f.lat = [driver |-> d, at |-> key[d].at]
      /\ f.out = flush[w].out
    BY <1>1, <1>2 DEF Flush
<1> HIDE DEF f
<1>4. now <= f.since + FlushInterval
    BY <1>3 DEF ReachOK, PausesOK
<1>5. ASSUME NEW x \in Drivers, key[x] # None
      PROVE  /\ HandOK(f, x)
             /\ InTable(x) \/ Due(w, x) => InTable(x)' \/ HandDue(f, x)
  <2>1. f.lat # None /\ f.lat.driver = x => f.lat.at = key[x].at
    BY <1>3
  <2>2. HandOK(flush[w], x)
    BY <1>5 DEF ReachOK, HandsNew, HandOK
  <2>3. HandOK(f, x)
    BY <2>1, <2>2, <1>3, <1>5, Numbers DEF HandOK
  <2>4. InTable(x) => InTable(x)'
    BY <1>1 DEF InTable
  <2>5. Due(w, x) => HandDue(f, x)
    BY <1>3, <1>5 DEF Due, HandDue
  <2> QED
    BY <2>3, <2>4, <2>5
<1> QED
    BY <1>1, <1>4, <1>5, HandChange

\* What is read of a driver goes to the rows to write, both coordinates as new
\* as the key if the flush is.
LEMMA ReadLngReach ==
    ASSUME AgesOK, ReachOK, NEW w \in Workers, ReadLng(w)
    PROVE  ReachOK'
<1> DEFINE d == flush[w].lat.driver
           p == IF key[d] = None THEN None ELSE [lat |-> flush[w].lat.at, lng |-> key[d].at]
           f == [flush[w] EXCEPT !.todo = flush[w].todo \ {d}, !.lat = None, !.out[d] = p]
<1>1. /\ flush' = [flush EXCEPT ![w] = f]
      /\ UNCHANGED <<now, key, row, missed>>
      /\ flush[w].lat # None
  <2>1. flush' = [flush EXCEPT ![w] =
                        [flush[w] EXCEPT !.todo = flush[w].todo \ {d}, !.lat = None,
                            !.out[d] = IF key[d] = None THEN None
                                       ELSE [lat |-> flush[w].lat.at,
                                             lng |-> key[d].at]]]
    BY DEF ReadLng
  <2> QED
    BY <2>1 DEF ReadLng, faults
<1>2. flush[w] \in Flush
    BY DEF AgesOK, TypeOK
<1>3. /\ flush[w].lat \in Reading
      /\ d \in Drivers
      /\ flush[w].lat.at \in Times
      /\ flush[w].lat.at \in Nat
      /\ flush[w].out \in [Drivers -> Position \cup {None}]
    BY <1>1, <1>2, Constants DEF Flush, Reading, Times
<1>4. key[d] # None =>
          /\ p # None
          /\ Older(p) = flush[w].lat.at \/ Older(p) = key[d].at
  <2> SUFFICES ASSUME key[d] # None
               PROVE  /\ p # None
                      /\ Older(p) = flush[w].lat.at \/ Older(p) = key[d].at
    OBVIOUS
  <2>1. p = [lat |-> flush[w].lat.at, lng |-> key[d].at]
    OBVIOUS
  <2>2. p \in Position
    BY <2>1, <1>3, KeyRecent DEF Position
  <2> QED
    BY <2>1, <2>2, NoneAssumption DEF Older
<1> HIDE DEF p
<1>5. /\ f.since = flush[w].since
      /\ f.todo = flush[w].todo \ {d}
      /\ f.lat = None
      /\ f.out[d] = p
      /\ \A x \in Drivers \ {d} : f.out[x] = flush[w].out[x]
    BY <1>2, <1>3 DEF Flush
<1> HIDE DEF f
<1>6. now <= f.since + FlushInterval
    BY <1>5 DEF ReachOK, PausesOK
<1>7. ASSUME NEW x \in Drivers, key[x] # None
      PROVE  /\ HandOK(f, x)
             /\ InTable(x) \/ Due(w, x) => InTable(x)' \/ HandDue(f, x)
  <2>1. HandOK(flush[w], x)
    BY <1>7 DEF ReachOK, HandsNew, HandOK
  <2>2. HandOK(f, x)
    <3>1. CASE x = d
      <4> SUFFICES ASSUME flush[w].since > Settled(x)
                   PROVE  Older(p) >= key[x].at
        BY <3>1, <1>5 DEF HandOK
      <4>1. flush[w].lat.at >= key[x].at
        BY <3>1, <2>1, <1>1 DEF HandOK
      <4> QED
        BY <3>1, <4>1, <1>4, <1>7, Numbers
    <3>2. CASE x # d
      BY <3>2, <2>1, <1>5 DEF HandOK
    <3> QED
      BY <3>1, <3>2
  <2>3. InTable(x) => InTable(x)'
    BY <1>1 DEF InTable
  <2>4. Due(w, x) => HandDue(f, x)
    <3>1. x = d => f.out[x] # None
      BY <1>4, <1>5, <1>7
    <3>2. x # d => (x \in flush[w].todo => x \in f.todo) /\ f.out[x] = flush[w].out[x]
      BY <1>5
    <3> QED
      BY <3>1, <3>2, <1>5 DEF Due, HandDue
  <2> QED
    BY <2>2, <2>3, <2>4
<1> QED
    BY <1>1, <1>6, <1>7, HandChange

\* A new flush writes a new position, and an old one leaves its worker due.
LEMMA WriteRowReach ==
    ASSUME AgesOK, ReachOK, NEW w \in Workers, NEW d \in Drivers, WriteRow(w, d)
    PROVE  ReachOK'
<1> DEFINE p == flush[w].out[d]
           new == [lat |-> p.lat, lng |-> p.lng, stamp |-> now]
           f == [flush[w] EXCEPT !.out[d] = None]
<1>1. /\ flush' = [flush EXCEPT ![w] = f]
      /\ row' = [row EXCEPT ![d] = new]
      /\ UNCHANGED <<now, key, missed>>
      /\ p # None
  <2>1. flush' = [flush EXCEPT ![w].out[d] = None]
    BY DEF WriteRow
  <2> QED
    BY <2>1 DEF WriteRow, faults, AgesOK, TypeOK
<1>2. flush[w] \in Flush /\ now \in Times
    BY DEF AgesOK, TypeOK
<1>3. /\ flush[w].out \in [Drivers -> Position \cup {None}]
      /\ p \in Position
    BY <1>1, <1>2 DEF Flush
<1>4. new # None /\ Older(new) = Older(p)
  <2>1. new \in Location
    BY <1>2, <1>3 DEF Position, Location
  <2> QED
    BY <2>1, NoneAssumption DEF Older
<1>5. /\ f.since = flush[w].since
      /\ f.todo = flush[w].todo
      /\ f.lat = flush[w].lat
      /\ f.out[d] = None
      /\ \A x \in Drivers \ {d} : f.out[x] = flush[w].out[x]
    BY <1>2, <1>3 DEF Flush
<1> HIDE DEF f, new
<1>6. row'[d] = new /\ \A x \in Drivers \ {d} : row'[x] = row[x]
    BY <1>1 DEF AgesOK, TypeOK
<1>7. now <= f.since + FlushInterval
    BY <1>5 DEF ReachOK, PausesOK
<1>8. ASSUME NEW x \in Drivers, key[x] # None
      PROVE  /\ HandOK(f, x)
             /\ InTable(x) \/ Due(w, x) => InTable(x)' \/ HandDue(f, x)
  <2>1. HandOK(flush[w], x)
    BY <1>8 DEF ReachOK, HandsNew, HandOK
  <2>2. HandOK(f, x)
    BY <2>1, <1>5 DEF HandOK
  <2>3. CASE x = d
    <3>1. CASE flush[w].since <= Settled(x)
      BY <3>1, <2>2, <1>5 DEF HandDue
    <3>2. CASE ~(flush[w].since <= Settled(x))
      <4>1. flush[w].since > Settled(x)
        BY <3>2, <1>8, Numbers
      <4>2. Older(p) >= key[x].at
        BY <4>1, <2>1, <2>3, <1>1 DEF HandOK
      <4>3. InTable(x)'
        BY <4>2, <2>3, <1>1, <1>4, <1>6 DEF InTable
      <4> QED
        BY <4>3, <2>2
    <3> QED
      BY <3>1, <3>2
  <2>4. CASE x # d
    <3>1. InTable(x) => InTable(x)'
      BY <2>4, <1>1, <1>6 DEF InTable
    <3>2. Due(w, x) => HandDue(f, x)
      BY <2>4, <1>5 DEF Due, HandDue
    <3> QED
      BY <3>1, <3>2, <2>2
  <2> QED
    BY <2>3, <2>4
<1> QED
    BY <1>1, <1>7, <1>8, HandChange

\* A flush that leaves drivers out is still due to write the others.
LEMMA LeaveOutReach ==
    ASSUME AgesOK, ReachOK, NEW w \in Workers, NEW left \in SUBSET Drivers,
           LeaveOut(w, left)
    PROVE  ReachOK'
<1> DEFINE out == [d \in Drivers |-> IF d \in left THEN None ELSE flush[w].out[d]]
           f == [flush[w] EXCEPT !.todo = flush[w].todo \ left, !.lat = None, !.out = out]
<1>1. /\ flush' = [flush EXCEPT ![w] = f]
      /\ UNCHANGED <<now, key, row>>
      /\ missed' = missed \cup left
    BY DEF LeaveOut
<1>2. flush[w] \in Flush
    BY DEF AgesOK, TypeOK
<1>3. /\ \A d \in Drivers : out[d] # None => out[d] = flush[w].out[d]
      /\ \A d \in Drivers \ left : out[d] = flush[w].out[d]
    OBVIOUS
<1> HIDE DEF out
<1>4. /\ f.since = flush[w].since
      /\ f.todo = flush[w].todo \ left
      /\ f.lat = None
      /\ f.out = out
    BY <1>2 DEF Flush
<1> HIDE DEF f
<1>5. now <= f.since + FlushInterval
    BY <1>4 DEF ReachOK, PausesOK
<1>6. ASSUME NEW d \in Drivers, key[d] # None
      PROVE  /\ HandOK(f, d)
             /\ d \notin missed' /\ (InTable(d) \/ Due(w, d))
                   => InTable(d)' \/ HandDue(f, d)
  <2>1. HandOK(flush[w], d)
    BY <1>6 DEF ReachOK, HandsNew, HandOK
  <2>2. HandOK(f, d)
    BY <2>1, <1>3, <1>4 DEF HandOK
  <2>3. InTable(d) => InTable(d)'
    BY <1>1 DEF InTable
  <2>4. d \notin missed' /\ Due(w, d) => HandDue(f, d)
    BY <1>1, <1>3, <1>4 DEF Due, HandDue
  <2> QED
    BY <2>2, <2>3, <2>4
<1>7. missed \subseteq missed'
    BY <1>1
<1> QED
    BY <1>1, <1>5, <1>6, <1>7, HandChange

-----------------------------------------------------------------------------
LEMMA InitIndInv == Init => IndInv
BY InitAges, InitReach DEF IndInv

LEMMA NextStep == IndInv /\ [Next]_vars => IndInv'
<1> SUFFICES ASSUME AgesOK, ReachOK, [Next]_vars PROVE AgesOK' /\ ReachOK'
    BY DEF IndInv
<1>1. CASE Next
  <2>1. CASE Tick
    BY <2>1, TickStep, TickReach
  <2>2. CASE \E d \in Drivers : GoOnline(d) \/ GoOffline(d) \/ UpdateUser(d)
    <3>1. UNCHANGED <<now, key, row, flush, missed>>
      BY <2>2 DEF GoOnline, GoOffline, UpdateUser, faults
    <3> QED
      BY <2>2, <3>1, UserStep, QuietReach
  <2>3. CASE \E d \in Drivers : DeleteKey(d)
    BY <2>3, DeleteKeyStep, KeyReach
  <2>4. CASE \E c \in Calls : (\E d \in Drivers : UpdateLocation(c, d)) \/ HSetFails(c)
    <3>1. UNCHANGED <<now, key, row, flush, missed>>
      BY <2>4 DEF UpdateLocation, HSetFails, faults
    <3> QED
      BY <2>4, <3>1, EarlyCallStep, QuietReach
  <2>5. CASE \E c \in Calls : HSet(c)
    BY <2>5, HSetStep, HSetReach
  <2>6. CASE \E c \in Calls : Expire(c)
    BY <2>6, ExpireStep, KeyReach
  <2>7. CASE \E c \in Calls : ExpireFails(c) \/ Abandon(c)
    <3>1. UNCHANGED <<now, key, row, flush, missed>>
      BY <2>7 DEF ExpireFails, Abandon
    <3> QED
      BY <2>7, <3>1, LeaveKeyStep, QuietReach
  <2>8. CASE \E c \in Calls : Upsert(c)
    BY <2>8, UpsertStep, UpsertReach
  <2>9. CASE \E w \in Workers : BeginFlush(w)
    BY <2>9, BeginFlushStep, BeginReach
  <2>10. CASE \E w \in Workers, d \in Drivers : ReadLat(w, d)
    BY <2>10, ReadLatStep, ReadLatReach
  <2>11. CASE \E w \in Workers : ReadLng(w)
    BY <2>11, ReadLngStep, ReadLngReach
  <2>12. CASE \E w \in Workers, d \in Drivers : WriteRow(w, d)
    BY <2>12, WriteRowStep, WriteRowReach
  <2>13. CASE \E w \in Workers, d \in Drivers : ReadFails(w, d) \/ WriteFails(w, d)
    BY <2>13, LeaveOutStep, LeaveOutReach DEF ReadFails, WriteFails
  <2>14. CASE \E w \in Workers : GiveUp(w)
    <3>1. PICK w \in Workers : LeaveOut(w, InHand(w))
      BY <2>14 DEF GiveUp
    <3>2. InHand(w) \subseteq Drivers
      BY DEF InHand, AgesOK, TypeOK, Flush
    <3> QED
      BY <3>1, <3>2, LeaveOutStep, LeaveOutReach
  <2> QED
    BY <1>1, <2>1, <2>2, <2>3, <2>4, <2>5, <2>6, <2>7, <2>8, <2>9, <2>10, <2>11,
       <2>12, <2>13, <2>14 DEF Next
<1>2. CASE UNCHANGED vars
  <2>1. AgesOK'
    BY <1>2 DEF vars, AgesOK, TypeOK, CallsOK, KeysOK, FlushesOK, RowsOK, Step, Flushing, InHand
  <2>2. ReachOK'
    BY <1>2, QuietReach DEF vars
  <2> QED
    BY <2>1, <2>2
<1> QED
    BY <1>1, <1>2

\* The inductive invariant holds in every state, whatever the times, the
\* drivers, the calls and the workers.
THEOREM PresenceInvariant == Spec => []IndInv
BY InitIndInv, NextStep, PTL DEF Spec

\* A position that has stayed in Redis for a call, a pause and a flush is in
\* the table, unless a flush left its driver out: by then no worker can be due.
THEOREM PresencePersisted == Spec => []Persisted
<1>1. IndInv => Persisted
  <2> SUFFICES ASSUME AgesOK, ReachOK, NEW d \in Drivers \ missed, key[d] # None,
                      now - key[d].at > Lag
               PROVE  InTable(d)
    BY DEF Persisted, IndInv
  <2>1. InTable(d) \/ \E w \in Workers : Due(w, d)
    BY DEF ReachOK, RowsDue
  <2>2. ASSUME NEW w \in Workers PROVE ~Due(w, d)
    <3>1. now <= flush[w].since + FlushInterval
      BY DEF ReachOK, PausesOK
    <3>2. ~(flush[w].since <= Settled(d))
      BY <3>1, Numbers, Constants DEF Lag
    <3>3. d \in flush[w].todo \/ flush[w].out[d] # None => Flushing(w)
      BY DEF Flushing, InHand
    <3>4. Flushing(w) => now <= flush[w].since + FlushTime
      BY DEF AgesOK, FlushesOK
    <3>5. Flushing(w) => ~(flush[w].since <= Settled(d) + FlushInterval)
      BY <3>4, Numbers, Constants DEF Lag
    <3> QED
      BY <3>2, <3>3, <3>5 DEF Due
  <2> QED
    BY <2>1, <2>2
<1> QED
    BY <1>1, PresenceInvariant, PTL

\* No search shows a position older than two calls, the TTL, a flush and the
\* age the SQL search accepts, unless a key was left without its TTL.
THEOREM PresenceRecent == Spec => []ListedRecent
<1>1. IndInv => ListedRecent
  <2> SUFFICES ASSUME AgesOK, NEW near \in SUBSET Drivers, NEW d \in Found(near),
                      d \notin unexpiring
               PROVE  Age(near, d) <= Longest
    BY DEF ListedRecent, IndInv
  <2>1. now \in Nat
    BY Constants DEF AgesOK, TypeOK, Times
  <2>2. CASE RedisHits(near) # {}
    <3>1. d \in Drivers /\ key[d] # None
      BY <2>2 DEF Found, RedisHits
    <3>2. key[d].at \in Nat /\ now <= key[d].at + KeyAge
      BY <3>1, KeyRecent
    <3> QED
      BY <2>1, <2>2, <3>2, Constants DEF Age, Longest
  <2>3. CASE RedisHits(near) = {}
    <3>1. d \in Drivers /\ row[d] # None /\ now - row[d].stamp <= PgFreshWindow
      BY <2>3 DEF Found, SqlHits
    <3>2. row[d].lat \in Nat /\ row[d].lng \in Nat /\ row[d].stamp \in Nat
      BY <3>1, Constants DEF AgesOK, TypeOK, Location, Times
    <3>3. Older(row[d]) \in Nat
      BY <3>2, OlderIs
    <3>4. row[d].stamp <= Older(row[d]) + KeyAge + FlushTime
      BY <3>1 DEF AgesOK, RowsOK
    <3> QED
      BY <2>1, <2>3, <3>1, <3>2, <3>3, <3>4, Constants DEF Age, Longest
  <2> QED
    BY <2>2, <2>3
<1> QED
    BY <1>1, PresenceInvariant, PTL

=============================================================================
