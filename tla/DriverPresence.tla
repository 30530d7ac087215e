---------------------------- MODULE DriverPresence ----------------------------
(***************************************************************************)
(* Where the drivers are and whether they are there: locations are written *)
(* to a Redis hash that expires, flushed to PostgreSQL by each process's   *)
(* worker, and read back by the search for drivers nearby; drivers go      *)
(* online and offline meanwhile (internal/location/service.go, worker.go,  *)
(* repository.go).                                                         *)
(*                                                                         *)
(* Nothing here runs in a transaction: each Redis command and each SQL     *)
(* statement is a step.  A position is known by the time it was reported,  *)
(* one time for each coordinate, since they are read one by one.           *)
(***************************************************************************)
EXTENDS Integers

CONSTANTS
    Drivers,
    Calls,          \* UpdateLocation calls in flight at one time
    Workers,        \* flush loops, one in each process
    RedisTTL,       \* redisTTL
    FreshWindow,    \* freshWindow, the age the Redis search accepts
    PgFreshWindow,  \* postgresFreshWindow, the age the SQL search accepts
    FlushInterval,  \* time from one flush of a worker to the next
    FlushTime,      \* the longest a flush takes
    CallTime,       \* the longest a call takes
    Horizon,        \* bound on the clock
    None

Forever == Horizon + RedisTTL + 1

ASSUME TimesAssumption ==
    /\ {RedisTTL, FreshWindow, PgFreshWindow, FlushInterval} \subseteq Nat \ {0}
    /\ {FlushTime, CallTime, Horizon} \subseteq Nat
    /\ FlushTime <= FlushInterval

VARIABLES
    now,        \* the clock
    online,     \* users.is_online
    duty,       \* users.status and users.working_status: what an active driver
                \* does, or SUSPENDED
    leaving,    \* drivers whose offline call has yet to delete the key
    key,        \* the Redis hashes driver:location:{id}
    row,        \* the rows of driver_locations
    call,       \* UpdateLocation calls in flight
    flush,      \* what each worker is doing
    unexpiring, \* drivers whose key was ever left without a TTL
    missed      \* drivers whom a flush ever left out

vars == <<now, online, duty, leaving, key, row, call, flush, unexpiring, missed>>

users  == <<online, duty, leaving>>
faults == <<unexpiring, missed>>

\* A hash, a row, a call at one of its steps, and a flush: the drivers whose
\* keys it has yet to read, the latitude just read, and what it will write.
Times    == 0..Horizon
Hash     == [at : Times, until : 0..Forever]
Position == [lat : Times, lng : Times]
Location == [lat : Times, lng : Times, stamp : Times]
Reading  == [driver : Drivers, at : Times]
Flush    == [since : Times, todo : SUBSET Drivers, lat : Reading \cup {None},
             out : [Drivers -> Position \cup {None}]]
Update   == [driver : Drivers, at : Times, step : {"hset", "expire", "upsert"}]

ASSUME NoneAssumption == None \notin Update \cup Position \cup Location

\* Every process starts a flush loop (cmd/api/main.go).
ASSUME WorkersAssumption == Workers # {}

-----------------------------------------------------------------------------
(* GetNearbyDrivers *)

\* readNearbyRedis, for the drivers whose position is within the radius:
\* fresh keys count, whatever the driver's row in users says.
RedisHits(near) ==
    {d \in near : key[d] # None /\ now - key[d].at <= FreshWindow}

\* The query of Repository.GetNearbyDrivers.
SqlHits(near) ==
    {d \in near : /\ duty[d] = "IDLE"
                  /\ online[d]
                  /\ row[d] # None
                  /\ now - row[d].stamp <= PgFreshWindow}

\* PostgreSQL is asked when Redis has nobody.
Found(near) == IF RedisHits(near) # {} THEN RedisHits(near) ELSE SqlHits(near)

\* How long ago the position that Found shows was reported.
Older(p) == IF p.lat <= p.lng THEN p.lat ELSE p.lng

Age(near, d) ==
    IF RedisHits(near) # {} THEN now - key[d].at ELSE now - Older(row[d])

-----------------------------------------------------------------------------
Init ==
    /\ now = 0
    /\ online = [d \in Drivers |-> FALSE]
    /\ duty = [d \in Drivers |-> "IDLE"]
    /\ leaving = {}
    /\ key = [d \in Drivers |-> None]
    /\ row = [d \in Drivers |-> None]
    /\ call = [c \in Calls |-> None]
    /\ flush = [w \in Workers |-> [since |-> 0, todo |-> {}, lat |-> None,
                                   out |-> [d \in Drivers |-> None]]]
    /\ unexpiring = {}
    /\ missed = {}

\* The drivers whose keys a worker has yet to read or whose rows it has yet to
\* write.
InHand(w) == flush[w].todo \cup {d \in Drivers : flush[w].out[d] # None}

Flushing(w) == InHand(w) # {}

\* Time passes, and keys go whose time has come by then; up to and including
\* that moment they may still be read.  A call, a flush and
\* the pause between flushes last no longer than they may.
Tick ==
    /\ now < Horizon
    /\ \A c \in Calls : call[c] # None => now - call[c].at < CallTime
    /\ \A w \in Workers :
          now - flush[w].since < IF Flushing(w) THEN FlushTime ELSE FlushInterval
    /\ now' = now + 1
    /\ key' = [d \in Drivers |->
                  IF key[d] # None /\ key[d].until <= now THEN None ELSE key[d]]
    /\ UNCHANGED <<users, row, call, flush, faults>>

\* SetOnlineStatus(true): only active drivers have a row to update.
GoOnline(d) ==
    /\ duty[d] # "SUSPENDED"
    /\ online' = [online EXCEPT ![d] = TRUE]
    /\ UNCHANGED <<now, duty, leaving, key, row, call, flush, faults>>

\* SetOnlineStatus(false) updates the row first.
GoOffline(d) ==
    /\ duty[d] # "SUSPENDED"
    /\ d \notin leaving
    /\ online' = [online EXCEPT ![d] = FALSE]
    /\ leaving' = leaving \cup {d}
    /\ UNCHANGED <<now, duty, key, row, call, flush, faults>>

\* ... and deletes the key after.
DeleteKey(d) ==
    /\ d \in leaving
    /\ leaving' = leaving \ {d}
    /\ key' = [key EXCEPT ![d] = None]
    /\ UNCHANGED <<now, online, duty, row, call, flush, faults>>

\* The orders and the administrators change the columns the search reads.
UpdateUser(d) ==
    /\ \E other \in {"IDLE", "BUSY", "SUSPENDED"} \ {duty[d]} :
          duty' = [duty EXCEPT ![d] = other]
    /\ UNCHANGED <<now, online, leaving, key, row, call, flush, faults>>

-----------------------------------------------------------------------------
(* UpdateLocation, which asks neither whether the driver is online nor active *)

Step(c, step) == call[c] # None /\ call[c].step = step

Goto(c, step) == call' = [call EXCEPT ![c].step = step]

Return(c) == call' = [call EXCEPT ![c] = None]

\* The call takes the time it will store.
UpdateLocation(c, d) ==
    /\ call[c] = None
    /\ call' = [call EXCEPT ![c] = [driver |-> d, at |-> now, step |-> "hset"]]
    /\ UNCHANGED <<now, users, key, row, flush, faults>>

\* HSET keeps the TTL of a key that exists, and a new key has none.
HSet(c) ==
    /\ Step(c, "hset")
    /\ LET d == call[c].driver
       IN  key' = [key EXCEPT ![d] =
                      [at |-> call[c].at,
                       until |-> IF key[d] = None THEN Forever ELSE key[d].until]]
    /\ Goto(c, "expire")
    /\ UNCHANGED <<now, users, row, flush, faults>>

\* Redis is away, or not configured: the row is written instead.
HSetFails(c) ==
    /\ Step(c, "hset")
    /\ Goto(c, "upsert")
    /\ UNCHANGED <<now, users, key, row, flush, faults>>

\* Mutant of Expire: the key keeps whatever TTL it has.
ExpireLost(c) ==
    /\ Step(c, "expire")
    /\ Return(c)
    /\ UNCHANGED <<now, users, key, row, flush, faults>>

\* EXPIRE succeeds also when the key is gone by then.
Expire(c) ==
    /\ Step(c, "expire")
    /\ LET d == call[c].driver
       IN  key' = [key EXCEPT ![d] =
                      IF @ = None THEN None ELSE [@ EXCEPT !.until = now + RedisTTL]]
    /\ Return(c)
    /\ UNCHANGED <<now, users, row, flush, faults>>

\* What a call leaves behind that does not come to its EXPIRE.
LeaveKey(c) ==
    LET d == call[c].driver
    IN  unexpiring' = IF key[d] # None /\ key[d].until = Forever
                      THEN unexpiring \cup {d} ELSE unexpiring

\* EXPIRE fails: the row is written as well, and the key stays.
ExpireFails(c) ==
    /\ Step(c, "expire")
    /\ Goto(c, "upsert")
    /\ LeaveKey(c)
    /\ UNCHANGED <<now, users, key, row, flush, missed>>

\* UpsertLocation stamps the row with the time of the statement.
Upsert(c) ==
    /\ Step(c, "upsert")
    /\ row' = [row EXCEPT ![call[c].driver] =
                  [lat |-> call[c].at, lng |-> call[c].at, stamp |-> now]]
    /\ Return(c)
    /\ UNCHANGED <<now, users, key, flush, faults>>

\* A call ends with an error, or its process does.
Abandon(c) ==
    /\ call[c] # None
    /\ Return(c)
    /\ IF Step(c, "expire") THEN LeaveKey(c) ELSE UNCHANGED unexpiring
    /\ UNCHANGED <<now, users, key, row, flush, missed>>

-----------------------------------------------------------------------------
(* FlushLoop *)

\* flushOnce begins to scan the keys.
BeginFlush(w) ==
    /\ ~Flushing(w)
    /\ flush' = [flush EXCEPT ![w] = [@ EXCEPT !.since = now, !.todo = Drivers]]
    /\ UNCHANGED <<now, users, key, row, call, faults>>

\* The first field of a key, if there is such a key.
ReadLat(w, d) ==
    /\ d \in flush[w].todo
    /\ flush[w].lat = None
    /\ flush' = [flush EXCEPT ![w] =
                    IF key[d] = None THEN [flush[w] EXCEPT !.todo = flush[w].todo \ {d}]
                    ELSE [flush[w] EXCEPT !.lat = [driver |-> d, at |-> key[d].at]]]
    /\ UNCHANGED <<now, users, key, row, call, faults>>

\* Mutant of ReadLng: the driver's key is read again and again.
ReadLngAgain(w) ==
    /\ flush[w].lat # None
    /\ LET d == flush[w].lat.driver
       IN  flush' = [flush EXCEPT ![w] =
                        [@ EXCEPT !.lat = None,
                                  !.out[d] = IF key[d] = None THEN None
                                             ELSE [lat |-> flush[w].lat.at,
                                                   lng |-> key[d].at]]]
    /\ UNCHANGED <<now, users, key, row, call, faults>>

\* The second field; a key that has gone meanwhile is passed over.
ReadLng(w) ==
    /\ flush[w].lat # None
    /\ LET d == flush[w].lat.driver
       IN  flush' = [flush EXCEPT ![w] =
                        [flush[w] EXCEPT !.todo = flush[w].todo \ {d}, !.lat = None,
                            !.out[d] = IF key[d] = None THEN None
                                       ELSE [lat |-> flush[w].lat.at,
                                             lng |-> key[d].at]]]
    /\ UNCHANGED <<now, users, key, row, call, faults>>

\* Mutant of WriteRow: a row that is there already is left alone.
WriteNewRow(w, d) ==
    /\ flush[w].todo = {}
    /\ flush[w].out[d] # None
    /\ row' = [row EXCEPT ![d] =
                  IF @ # None THEN @
                  ELSE [lat |-> flush[w].out[d].lat, lng |-> flush[w].out[d].lng,
                        stamp |-> now]]
    /\ flush' = [flush EXCEPT ![w].out[d] = None]
    /\ UNCHANGED <<now, users, key, call, faults>>

\* Once all keys are read the rows are written, each stamped with the time of
\* its statement.
WriteRow(w, d) ==
    /\ flush[w].todo = {}
    /\ flush[w].out[d] # None
    /\ row' = [row EXCEPT ![d] =
                  [lat |-> flush[w].out[d].lat, lng |-> flush[w].out[d].lng,
                   stamp |-> now]]
    /\ flush' = [flush EXCEPT ![w].out[d] = None]
    /\ UNCHANGED <<now, users, key, call, faults>>

\* A flush goes on without some of its drivers.
LeaveOut(w, left) ==
    /\ flush' = [flush EXCEPT ![w] =
                    [flush[w] EXCEPT !.todo = flush[w].todo \ left, !.lat = None,
                        !.out = [d \in Drivers |->
                                    IF d \in left THEN None ELSE flush[w].out[d]]]]
    /\ missed' = missed \cup left
    /\ UNCHANGED <<now, users, key, row, call, unexpiring>>

\* One of the two HGETs on a key fails: read is not ok, and scan continues.
ReadFails(w, d) ==
    /\ d \in flush[w].todo
    /\ flush[w].lat # None => flush[w].lat.driver = d
    /\ LeaveOut(w, {d})

\* One row cannot be written: flushOnce continues with the next.
WriteFails(w, d) ==
    /\ flush[w].todo = {}
    /\ flush[w].out[d] # None
    /\ LeaveOut(w, {d})

\* SCAN fails, or the process ends: none of the rest is written.
GiveUp(w) ==
    /\ Flushing(w)
    /\ LeaveOut(w, InHand(w))

Next ==
    \/ Tick
    \/ \E d \in Drivers : GoOnline(d)
    \/ \E d \in Drivers : GoOffline(d)
    \/ \E d \in Drivers : DeleteKey(d)
    \/ \E d \in Drivers : UpdateUser(d)
    \/ \E c \in Calls, d \in Drivers : UpdateLocation(c, d)
    \/ \E c \in Calls : HSet(c)
    \/ \E c \in Calls : HSetFails(c)
    \/ \E c \in Calls : Expire(c)
    \/ \E c \in Calls : ExpireFails(c)
    \/ \E c \in Calls : Upsert(c)
    \/ \E c \in Calls : Abandon(c)
    \/ \E w \in Workers : BeginFlush(w)
    \/ \E w \in Workers, d \in Drivers : ReadLat(w, d)
    \/ \E w \in Workers : ReadLng(w)
    \/ \E w \in Workers, d \in Drivers : WriteRow(w, d)
    \/ \E w \in Workers, d \in Drivers : ReadFails(w, d)
    \/ \E w \in Workers, d \in Drivers : WriteFails(w, d)
    \/ \E w \in Workers : GiveUp(w)

Spec == Init /\ [][Next]_vars

-----------------------------------------------------------------------------
(* Properties *)

TypeOK ==
    /\ now \in Times
    /\ online \in [Drivers -> BOOLEAN]
    /\ duty \in [Drivers -> {"IDLE", "BUSY", "SUSPENDED"}]
    /\ leaving \subseteq Drivers
    /\ key \in [Drivers -> Hash \cup {None}]
    /\ row \in [Drivers -> Location \cup {None}]
    /\ call \in [Calls -> Update \cup {None}]
    /\ flush \in [Workers -> Flush]
    /\ unexpiring \subseteq Drivers
    /\ missed \subseteq Drivers

\* The longest a position may be shown after it was reported: two calls that
\* overlap, the life of its key, one flush that read the key at the last
\* moment, and the age the SQL search accepts of the row that flush stamped.
Longest == 2 * CallTime + RedisTTL + FlushTime + PgFreshWindow

\* A search shows no position older than that, although every flush stamps the
\* rows as new, as long as no call has left a key without its TTL.
ListedRecent ==
    \A near \in SUBSET Drivers : \A d \in Found(near) :
        d \notin unexpiring => Age(near, d) <= Longest

\* The longest a position may be in Redis and not in the table: a flush that
\* read the key just before it, the pause, and the next flush.
Lag == CallTime + FlushInterval + FlushTime

\* The row holds both coordinates of the position in Redis or of a later one.
InTable(d) == row[d] # None /\ Older(row[d]) >= key[d].at

\* A position that stays in Redis that long is in the table, whatever older
\* ones were still being written, as long as no flush left its driver out,
\* whomever else it left out.
Persisted ==
    \A d \in Drivers \ missed :
        key[d] # None /\ now - key[d].at > Lag => InTable(d)

-----------------------------------------------------------------------------
(* The inductive invariant: AgesOK is behind ListedRecent *)

\* How old a position in Redis can be when it is read.
KeyAge == 2 * CallTime + RedisTTL

\* A call has not taken longer than it may, and while it is about to set the
\* TTL no position much older than its own is in its key.
CallsOK ==
    \A c \in Calls : call[c] # None =>
        /\ call[c].at <= now
        /\ now <= call[c].at + CallTime
        /\ call[c].step = "expire" /\ key[call[c].driver] # None
              => call[c].at <= key[call[c].driver].at + CallTime

\* A key goes when its time has come.  A key without a TTL belongs to a call
\* that is about to set it, or its driver is known to have such a key.
KeysOK ==
    \A d \in Drivers : key[d] # None =>
        /\ key[d].at <= now
        /\ now <= key[d].until
        /\ key[d].until # Forever => key[d].until <= now + RedisTTL
        /\ d \notin unexpiring =>
              IF key[d].until = Forever
              THEN \E c \in Calls : Step(c, "expire") /\ call[c].driver = d
              ELSE key[d].until <= key[d].at + KeyAge

\* A flush has not taken longer than it may; it writes only what it has read,
\* and that was not too old when it began.
FlushesOK ==
    \A w \in Workers :
        /\ flush[w].since <= now
        /\ Flushing(w) => now <= flush[w].since + FlushTime
        /\ LET r == flush[w].lat
           IN  r # None => /\ r.driver \in flush[w].todo
                           /\ r.driver \notin unexpiring => flush[w].since <= r.at + KeyAge
        /\ \A d \in Drivers :
              LET p == flush[w].out[d]
              IN  p # None => /\ d \notin flush[w].todo
                              /\ d \notin unexpiring =>
                                    flush[w].since <= Older(p) + KeyAge

\* A row was not too old when it was stamped.
RowsOK ==
    \A d \in Drivers : row[d] # None /\ d \notin unexpiring =>
        row[d].stamp <= Older(row[d]) + KeyAge + FlushTime

AgesOK ==
    /\ TypeOK
    /\ CallsOK
    /\ KeysOK
    /\ FlushesOK
    /\ RowsOK

\* ... and the rest is behind Persisted.  A worker does not pause for longer
\* than it may.
PausesOK == \A w \in Workers : now <= flush[w].since + FlushInterval

\* No call in flight can take a key back to an older position once this time
\* has come.
Settled(d) == key[d].at + CallTime

\* A flush that began after that has read no older position of the driver.
HandsNew ==
    \A w \in Workers, d \in Drivers :
        key[d] # None /\ flush[w].since > Settled(d) =>
            LET r == flush[w].lat
                p == flush[w].out[d]
            IN  /\ r # None /\ r.driver = d => r.at >= key[d].at
                /\ p # None => Older(p) >= key[d].at

\* The worker is yet to begin such a flush, or has begun one, in time, that
\* will write the driver's row.
Due(w, d) ==
    \/ flush[w].since <= Settled(d)
    \/ /\ flush[w].since <= Settled(d) + FlushInterval
       /\ d \in flush[w].todo \/ flush[w].out[d] # None

\* A position in Redis is in the table, or some worker is due to write it.
RowsDue ==
    \A d \in Drivers \ missed :
        key[d] # None => InTable(d) \/ \E w \in Workers : Due(w, d)

ReachOK == PausesOK /\ HandsNew /\ RowsDue

IndInv == AgesOK /\ ReachOK

-----------------------------------------------------------------------------
(* Statements of the comments and documents that the code breaks *)

\* "lokasi dianggap hidup bila updated_at tidak lebih tua dari 60 detik", and a
\* driver who is gone disappears after 60 seconds: a driver who has not
\* reported for that long is not found.
SilentIsGone ==
    \A near \in SUBSET Drivers : \A d \in Found(near) :
        d \notin unexpiring => Age(near, d) <= FreshWindow + CallTime

\* "mencari driver aktif terdekat": those found are active, online and idle.
FoundAvailable ==
    \A near \in SUBSET Drivers : \A d \in Found(near) :
        online[d] /\ duty[d] = "IDLE"

=============================================================================
