----------------------------- MODULE AdminLockout -----------------------------
(***************************************************************************)
(* How failed logins and failed second factors lock an account: the        *)
(* counter and the flag in Redis, their copy in admin_lockouts, and the    *)
(* requests that read and write both (internal/admin/lockout.go, Login in  *)
(* internal/admin/service.go).  One account; accounts share nothing.       *)
(*                                                                         *)
(* A request asks both stores whether the account is locked, compares what *)
(* it was given, and then counts a failure or clears the counts, one call  *)
(* to one store at a time.  Redis may stop answering and come back, or     *)
(* come back empty; a statement of PostgreSQL may fail, which most callers *)
(* log and go on; a request may stop anywhere.                             *)
(***************************************************************************)
EXTENDS Integers, Sequences, FiniteSets

CONSTANTS
    Requests,
    MaxFailed,    \* maxFailedAttempts
    Duration,     \* lockoutDuration
    RequestTime,  \* a request does not last longer
    MaxLosses,    \* bound on how often Redis loses its keys
    MaxStops,     \* bound on requests that stop and statements that fail
    Horizon       \* bound on the clock

ASSUME LockoutAssumption ==
    /\ IsFiniteSet(Requests)
    /\ MaxFailed \in Nat /\ MaxFailed > 1    \* with one, no counter is ever shared
    /\ Duration \in Nat \ {0}
    /\ RequestTime \in 0..(Duration - 1)
    /\ MaxLosses \in Nat
    /\ MaxStops \in Nat
    /\ Horizon \in Nat

VARIABLES
    now,
    up,        \* Redis answers
    counter,   \* the key admin:2fa_attempts
    flag,      \* when the key admin:lockout expires, 0 if there is none
    row,       \* the row of admin_lockouts
    there,     \* whether there is such a row
    req,       \* what each request does next
    failed,    \* when attempts failed since the last success, in order
    outage,    \* Redis has failed to answer at some time
    losses,    \* how often Redis has lost its keys
    stopped    \* how many requests have stopped on their way, or statements failed

faults == <<outage, losses, stopped>>
table == <<row, there>>
lockoutVars == <<now, up, counter, flag, table, req, failed, faults>>

\* Without EXPIRE a key does not expire.
Forever == Horizon + Duration + 1

\* No row reads like one that has counted nothing.
Zero == [n |-> 0, until |-> 0]

\* Numbers from MaxFailed on are not told apart.
Count == [n : 0..MaxFailed, until : Nat]

OneMore(n) == IF n < MaxFailed THEN n + 1 ELSE n

\* count is what INCR returned.
LockoutSteps == {"idle", "checkPG", "compare", "expire", "upsert", "setFlag",
                 "persist", "clearCounter", "clearFlag", "clearRow"}
Idle    == [at |-> "idle", since |-> 0, count |-> 0]
Request == [at : LockoutSteps, since : Nat, count : 0..MaxFailed]

At(r, step) == req[r].at = step
Go(r, step) == req' = [req EXCEPT ![r].at = step]
End(r)      == req' = [req EXCEPT ![r] = Idle]

Reached(n) == n >= MaxFailed

-----------------------------------------------------------------------------
LockoutInit ==
    /\ now = 0
    /\ up = TRUE
    /\ counter = Zero
    /\ flag = 0
    /\ row = Zero
    /\ there = FALSE
    /\ req = [r \in Requests |-> Idle]
    /\ failed = <<>>
    /\ outage = FALSE
    /\ losses = 0
    /\ stopped = 0

\* Time passes, and Redis drops the keys whose time is over.
Tick ==
    /\ now < Horizon
    /\ \A r \in Requests : ~At(r, "idle") => now < req[r].since + RequestTime
    /\ now' = now + 1
    /\ counter' = IF counter.until > now + 1 THEN counter ELSE Zero
    /\ flag' = IF flag > now + 1 THEN flag ELSE 0
    /\ UNCHANGED <<up, table, req, failed, faults>>

\* checkLockout: a flag that Redis returns rejects the request at once.
CheckRedis(r) ==
    /\ At(r, "idle")
    /\ ~(up /\ flag # 0)
    /\ req' = [req EXCEPT ![r] = [at |-> "checkPG", since |-> now, count |-> 0]]
    /\ UNCHANGED <<now, up, counter, flag, table, failed, faults>>

\* Mutant of RowLocked: PostgreSQL is not asked.
RowNotAsked == FALSE

\* locked_until > NOW().  A row without a time cannot be read into the result;
\* the error is logged and the request goes on.
RowLocked == row.until > now

CheckPG(r) ==
    /\ At(r, "checkPG")
    /\ IF RowLocked THEN End(r) ELSE Go(r, "compare")
    /\ UNCHANGED <<now, up, counter, flag, table, failed, faults>>

\* A statement fails, or a request stops.
Failing ==
    /\ stopped < MaxStops
    /\ stopped' = stopped + 1
    /\ UNCHANGED <<outage, losses>>

\* Every caller of checkLockout lets the request go on when it fails.
CheckPGFails(r) ==
    /\ At(r, "checkPG")
    /\ Go(r, "compare")
    /\ Failing
    /\ UNCHANGED <<now, up, counter, flag, table, failed>>

\* What was given is right, but for an account that may not log in; or there is
\* no second factor at all.
Refuse(r) ==
    /\ At(r, "compare")
    /\ End(r)
    /\ UNCHANGED <<now, up, counter, flag, table, failed, faults>>

\* recordFailedAttempt: INCR, which makes a key without a time of expiry.
CountFailure(r) ==
    LET n == OneMore(counter.n)
    IN  /\ counter' = [n |-> n, until |-> IF n = 1 THEN Forever ELSE counter.until]
        /\ req' = [req EXCEPT ![r].count = n,
                              ![r].at = IF n = 1 THEN "expire" ELSE "upsert"]
        /\ UNCHANGED table

\* INSERT ... ON CONFLICT DO UPDATE.
UpsertRow ==
    /\ row' = [row EXCEPT !.n = OneMore(row.n)]
    /\ there' = TRUE

\* recordFailedAttemptPG, when Redis does not answer.
CountFailurePG(r) ==
    /\ UpsertRow
    /\ IF Reached(OneMore(row.n)) THEN Go(r, "persist") ELSE End(r)
    /\ UNCHANGED counter

RecordFailedAttempt(r) ==
    /\ At(r, "compare")
    /\ IF up THEN CountFailure(r) ELSE CountFailurePG(r)
    /\ failed' = Append(failed, now)
    /\ UNCHANGED <<now, up, flag, faults>>

\* Redis does not answer, and recordFailedAttemptPG fails: nobody counts.
RecordFails(r) ==
    /\ At(r, "compare")
    /\ ~up
    /\ End(r)
    /\ failed' = Append(failed, now)
    /\ Failing
    /\ UNCHANGED <<now, up, counter, flag, table>>

\* EXPIRE, on a key that may be gone by now; an error is only logged.
Expire(r) ==
    /\ At(r, "expire")
    /\ counter' = IF up /\ counter.n > 0
                    THEN [counter EXCEPT !.until = now + Duration] ELSE counter
    /\ Go(r, "upsert")
    /\ UNCHANGED <<now, up, flag, table, failed, faults>>

AfterUpsert(r) == IF Reached(req[r].count) THEN Go(r, "setFlag") ELSE End(r)

Upsert(r) ==
    /\ At(r, "upsert")
    /\ UpsertRow
    /\ AfterUpsert(r)
    /\ UNCHANGED <<now, up, counter, flag, failed, faults>>

\* The error is logged, and what INCR returned still decides.
UpsertFails(r) ==
    /\ At(r, "upsert")
    /\ AfterUpsert(r)
    /\ Failing
    /\ UNCHANGED <<now, up, counter, flag, table, failed>>

\* Mutant of LockUntil: a lock that is there is made longer.
LockLonger(until) == (IF until > now THEN until ELSE now) + Duration

\* When a lock set now ends, whatever the one before.
LockUntil(until) == now + Duration

\* The result of SET is not looked at.
SetFlag(r) ==
    /\ At(r, "setFlag")
    /\ flag' = IF up THEN LockUntil(flag) ELSE flag
    /\ Go(r, "persist")
    /\ UNCHANGED <<now, up, counter, table, failed, faults>>

\* The lock goes to the row as well, if there is one.
Persist(r) ==
    /\ At(r, "persist")
    /\ row' = IF there THEN [row EXCEPT !.until = LockUntil(row.until)] ELSE row
    /\ End(r)
    /\ UNCHANGED <<now, up, counter, flag, there, failed, faults>>

\* resetAttempts: three calls, none of whose results is looked at.
Succeed(r) ==
    /\ At(r, "compare")
    /\ Go(r, "clearCounter")
    /\ UNCHANGED <<now, up, counter, flag, table, failed, faults>>

ClearCounter(r) ==
    /\ At(r, "clearCounter")
    /\ counter' = IF up THEN Zero ELSE counter
    /\ Go(r, "clearFlag")
    /\ failed' = <<>>
    /\ UNCHANGED <<now, up, flag, table, faults>>

ClearFlag(r) ==
    /\ At(r, "clearFlag")
    /\ flag' = IF up THEN 0 ELSE flag
    /\ Go(r, "clearRow")
    /\ failed' = <<>>
    /\ UNCHANGED <<now, up, counter, table, faults>>

ClearRow(r) ==
    /\ At(r, "clearRow")
    /\ row' = Zero
    /\ End(r)
    /\ failed' = <<>>
    /\ UNCHANGED <<now, up, counter, flag, there, faults>>

\* The process stops, or the request's context ends, between two calls; or the
\* UPDATE of persist or of clearRow fails, after which nothing is left to do.
Stop(r) ==
    /\ ~At(r, "idle")
    /\ End(r)
    /\ Failing
    /\ UNCHANGED <<now, up, counter, flag, table, failed>>

\* Redis stops answering with its keys in place, or answers again.
Unreachable ==
    /\ up
    /\ up' = FALSE
    /\ outage' = TRUE
    /\ UNCHANGED <<now, counter, flag, table, req, failed, losses, stopped>>

Reachable ==
    /\ ~up
    /\ up' = TRUE
    /\ UNCHANGED <<now, counter, flag, table, req, failed, faults>>

\* Redis restarts empty.
LoseKeys ==
    /\ losses < MaxLosses
    /\ counter' = Zero
    /\ flag' = 0
    /\ losses' = losses + 1
    /\ UNCHANGED <<now, up, table, req, failed, outage, stopped>>

LockoutNext ==
    \/ Tick
    \/ \E r \in Requests :
          \/ CheckRedis(r) \/ CheckPG(r) \/ CheckPGFails(r) \/ Refuse(r) \/ Stop(r)
          \/ RecordFailedAttempt(r) \/ RecordFails(r) \/ Expire(r)
          \/ Upsert(r) \/ UpsertFails(r) \/ SetFlag(r) \/ Persist(r)
          \/ Succeed(r) \/ ClearCounter(r) \/ ClearFlag(r) \/ ClearRow(r)
    \/ Unreachable \/ Reachable \/ LoseKeys

LockoutSpec == LockoutInit /\ [][LockoutNext]_lockoutVars

-----------------------------------------------------------------------------
\* Every variable has its type.
LockoutTypeOK ==
    /\ now \in 0..Horizon
    /\ up \in BOOLEAN
    /\ counter \in Count
    /\ flag \in Nat
    /\ row \in Count
    /\ there \in BOOLEAN
    /\ req \in [Requests -> Request]
    /\ failed \in Seq(0..Horizon)
    /\ outage \in BOOLEAN
    /\ losses \in 0..MaxLosses
    /\ stopped \in 0..MaxStops

\* No lock lasts longer than lockoutDuration from now, whichever requests set it
\* together and in whatever order; only a counter that missed its EXPIRE stays.
LocksEnd ==
    /\ LockoutTypeOK
    /\ flag <= now + Duration
    /\ row.until <= now + Duration
    /\ counter.until <= now + Duration \/ counter.until = Forever
    /\ \A r \in Requests : ~At(r, "idle") => now - req[r].since \in 0..RequestTime

\* The failures of one account within lockoutDuration, with no success between.
FailedIn(t) == {i \in DOMAIN failed : t <= failed[i] /\ failed[i] < t + Duration}

\* Two windows of the counter may share them, and requests that had passed the
\* check run to their end.  An outage lets PostgreSQL count from its own
\* number, a loss of the keys starts the counter anew, and a request that stops
\* or whose statement fails may not have locked, or has passed a lock.
Allowed ==
    2 * MaxFailed - 3 + Cardinality(Requests)
    + (losses + (IF outage THEN 1 ELSE 0)) * (MaxFailed - 1) + stopped

FailuresBounded == \A t \in 0..Horizon : Cardinality(FailedIn(t)) <= Allowed

=============================================================================
