------------------------------- MODULE Sessions -------------------------------
(***************************************************************************)
(* Which tokens the service accepts: Login and Logout                      *)
(* (internal/auth/handler.go), the tokens of internal/auth/jwt.go, the     *)
(* two kinds of Redis keys of internal/auth/blacklist.go, the check of     *)
(* every request in internal/middleware/auth.go, and the revocation that   *)
(* follows a change of status (UpdateUserStatus in                         *)
(* internal/admin/service.go).                                             *)
(*                                                                         *)
(* Time is in seconds, as iat and exp are.  A login reads the status and   *)
(* signs its tokens later (the password is compared in between).  After    *)
(* the new status has committed the time of the revocation is taken, and   *)
(* then written to Redis if Redis answers.  Each of these is a step of its *)
(* own.  What a request is let through with is said for a Redis that       *)
(* answers; with one that does not, AuthMiddleware looks at the token      *)
(* only.                                                                   *)
(***************************************************************************)
EXTENDS Integers

CONSTANTS
    Users,
    Logins,      \* login requests, each of which makes one pair of tokens
    AccessTTL,   \* AccessTokenTTL
    RefreshTTL,  \* RefreshTokenTTL
    LoginTime,   \* a login signs at most so long after it read the status
    Changes,     \* changes of status under way at one time
    Inactive,    \* the values of users.status other than ACTIVE
    Horizon,     \* bound on the clock
    None

ASSUME TimesAssumption ==
    /\ AccessTTL \in Nat \ {0}
    /\ RefreshTTL \in Nat
    /\ AccessTTL <= RefreshTTL
    /\ LoginTime \in Nat
    /\ Horizon \in Nat
    /\ "ACTIVE" \notin Inactive
    /\ None \notin Users

VARIABLES
    now,
    status,    \* users.status
    reading,   \* the logins that have read the status: who, and when
    pair,      \* the pair of tokens a login made: whose, when read, iat
    blacklist, \* the keys blacklist:jti, by the time each expires; 0 is none
    cutoff,    \* the keys user_revoke_before: the cutoff and the time of expiry
    change,    \* changes of status that have committed and not yet revoked:
               \* whose, and the cutoff they will write, 0 until it is taken
    leftAt,    \* when a user last ceased to be ACTIVE
    missed,    \* the users whose revocation Redis did not take
    setBack,   \* the users whose cutoff was replaced by an earlier one
    lost       \* Redis has lost its keys at some time

redis == <<blacklist, cutoff>>
login == <<reading, pair>>
users == <<status, leftAt>>
faults == <<missed, setBack, lost>>
vars == <<now, users, login, redis, change, faults>>

Statuses == {"ACTIVE"} \cup Inactive
Kinds    == {"access", "refresh"}
Tokens   == Logins \X Kinds

NoPair  == [who |-> None, read |-> 0, iat |-> 0]
Pair    == [who : Users \cup {None}, read : Nat, iat : Nat]
NoRead  == [who |-> None, at |-> 0]
Reading == [who : Users \cup {None}, at : Nat]
Cutoff  == [before : Nat, until : Nat]
NoKey   == [before |-> 0, until |-> 0]
Change  == [who : Users \cup {None}, before : Nat]
NoChange == [who |-> None, before |-> 0]

Issued(k) == pair[k[1]] # NoPair
Owner(k)  == pair[k[1]].who
Iat(k)    == pair[k[1]].iat
Exp(k)    == Iat(k) + (IF k[2] = "access" THEN AccessTTL ELSE RefreshTTL)

\* A key with a TTL is there until it expires.
Present(until) == now < until

Blacklisted(k) == Present(blacklist[k])

\* IsUserRevoked: the token was issued before the cutoff.
Revoked(k) == Present(cutoff[Owner(k)].until) /\ Iat(k) < cutoff[Owner(k)].before

\* AuthMiddleware lets a request with this token pass.
Accepted(k) == Issued(k) /\ now < Exp(k) /\ ~Blacklisted(k) /\ ~Revoked(k)

-----------------------------------------------------------------------------
Init ==
    /\ now = 0
    /\ status = [u \in Users |-> "ACTIVE"]
    /\ reading = [r \in Logins |-> NoRead]
    /\ pair = [r \in Logins |-> NoPair]
    /\ blacklist = [k \in Tokens |-> 0]
    /\ cutoff = [u \in Users |-> NoKey]
    /\ change = [q \in Changes |-> NoChange]
    /\ leftAt = [u \in Users |-> 0]
    /\ missed = {}
    /\ setBack = {}
    /\ lost = FALSE

\* A login does not stay between its two steps for longer than LoginTime.
Tick ==
    /\ now < Horizon
    /\ \A r \in Logins : reading[r] # NoRead => now < reading[r].at + LoginTime
    /\ now' = now + 1
    /\ UNCHANGED <<users, login, redis, change, faults>>

MayLogin(u) == status[u] = "ACTIVE"

\* The row is read and its status compared.
LoginRead(r, u) ==
    /\ reading[r] = NoRead /\ pair[r] = NoPair
    /\ MayLogin(u)
    /\ reading' = [reading EXCEPT ![r] = [who |-> u, at |-> now]]
    /\ UNCHANGED <<now, users, pair, redis, change, faults>>

\* The password was right: GenerateToken signs both tokens at this time.
LoginIssue(r) ==
    /\ reading[r] # NoRead
    /\ pair' = [pair EXCEPT ![r] =
                   [who |-> reading[r].who, read |-> reading[r].at, iat |-> now]]
    /\ reading' = [reading EXCEPT ![r] = NoRead]
    /\ UNCHANGED <<now, users, redis, change, faults>>

\* The password was wrong, or the request went away.
LoginFail(r) ==
    /\ reading[r] # NoRead
    /\ reading' = [reading EXCEPT ![r] = NoRead]
    /\ UNCHANGED <<now, users, pair, redis, change, faults>>

\* Add: the TTL is what is left of the token's life.
BlacklistUntil(k) == Exp(k)

\* A request with the token passes and ends that token, not its pair's other one.
Logout(k) ==
    /\ Accepted(k)
    /\ blacklist' = [blacklist EXCEPT ![k] = BlacklistUntil(k)]
    /\ UNCHANGED <<now, users, login, cutoff, change, faults>>

\* UpdateUserStatus up to the commit; freeze, suspend and ban.
Leave(q, u, new) ==
    /\ change[q] = NoChange
    /\ status' = [status EXCEPT ![u] = new]
    /\ leftAt' = [leftAt EXCEPT ![u] = IF status[u] = "ACTIVE" THEN now ELSE leftAt[u]]
    /\ change' = [change EXCEPT ![q] = [who |-> u, before |-> 0]]
    /\ UNCHANGED <<now, login, redis, faults>>

\* Mutant of NextSecond: the cutoff has no second of grace.
ThisSecond(at) == at

NextSecond(at) == at + 1

\* After the commit: time.Now().Add(time.Second).
TakeCutoff(q) ==
    /\ change[q] # NoChange
    /\ change[q].before = 0
    /\ change' = [change EXCEPT ![q].before = NextSecond(now)]
    /\ UNCHANGED <<now, users, login, redis, faults>>

\* Mutant of RevokeKey: the key lives as long as an access token.
RevokeKeyShort(before, at) == [before |-> before, until |-> at + AccessTTL]

\* The key RevokeUserBefore writes, whose TTL starts with the SET.
RevokeKey(before, at) == [before |-> before, until |-> at + RefreshTTL]

\* SET replaces the cutoff that is there, a later one too.
Revoke(q) ==
    /\ change[q].before # 0
    /\ LET u == change[q].who
       IN  /\ cutoff' = [cutoff EXCEPT ![u] = RevokeKey(change[q].before, now)]
           /\ setBack' = IF change[q].before < cutoff[u].before
                         THEN setBack \cup {u} ELSE setBack
    /\ change' = [change EXCEPT ![q] = NoChange]
    /\ UNCHANGED <<now, users, login, blacklist, missed, lost>>

\* Redis does not answer, or the process stops: the status stays as it is.
RevokeFails(q) ==
    /\ change[q] # NoChange
    /\ change' = [change EXCEPT ![q] = NoChange]
    /\ missed' = missed \cup {change[q].who}
    /\ UNCHANGED <<now, users, login, redis, setBack, lost>>

\* unfreeze: nothing is written to Redis.
Unfreeze(u) ==
    /\ status' = [status EXCEPT ![u] = "ACTIVE"]
    /\ UNCHANGED <<now, leftAt, login, redis, change, faults>>

\* Redis restarts empty.
LoseKeys ==
    /\ blacklist' = [k \in Tokens |-> 0]
    /\ cutoff' = [u \in Users |-> NoKey]
    /\ lost' = TRUE
    /\ UNCHANGED <<now, users, login, change, missed, setBack>>

Next ==
    \/ Tick
    \/ \E r \in Logins, u \in Users : LoginRead(r, u)
    \/ \E r \in Logins : LoginIssue(r) \/ LoginFail(r)
    \/ \E k \in Tokens : Logout(k)
    \/ \E q \in Changes, u \in Users, new \in Inactive : Leave(q, u, new)
    \/ \E q \in Changes : TakeCutoff(q) \/ Revoke(q) \/ RevokeFails(q)
    \/ \E u \in Users : Unfreeze(u)
    \/ LoseKeys

Spec == Init /\ [][Next]_vars

-----------------------------------------------------------------------------
\* Every variable has its type.
TypeOK ==
    /\ now \in Nat
    /\ status \in [Users -> Statuses]
    /\ reading \in [Logins -> Reading]
    /\ pair \in [Logins -> Pair]
    /\ blacklist \in [Tokens -> Nat]
    /\ cutoff \in [Users -> Cutoff]
    /\ change \in [Changes -> Change]
    /\ leftAt \in [Users -> Nat]
    /\ missed \subseteq Users
    /\ setBack \subseteq Users
    /\ lost \in BOOLEAN

\* A login in progress has made no tokens and read the status no longer ago than
\* LoginTime, before its user ceased to be ACTIVE if it did.
LoginsOK ==
    \A r \in Logins : reading[r] # NoRead =>
        /\ pair[r] = NoPair
        /\ reading[r].who \in Users
        /\ reading[r].at <= now
        /\ now <= reading[r].at + LoginTime
        /\ status[reading[r].who] # "ACTIVE" => reading[r].at <= leftAt[reading[r].who]

\* The same holds for the login that made a pair of tokens.
PairsOK ==
    \A r \in Logins : pair[r] # NoPair =>
        /\ pair[r].who \in Users
        /\ pair[r].read <= pair[r].iat
        /\ pair[r].iat <= now
        /\ pair[r].iat <= pair[r].read + LoginTime
        /\ status[pair[r].who] # "ACTIVE" => pair[r].read <= leftAt[pair[r].who]

\* A key on the blacklist lives as long as its token.
BlacklistOK ==
    \A k \in Tokens : blacklist[k] # 0 => Issued(k) /\ blacklist[k] = Exp(k)

\* A cutoff is no later than the next second, and its key outlives all tokens
\* issued before it.
CutoffsOK ==
    \A u \in Users : cutoff[u] # NoKey =>
        /\ cutoff[u].before <= now + 1
        /\ cutoff[u].before + RefreshTTL <= cutoff[u].until + 1

\* A change that is to revoke has a user, and a cutoff no later than the next
\* second.
ChangesOK ==
    \A q \in Changes : change[q] # NoChange =>
        /\ change[q].who \in Users
        /\ change[q].before <= now + 1

\* Nothing went wrong with the revocation of this user's tokens.
Sound(u) == status[u] # "ACTIVE" /\ u \notin missed \cup setBack /\ ~lost

\* It is over as well.
Out(u) == Sound(u) /\ \A q \in Changes : change[q].who # u

\* The cutoff is later than the change of status, or some change is to write
\* one that is.
OutOK ==
    \A u \in Users :
        /\ leftAt[u] <= now
        /\ Sound(u) =>
              \/ cutoff[u].before > leftAt[u]
              \/ \E q \in Changes :
                    /\ change[q].who = u
                    /\ change[q].before = 0 \/ change[q].before > leftAt[u]

\* The inductive invariant.
IndInv ==
    TypeOK /\ LoginsOK /\ PairsOK /\ BlacklistOK /\ CutoffsOK /\ ChangesOK /\ OutOK

\* When the user of a token is out, the token is only accepted if its login read
\* the status before the change and signed after the revocation, and not for
\* longer than such a login and a refresh token can last: a revocation misses
\* nothing else.
OnlyLateLoginsRemain ==
    \A k \in Tokens : Accepted(k) /\ Out(Owner(k)) =>
        /\ pair[k[1]].read <= leftAt[Owner(k)]
        /\ leftAt[Owner(k)] < Iat(k)
        /\ now < leftAt[Owner(k)] + LoginTime + RefreshTTL

\* A token that is not accepted is never accepted again, across expiring keys,
\* repeated suspensions and reinstatements whose revocations overlap, unless
\* Redis loses its keys or a slow revocation sets its user's cutoff back.
RejectedStaysRejected ==
    [][\A k \in Tokens :
          Issued(k) /\ ~Accepted(k) /\ ~lost' /\ Owner(k) \notin setBack'
              => ~Accepted(k)']_vars

\* No token of a user who is out is accepted.  The comment in UpdateUserStatus
\* says that the second of grace closes the race with a login.
OutIsOut == \A k \in Tokens : Accepted(k) => ~Out(Owner(k))

=============================================================================
