---------------------------- MODULE Sessions_proofs ----------------------------
(***************************************************************************)
(* The inductive invariant of the tokens, what a revocation can miss, and  *)
(* that a token once rejected stays rejected, for all users, logins and    *)
(* times.                                                                  *)
(***************************************************************************)
EXTENDS Sessions, TLAPS

\* What every action is shown to do.
Kept ==
    \A k \in Tokens :
        Issued(k) /\ ~Accepted(k) /\ ~lost' /\ Owner(k) \notin setBack' => ~Accepted(k)'

Good == IndInv' /\ Kept

LEMMA InitIndInv == Init => IndInv
<1> SUFFICES ASSUME Init PROVE IndInv
    OBVIOUS
<1>1. TypeOK
    BY TimesAssumption DEF Init, TypeOK, Statuses, Reading, NoRead, Pair, NoPair, Cutoff, NoKey, Change, NoChange
<1>2. LoginsOK /\ PairsOK /\ BlacklistOK /\ CutoffsOK /\ ChangesOK
    BY DEF Init, LoginsOK, PairsOK, BlacklistOK, CutoffsOK, ChangesOK
<1>3. OutOK
  <2> SUFFICES ASSUME NEW u \in Users PROVE leftAt[u] <= now /\ ~Sound(u)
    BY DEF OutOK
  <2>1. status[u] = "ACTIVE"
    BY DEF Init
  <2>2. leftAt[u] = 0 /\ now = 0
    BY DEF Init
  <2> QED
    BY <2>1, <2>2 DEF Sound
<1> QED
    BY <1>1, <1>2, <1>3 DEF IndInv

\* The life of a token that was issued.
LEMMA TokenOK ==
    ASSUME IndInv, NEW k \in Tokens, Issued(k)
    PROVE  /\ k[1] \in Logins
           /\ Owner(k) \in Users
           /\ Iat(k) \in Nat
           /\ Exp(k) \in Nat
           /\ Iat(k) < Exp(k)
           /\ Exp(k) <= Iat(k) + RefreshTTL
           /\ Iat(k) <= now
<1>1. k[1] \in Logins
    BY DEF Tokens
<1>2. pair[k[1]] \in Pair /\ pair[k[1]] # NoPair
    BY <1>1 DEF IndInv, TypeOK, Issued
<1>3. Owner(k) \in Users /\ Iat(k) \in Nat /\ Iat(k) <= now
    BY <1>1, <1>2 DEF IndInv, PairsOK, Owner, Iat, Pair
<1>4. /\ AccessTTL \in Nat \ {0} /\ RefreshTTL \in Nat
      /\ AccessTTL <= RefreshTTL
    BY TimesAssumption
<1> QED
    BY <1>1, <1>3, <1>4 DEF Exp

\* A step that issues nothing, ends nothing and writes no cutoff.
LEMMA SameKeys ==
    ASSUME IndInv, UNCHANGED <<pair, redis>>, now' \in Nat, now' >= now
    PROVE  Kept
<1> SUFFICES ASSUME NEW k \in Tokens, Issued(k), ~Accepted(k) PROVE ~Accepted(k)'
    BY DEF Kept
<1>1. /\ Issued(k)' /\ Owner(k)' = Owner(k) /\ Iat(k)' = Iat(k) /\ Exp(k)' = Exp(k)
      /\ blacklist'[k] = blacklist[k] /\ cutoff' = cutoff
    BY DEF Issued, Owner, Iat, Exp, redis
<1>2. now \in Nat /\ blacklist[k] \in Nat
    BY DEF IndInv, TypeOK
<1>3. CASE now >= Exp(k)
    BY <1>1, <1>2, <1>3, TokenOK DEF Accepted
<1>4. CASE Blacklisted(k)
  <2>1. blacklist[k] = Exp(k)
    BY <1>2, <1>4 DEF IndInv, BlacklistOK, Blacklisted, Present
  <2> QED
    BY <1>1, <1>2, <2>1, TokenOK DEF Accepted, Blacklisted, Present
<1>5. CASE Revoked(k)
  <2> DEFINE c == cutoff[Owner(k)]
  <2>1. c \in Cutoff /\ c # NoKey
    BY <1>2, <1>5, TokenOK DEF Revoked, Present, IndInv, TypeOK, NoKey
  <2>2. c.before + RefreshTTL <= c.until + 1 /\ Iat(k) < c.before
    BY <1>5, <2>1, TokenOK DEF Revoked, IndInv, CutoffsOK
  <2>3. c.until \in Nat /\ c.before \in Nat /\ RefreshTTL \in Nat
    BY <2>1, TimesAssumption DEF Cutoff
  <2>4. Exp(k) <= c.until
    BY <2>2, <2>3, TokenOK
  <2>5. cutoff'[Owner(k)'] = c
    BY <1>1
  <2>6. Revoked(k)' <=> now' < c.until /\ Iat(k) < c.before
    BY <1>1, <2>5 DEF Revoked, Present
  <2>7. now' < c.until \/ now' >= Exp(k)
    BY <2>3, <2>4, TokenOK
  <2> QED
    BY <1>1, <2>2, <2>6, <2>7, TokenOK DEF Accepted
<1> QED
    BY <1>2, <1>3, <1>4, <1>5, TokenOK DEF Accepted

-----------------------------------------------------------------------------
(* One lemma per action *)

\* Sets and constants that most steps need.
LEMMA Types ==
    ASSUME IndInv
    PROVE  /\ now \in Nat
           /\ LoginTime \in Nat /\ RefreshTTL \in Nat \ {0}
           /\ \A u \in Users : leftAt[u] \in Nat /\ leftAt[u] <= now
           /\ \A r \in Logins : reading[r] \in Reading /\ pair[r] \in Pair
           /\ \A u \in Users : cutoff[u] \in Cutoff
           /\ \A q \in Changes : change[q] \in Change
BY TimesAssumption DEF IndInv, TypeOK, OutOK

LEMMA TickGood == IndInv /\ Tick => Good
<1> SUFFICES ASSUME IndInv, Tick PROVE Good
    OBVIOUS
<1>1. /\ now' = now + 1
      /\ UNCHANGED <<status, leftAt, reading, pair, blacklist, cutoff, change, missed, setBack, lost>>
    BY DEF Tick, users, login, redis, faults
<1>2. now \in Nat
    BY Types
<1>3. TypeOK'
    BY <1>1, <1>2 DEF IndInv, TypeOK
<1>4. LoginsOK'
  <2> SUFFICES ASSUME NEW r \in Logins, reading[r] # NoRead
               PROVE  now + 1 <= reading[r].at + LoginTime
    BY <1>1, Types DEF IndInv, LoginsOK, Reading
  <2>1. now < reading[r].at + LoginTime
    BY DEF Tick
  <2> QED
    BY <1>2, <2>1, Types DEF Reading
<1>5. PairsOK'
    BY <1>1, Types DEF IndInv, PairsOK, Pair
<1>6. BlacklistOK'
    BY <1>1 DEF IndInv, BlacklistOK, Issued, Exp, Iat
<1>7. CutoffsOK'
    BY <1>1, Types DEF IndInv, CutoffsOK, Cutoff
<1>8. OutOK' /\ ChangesOK'
    BY <1>1, Types DEF IndInv, OutOK, Sound, ChangesOK, Change
<1>9. Kept
  <2>1. UNCHANGED <<pair, redis>> /\ now' \in Nat /\ now' >= now
    BY <1>1, <1>2 DEF redis
  <2> QED
    BY <2>1, SameKeys
<1> QED
    BY <1>3, <1>4, <1>5, <1>6, <1>7, <1>8, <1>9 DEF Good, IndInv

\* A login that starts or is given up.
LEMMA LoginReadGood ==
    ASSUME IndInv, NEW r \in Logins, NEW u \in Users, LoginRead(r, u)
    PROVE  Good
<1>1. /\ reading' = [reading EXCEPT ![r] = [who |-> u, at |-> now]]
      /\ pair[r] = NoPair
      /\ status[u] = "ACTIVE"
      /\ UNCHANGED <<now, status, leftAt, pair, blacklist, cutoff, change, missed, setBack, lost>>
    BY DEF LoginRead, MayLogin, users, redis, faults
<1>2. TypeOK'
    BY <1>1, Types DEF IndInv, TypeOK, Reading
<1>3. LoginsOK'
  <2> SUFFICES ASSUME NEW s \in Logins, reading'[s] # NoRead
               PROVE  /\ pair[s] = NoPair
                      /\ reading'[s].who \in Users
                      /\ reading'[s].at <= now
                      /\ now <= reading'[s].at + LoginTime
                      /\ status[reading'[s].who] # "ACTIVE" =>
                            reading'[s].at <= leftAt[reading'[s].who]
    BY <1>1 DEF LoginsOK
  <2>1. reading \in [Logins -> Reading]
    BY DEF IndInv, TypeOK
  <2>2. CASE s = r
    BY <1>1, <2>1, <2>2, Types
  <2>3. CASE s # r
    BY <1>1, <2>1, <2>3 DEF IndInv, LoginsOK
  <2> QED
    BY <2>2, <2>3
<1>4. PairsOK' /\ BlacklistOK' /\ CutoffsOK' /\ ChangesOK' /\ OutOK'
    BY <1>1 DEF IndInv, PairsOK, BlacklistOK, Issued, Exp, Iat, CutoffsOK, ChangesOK,
                OutOK, Sound
<1>5. Kept
    BY <1>1, Types, SameKeys DEF redis
<1> QED
    BY <1>2, <1>3, <1>4, <1>5 DEF Good, IndInv

LEMMA LoginFailGood ==
    ASSUME IndInv, NEW r \in Logins, LoginFail(r)
    PROVE  Good
<1>1. /\ reading' = [reading EXCEPT ![r] = NoRead]
      /\ UNCHANGED <<now, status, leftAt, pair, blacklist, cutoff, change, missed, setBack, lost>>
    BY DEF LoginFail, users, redis, faults
<1>2. NoRead \in Reading
    BY DEF NoRead, Reading
<1>3. TypeOK'
    BY <1>1, <1>2 DEF IndInv, TypeOK
<1>4. LoginsOK'
  <2>1. \A s \in Logins : reading'[s] = reading[s] \/ reading'[s] = NoRead
    BY <1>1 DEF IndInv, TypeOK
  <2> QED
    BY <1>1, <2>1 DEF IndInv, LoginsOK
<1>5. PairsOK' /\ BlacklistOK' /\ CutoffsOK' /\ ChangesOK' /\ OutOK'
    BY <1>1 DEF IndInv, PairsOK, BlacklistOK, Issued, Exp, Iat, CutoffsOK, ChangesOK,
                OutOK, Sound
<1>6. Kept
    BY <1>1, Types, SameKeys DEF redis
<1> QED
    BY <1>3, <1>4, <1>5, <1>6 DEF Good, IndInv

\* The tokens of other logins stay as they were.
LEMMA LoginIssueGood ==
    ASSUME IndInv, NEW r \in Logins, LoginIssue(r)
    PROVE  Good
<1> DEFINE new == [who |-> reading[r].who, read |-> reading[r].at, iat |-> now]
<1>1. /\ reading[r] # NoRead
      /\ pair' = [pair EXCEPT ![r] = new]
      /\ reading' = [reading EXCEPT ![r] = NoRead]
      /\ UNCHANGED <<now, status, leftAt, blacklist, cutoff, change, missed, setBack, lost>>
    BY DEF LoginIssue, users, redis, faults
<1>2. /\ pair[r] = NoPair
      /\ reading[r].who \in Users /\ reading[r].at \in Nat
      /\ reading[r].at <= now /\ now <= reading[r].at + LoginTime
      /\ status[reading[r].who] # "ACTIVE" => reading[r].at <= leftAt[reading[r].who]
    BY <1>1, Types DEF IndInv, LoginsOK, Reading
<1>3. new \in Pair /\ new # NoPair /\ NoRead \in Reading
    BY <1>2, Types, TimesAssumption DEF Pair, NoPair, NoRead, Reading
<1>4. pair \in [Logins -> Pair] /\ reading \in [Logins -> Reading]
    BY DEF IndInv, TypeOK
<1>5. \A s \in Logins : /\ s # r => pair'[s] = pair[s] /\ reading'[s] = reading[s]
                        /\ s = r => pair'[s] = new /\ reading'[s] = NoRead
    BY <1>1, <1>4
<1>6. TypeOK'
    BY <1>1, <1>3 DEF IndInv, TypeOK
<1>7. LoginsOK'
    BY <1>1, <1>5 DEF IndInv, LoginsOK
<1>8. PairsOK'
  <2> SUFFICES ASSUME NEW s \in Logins, pair'[s] # NoPair
               PROVE  /\ pair'[s].who \in Users
                      /\ pair'[s].read <= pair'[s].iat
                      /\ pair'[s].iat <= now
                      /\ pair'[s].iat <= pair'[s].read + LoginTime
                      /\ status[pair'[s].who] # "ACTIVE" =>
                            pair'[s].read <= leftAt[pair'[s].who]
    BY <1>1 DEF PairsOK
  <2>1. CASE s = r
    BY <1>2, <1>5, <2>1, Types
  <2>2. CASE s # r
    BY <1>5, <2>2 DEF IndInv, PairsOK
  <2> QED
    BY <2>1, <2>2
<1>9. \A k \in Tokens : Issued(k) => pair'[k[1]] = pair[k[1]]
    BY <1>2, <1>5 DEF Tokens, Issued
<1>10. \A k \in Tokens : Issued(k) =>
          /\ Issued(k)' /\ Owner(k)' = Owner(k) /\ Iat(k)' = Iat(k) /\ Exp(k)' = Exp(k)
    BY <1>9 DEF Issued, Owner, Iat, Exp
<1>11. BlacklistOK'
    BY <1>1, <1>10 DEF IndInv, BlacklistOK
<1>12. CutoffsOK' /\ ChangesOK' /\ OutOK'
    BY <1>1 DEF IndInv, CutoffsOK, ChangesOK, OutOK, Sound
<1>13. Kept
    BY <1>1, <1>10 DEF Kept, Accepted, Blacklisted, Revoked, Present
<1> QED
    BY <1>6, <1>7, <1>8, <1>11, <1>12, <1>13 DEF Good, IndInv

LEMMA LogoutGood ==
    ASSUME IndInv, NEW k \in Tokens, Logout(k)
    PROVE  Good
<1>1. /\ Accepted(k)
      /\ blacklist' = [blacklist EXCEPT ![k] = Exp(k)]
      /\ UNCHANGED <<now, status, leftAt, reading, pair, cutoff, change, missed, setBack, lost>>
    BY DEF Logout, BlacklistUntil, users, login, faults
<1>2. Issued(k) /\ Exp(k) \in Nat
    BY <1>1, TokenOK DEF Accepted
<1>3. TypeOK'
    BY <1>1, <1>2 DEF IndInv, TypeOK
<1>4. LoginsOK' /\ PairsOK' /\ CutoffsOK' /\ ChangesOK' /\ OutOK'
    BY <1>1 DEF IndInv, LoginsOK, PairsOK, CutoffsOK, ChangesOK, OutOK, Sound
<1>5. \A t \in Tokens : /\ t # k => blacklist'[t] = blacklist[t]
                        /\ t = k => blacklist'[t] = Exp(k)
    BY <1>1 DEF IndInv, TypeOK
<1>6. \A t \in Tokens :
          /\ Issued(t)' = Issued(t) /\ Owner(t)' = Owner(t)
          /\ Iat(t)' = Iat(t) /\ Exp(t)' = Exp(t)
    BY <1>1 DEF Issued, Owner, Iat, Exp
<1>7. BlacklistOK'
    BY <1>2, <1>5, <1>6 DEF IndInv, BlacklistOK
<1>8. Kept
  <2> SUFFICES ASSUME NEW t \in Tokens, Issued(t), ~Accepted(t) PROVE ~Accepted(t)'
    BY DEF Kept
  <2>1. t # k
    BY <1>1
  <2> QED
    BY <1>1, <1>5, <1>6, <2>1 DEF Accepted, Blacklisted, Revoked, Present
<1> QED
    BY <1>3, <1>4, <1>7, <1>8 DEF Good, IndInv

LEMMA LeaveGood ==
    ASSUME IndInv, NEW q \in Changes, NEW u \in Users, NEW new \in Inactive,
           Leave(q, u, new)
    PROVE  Good
<1>1. /\ status' = [status EXCEPT ![u] = new]
      /\ leftAt' = [leftAt EXCEPT ![u] = IF status[u] = "ACTIVE" THEN now ELSE leftAt[u]]
      /\ change[q] = NoChange
      /\ change' = [change EXCEPT ![q] = [who |-> u, before |-> 0]]
      /\ UNCHANGED <<now, reading, pair, blacklist, cutoff, missed, setBack, lost>>
    BY DEF Leave, login, redis, faults
<1>2. new # "ACTIVE" /\ new \in Statuses
    BY TimesAssumption DEF Statuses
<1>3. /\ status \in [Users -> Statuses] /\ leftAt \in [Users -> Nat]
      /\ change \in [Changes -> Change]
    BY DEF IndInv, TypeOK
<1>4. TypeOK'
    BY <1>1, <1>2, <1>3, Types DEF IndInv, TypeOK, Change
<1>5. \A v \in Users : status'[v] # "ACTIVE" =>
          \/ status[v] # "ACTIVE" /\ leftAt'[v] = leftAt[v]
          \/ leftAt'[v] = now
    BY <1>1, <1>3
<1>6. LoginsOK'
    BY <1>1, <1>5 DEF IndInv, LoginsOK
<1>7. PairsOK'
  <2> SUFFICES ASSUME NEW s \in Logins, pair[s] # NoPair, status'[pair[s].who] # "ACTIVE"
               PROVE  pair[s].read <= leftAt'[pair[s].who]
    BY <1>1 DEF IndInv, PairsOK
  <2>1. /\ pair[s].who \in Users
        /\ pair[s].read \in Nat /\ pair[s].iat \in Nat
        /\ pair[s].read <= pair[s].iat /\ pair[s].iat <= now
        /\ status[pair[s].who] # "ACTIVE" => pair[s].read <= leftAt[pair[s].who]
    BY Types DEF IndInv, PairsOK, Pair
  <2> QED
    BY <1>5, <2>1, Types
<1>8. BlacklistOK' /\ CutoffsOK'
    BY <1>1 DEF IndInv, BlacklistOK, Issued, Exp, Iat, CutoffsOK
<1>9. \A p \in Changes : /\ p # q => change'[p] = change[p]
                         /\ p = q => change'[p] = [who |-> u, before |-> 0]
    BY <1>1, <1>3
<1>10. ChangesOK'
    BY <1>1, <1>9, Types DEF IndInv, ChangesOK
<1>11. OutOK'
  <2> SUFFICES ASSUME NEW v \in Users
               PROVE  /\ leftAt'[v] <= now
                      /\ Sound(v)' =>
                            \/ cutoff[v].before > leftAt'[v]
                            \/ \E p \in Changes :
                                  /\ change'[p].who = v
                                  /\ change'[p].before = 0 \/ change'[p].before > leftAt'[v]
    BY <1>1 DEF OutOK
  <2>1. CASE v = u
    <3>1. change'[q].who = u /\ change'[q].before = 0
      BY <1>9
    <3>2. leftAt'[u] = now \/ leftAt'[u] = leftAt[u]
      BY <1>1, <1>3
    <3> QED
      BY <2>1, <3>1, <3>2, Types
  <2>2. CASE v # u
    <3>1. status'[v] = status[v] /\ leftAt'[v] = leftAt[v]
      BY <1>1, <1>3, <2>2
    <3>2. Sound(v)' => Sound(v)
      BY <1>1, <3>1 DEF Sound
    <3>3. \A p \in Changes : change[p].who = v => change'[p] = change[p]
      BY <1>1, <1>9, <2>2, TimesAssumption DEF NoChange
    <3> QED
      BY <3>1, <3>2, <3>3 DEF IndInv, OutOK
  <2> QED
    BY <2>1, <2>2
<1>12. Kept
    BY <1>1, Types, SameKeys DEF redis
<1> QED
    BY <1>4, <1>6, <1>7, <1>8, <1>10, <1>11, <1>12 DEF Good, IndInv

\* The cutoff that is taken is later than any change of status so far.
LEMMA TakeCutoffGood ==
    ASSUME IndInv, NEW q \in Changes, TakeCutoff(q)
    PROVE  Good
<1>1. /\ change[q] # NoChange
      /\ change' = [change EXCEPT ![q].before = now + 1]
      /\ UNCHANGED <<now, status, leftAt, reading, pair, blacklist, cutoff, missed, setBack, lost>>
    BY DEF TakeCutoff, NextSecond, users, login, redis, faults
<1>2. change \in [Changes -> Change] /\ now \in Nat
    BY DEF IndInv, TypeOK
<1>3. \A p \in Changes : /\ change'[p].who = change[p].who
                         /\ p # q => change'[p] = change[p]
                         /\ p = q => change'[p].before = now + 1
    BY <1>1, <1>2 DEF Change
<1>4. change' \in [Changes -> Change]
    BY <1>1, <1>2 DEF Change
<1>5. TypeOK'
    BY <1>1, <1>4 DEF IndInv, TypeOK
<1>6. LoginsOK' /\ PairsOK' /\ BlacklistOK' /\ CutoffsOK'
    BY <1>1 DEF IndInv, LoginsOK, PairsOK, BlacklistOK, Issued, Exp, Iat, CutoffsOK
<1>7. ChangesOK'
  <2> SUFFICES ASSUME NEW p \in Changes, change'[p] # NoChange
               PROVE  change'[p].who \in Users /\ change'[p].before <= now + 1
    BY <1>1 DEF ChangesOK
  <2>1. CASE p = q
    BY <1>1, <1>2, <1>3, <2>1 DEF IndInv, ChangesOK
  <2>2. CASE p # q
    BY <1>3, <2>2 DEF IndInv, ChangesOK
  <2> QED
    BY <2>1, <2>2
<1>8. OutOK'
  <2> SUFFICES ASSUME NEW u \in Users, Sound(u)
               PROVE  \/ cutoff[u].before > leftAt[u]
                      \/ \E p \in Changes :
                            /\ change'[p].who = u
                            /\ change'[p].before = 0 \/ change'[p].before > leftAt[u]
    BY <1>1 DEF IndInv, OutOK, Sound
  <2>1. now + 1 > leftAt[u]
    BY Types
  <2>2. \A p \in Changes :
            change[p].before = 0 \/ change[p].before > leftAt[u]
                => change'[p].before = 0 \/ change'[p].before > leftAt[u]
    BY <1>3, <2>1
  <2> QED
    BY <1>3, <2>2 DEF IndInv, OutOK
<1>9. Kept
    BY <1>1, Types, SameKeys DEF redis
<1> QED
    BY <1>5, <1>6, <1>7, <1>8, <1>9 DEF Good, IndInv

\* A cutoff that is not earlier than the one it replaces rejects what that one
\* rejected.
LEMMA RevokeGood ==
    ASSUME IndInv, NEW q \in Changes, Revoke(q)
    PROVE  Good
<1> DEFINE u == change[q].who
           b == change[q].before
           new == [before |-> b, until |-> now + RefreshTTL]
<1>1. /\ b # 0
      /\ cutoff' = [cutoff EXCEPT ![u] = new]
      /\ setBack' = IF b < cutoff[u].before THEN setBack \cup {u} ELSE setBack
      /\ change' = [change EXCEPT ![q] = NoChange]
      /\ UNCHANGED <<now, status, leftAt, reading, pair, blacklist, missed, lost>>
    BY DEF Revoke, RevokeKey, users, login
<1>2. /\ cutoff \in [Users -> Cutoff] /\ change \in [Changes -> Change]
      /\ setBack \subseteq Users
    BY DEF IndInv, TypeOK
<1>3. u \in Users /\ b \in Nat /\ b <= now + 1
  <2>1. change[q] # NoChange
    BY <1>1 DEF NoChange
  <2> QED
    BY <1>2, <2>1 DEF IndInv, ChangesOK, Change
<1>4. new \in Cutoff /\ NoChange \in Change
    BY <1>3, Types DEF Cutoff, NoChange, Change
<1> HIDE DEF u, b
<1>5. TypeOK'
  <2>1. setBack' \subseteq Users
    BY <1>1, <1>2, <1>3
  <2> HIDE DEF new
  <2> QED
    BY <1>1, <1>2, <1>4, <2>1 DEF IndInv, TypeOK
<1>6. LoginsOK' /\ PairsOK' /\ BlacklistOK'
    BY <1>1 DEF IndInv, LoginsOK, PairsOK, BlacklistOK, Issued, Exp, Iat
<1>7. \A v \in Users : /\ v # u => cutoff'[v] = cutoff[v]
                       /\ v = u => cutoff'[v] = new
    BY <1>1, <1>2
<1>8. \A p \in Changes : /\ p # q => change'[p] = change[p]
                         /\ p = q => change'[p] = NoChange
    BY <1>1, <1>2
<1>9. CutoffsOK' /\ ChangesOK'
    BY <1>1, <1>3, <1>7, <1>8, Types DEF IndInv, CutoffsOK, ChangesOK, Cutoff
<1>10. \A v \in Users : v \notin setBack' => cutoff'[v].before >= cutoff[v].before
  <2> SUFFICES ASSUME NEW v \in Users, v \notin setBack'
               PROVE  cutoff'[v].before >= cutoff[v].before
    OBVIOUS
  <2>1. cutoff[v].before \in Nat
    BY <1>2 DEF Cutoff
  <2>2. CASE v = u
    BY <1>1, <1>3, <1>7, <2>1, <2>2
  <2>3. CASE v # u
    BY <1>7, <2>1, <2>3
  <2> QED
    BY <2>2, <2>3
<1>11. OutOK'
  <2> SUFFICES ASSUME NEW v \in Users, Sound(v)'
               PROVE  \/ cutoff'[v].before > leftAt[v]
                      \/ \E p \in Changes :
                            /\ change'[p].who = v
                            /\ change'[p].before = 0 \/ change'[p].before > leftAt[v]
    BY <1>1 DEF IndInv, OutOK
  <2>1. Sound(v) /\ v \notin setBack'
    BY <1>1 DEF Sound
  <2>2. cutoff'[v].before >= cutoff[v].before
    BY <2>1, <1>10
  <2>3. /\ cutoff[v].before \in Nat /\ cutoff'[v].before \in Nat
        /\ leftAt[v] \in Nat
    BY <1>4, <1>7, Types DEF Cutoff
  <2>4. CASE cutoff[v].before > leftAt[v]
    BY <2>2, <2>3, <2>4
  <2>5. CASE ~(cutoff[v].before > leftAt[v])
    <3>1. PICK p \in Changes :
              /\ change[p].who = v
              /\ change[p].before = 0 \/ change[p].before > leftAt[v]
      BY <2>1, <2>5 DEF IndInv, OutOK
    <3>2. CASE p = q
      <4>1. v = u /\ b > leftAt[v]
        BY <1>1, <3>1, <3>2 DEF u, b
      <4> QED
        BY <4>1, <1>7
    <3>3. CASE p # q
      BY <1>8, <3>1, <3>3
    <3> QED
      BY <3>2, <3>3
  <2> QED
    BY <2>4, <2>5
<1>12. Kept
  <2> SUFFICES ASSUME NEW k \in Tokens, Issued(k), ~Accepted(k), Owner(k) \notin setBack'
               PROVE  ~Accepted(k)'
    BY DEF Kept
  <2>1. /\ Issued(k)' = Issued(k) /\ Owner(k)' = Owner(k)
        /\ Iat(k)' = Iat(k) /\ Exp(k)' = Exp(k)
    BY <1>1 DEF Issued, Owner, Iat, Exp
  <2>2. CASE Owner(k) # u \/ ~Revoked(k)
    <3>1. Revoked(k) => Revoked(k)'
      BY <1>1, <1>7, <2>1, <2>2, TokenOK DEF Revoked, Present
    <3> QED
      BY <1>1, <2>1, <3>1 DEF Accepted, Blacklisted, Present
  <2>3. CASE Owner(k) = u /\ Revoked(k)
    <3>1. Iat(k) < cutoff[u].before
      BY <2>3 DEF Revoked
    <3>2. cutoff'[u] = new /\ cutoff'[u].before >= cutoff[u].before
      BY <1>3, <1>7, <1>10, <2>3
    <3>3. Iat(k) < b
      BY <1>2, <1>3, <3>1, <3>2, TokenOK DEF Cutoff
    <3>4. cutoff'[Owner(k)'] = new
      BY <2>1, <2>3, <3>2
    <3>5. Revoked(k)'
      BY <1>1, <2>1, <3>3, <3>4, Types DEF Revoked, Present
    <3> QED
      BY <3>5 DEF Accepted
  <2> QED
    BY <2>2, <2>3
<1> QED
    BY <1>5, <1>6, <1>9, <1>11, <1>12 DEF Good, IndInv

LEMMA RevokeFailsGood ==
    ASSUME IndInv, NEW q \in Changes, RevokeFails(q)
    PROVE  Good
<1> DEFINE u == change[q].who
<1>1. /\ change[q] # NoChange
      /\ change' = [change EXCEPT ![q] = NoChange]
      /\ missed' = missed \cup {u}
      /\ UNCHANGED <<now, status, leftAt, reading, pair, blacklist, cutoff, setBack, lost>>
    BY DEF RevokeFails, users, login, redis
<1>2. change \in [Changes -> Change] /\ missed \subseteq Users /\ NoChange \in Change
    BY DEF IndInv, TypeOK, NoChange, Change
<1>3. u \in Users
    BY <1>1 DEF IndInv, ChangesOK
<1>4. TypeOK'
    BY <1>1, <1>2, <1>3 DEF IndInv, TypeOK
<1>5. \A p \in Changes : /\ p # q => change'[p] = change[p]
                         /\ p = q => change'[p] = NoChange
    BY <1>1, <1>2
<1>6. LoginsOK' /\ PairsOK' /\ BlacklistOK' /\ CutoffsOK' /\ ChangesOK'
    BY <1>1, <1>5 DEF IndInv, LoginsOK, PairsOK, BlacklistOK, Issued, Exp, Iat, CutoffsOK,
                      ChangesOK
<1>7. OutOK'
  <2> SUFFICES ASSUME NEW v \in Users, Sound(v)'
               PROVE  \/ cutoff[v].before > leftAt[v]
                      \/ \E p \in Changes :
                            /\ change'[p].who = v
                            /\ change'[p].before = 0 \/ change'[p].before > leftAt[v]
    BY <1>1 DEF IndInv, OutOK
  <2>1. Sound(v) /\ v # u
    BY <1>1 DEF Sound
  <2>2. \A p \in Changes : change[p].who = v => change'[p] = change[p]
    BY <1>5, <2>1
  <2> QED
    BY <2>1, <2>2 DEF IndInv, OutOK
<1>8. Kept
    BY <1>1, Types, SameKeys DEF redis
<1> QED
    BY <1>4, <1>6, <1>7, <1>8 DEF Good, IndInv

LEMMA UnfreezeGood ==
    ASSUME IndInv, NEW u \in Users, Unfreeze(u)
    PROVE  Good
<1>1. /\ status' = [status EXCEPT ![u] = "ACTIVE"]
      /\ UNCHANGED <<now, leftAt, reading, pair, blacklist, cutoff, change, missed, setBack, lost>>
    BY DEF Unfreeze, login, redis, faults
<1>2. status \in [Users -> Statuses] /\ "ACTIVE" \in Statuses
    BY DEF IndInv, TypeOK, Statuses
<1>3. TypeOK'
    BY <1>1, <1>2 DEF IndInv, TypeOK
<1>4. \A v \in Users : status'[v] # "ACTIVE" => status[v] # "ACTIVE"
    BY <1>1, <1>2
<1>5. LoginsOK' /\ PairsOK'
    BY <1>1, <1>4 DEF IndInv, LoginsOK, PairsOK
<1>6. BlacklistOK' /\ CutoffsOK' /\ ChangesOK'
    BY <1>1 DEF IndInv, BlacklistOK, Issued, Exp, Iat, CutoffsOK, ChangesOK
<1>7. OutOK'
    BY <1>1, <1>4 DEF IndInv, OutOK, Sound
<1>8. Kept
    BY <1>1, Types, SameKeys DEF redis
<1> QED
    BY <1>3, <1>5, <1>6, <1>7, <1>8 DEF Good, IndInv

LEMMA LoseKeysGood == IndInv /\ LoseKeys => Good
<1> SUFFICES ASSUME IndInv, LoseKeys PROVE Good
    OBVIOUS
<1>1. /\ blacklist' = [k \in Tokens |-> 0]
      /\ cutoff' = [u \in Users |-> NoKey]
      /\ lost' = TRUE
      /\ UNCHANGED <<now, status, leftAt, reading, pair, change, missed, setBack>>
    BY DEF LoseKeys, users, login
<1>2. NoKey \in Cutoff
    BY DEF NoKey, Cutoff
<1>3. TypeOK'
    BY <1>1, <1>2 DEF IndInv, TypeOK
<1>4. LoginsOK' /\ PairsOK'
    BY <1>1 DEF IndInv, LoginsOK, PairsOK
<1>5. BlacklistOK' /\ CutoffsOK' /\ ChangesOK'
    BY <1>1 DEF IndInv, BlacklistOK, CutoffsOK, ChangesOK
<1>6. OutOK'
  <2>1. \A u \in Users : ~Sound(u)'
    BY <1>1 DEF Sound
  <2> QED
    BY <1>1, <2>1, Types DEF OutOK
<1>7. Kept
    BY <1>1 DEF Kept
<1> QED
    BY <1>3, <1>4, <1>5, <1>6, <1>7 DEF Good, IndInv

LEMMA StutterGood == IndInv /\ UNCHANGED vars => Good
<1> SUFFICES ASSUME IndInv, UNCHANGED vars PROVE Good
    OBVIOUS
<1>1. UNCHANGED <<now, status, leftAt, reading, pair, blacklist, cutoff, change, missed, setBack, lost>>
    BY DEF vars, users, login, redis, faults
<1>2. TypeOK' /\ LoginsOK' /\ PairsOK'
    BY <1>1 DEF IndInv, TypeOK, LoginsOK, PairsOK
<1>3. BlacklistOK' /\ CutoffsOK' /\ ChangesOK' /\ OutOK'
    BY <1>1 DEF IndInv, BlacklistOK, Issued, Exp, Iat, CutoffsOK, ChangesOK, OutOK, Sound
<1>4. Kept
    BY <1>1, Types, SameKeys DEF redis
<1> QED
    BY <1>2, <1>3, <1>4 DEF Good, IndInv

LEMMA NextGood == IndInv /\ [Next]_vars => Good
BY TickGood, LoginReadGood, LoginIssueGood, LoginFailGood, LogoutGood, LeaveGood,
   TakeCutoffGood, RevokeGood, RevokeFailsGood, UnfreezeGood, LoseKeysGood, StutterGood DEF Next

-----------------------------------------------------------------------------
(* The theorems *)

\* The inductive invariant holds in every state, for all users and times.
THEOREM SessionsInvariant == Spec => []IndInv
<1>1. IndInv /\ [Next]_vars => IndInv'
    BY NextGood DEF Good
<1> QED
    BY InitIndInv, <1>1, PTL DEF Spec

\* What a revocation that went through can miss: the token of a login that had
\* read the old status and signed after the revocation, and only for as long as
\* such a login and a refresh token last.
THEOREM SessionsLate == Spec => []OnlyLateLoginsRemain
<1>1. IndInv => OnlyLateLoginsRemain
  <2> SUFFICES ASSUME IndInv, NEW k \in Tokens, Accepted(k), Out(Owner(k))
               PROVE  /\ pair[k[1]].read <= leftAt[Owner(k)]
                      /\ leftAt[Owner(k)] < Iat(k)
                      /\ now < leftAt[Owner(k)] + LoginTime + RefreshTTL
    BY DEF OnlyLateLoginsRemain
  <2> DEFINE u == Owner(k)
             p == pair[k[1]]
             c == cutoff[u]
  <2>1. Issued(k) /\ now < Exp(k) /\ ~Revoked(k)
    BY DEF Accepted
  <2>2. /\ k[1] \in Logins /\ u \in Users /\ Iat(k) \in Nat /\ Exp(k) \in Nat
        /\ Exp(k) <= Iat(k) + RefreshTTL /\ Iat(k) <= now
    BY <2>1, TokenOK
  <2>3. /\ p.read <= leftAt[u] /\ Iat(k) <= p.read + LoginTime /\ p.read \in Nat
    BY <2>1, <2>2, Types DEF IndInv, PairsOK, Issued, Owner, Iat, Out, Sound, Pair
  <2>4. c.before > leftAt[u] /\ leftAt[u] \in Nat
    BY <2>2, Types DEF IndInv, OutOK, Out
  <2>5. c \in Cutoff /\ c # NoKey
    BY <2>2, <2>4, Types DEF NoKey
  <2>6. /\ c.before \in Nat /\ c.until \in Nat
        /\ c.before + RefreshTTL <= c.until + 1
    BY <2>2, <2>5 DEF IndInv, CutoffsOK, Cutoff
  <2>7. now >= c.until \/ Iat(k) >= c.before
    BY <2>1, <2>2, <2>6, Types DEF Revoked, Present
  <2>8. Iat(k) >= c.before
    BY <2>1, <2>2, <2>6, <2>7, Types
  <2> QED
    BY <2>1, <2>2, <2>3, <2>4, <2>6, <2>8, Types
<1> QED
    BY SessionsInvariant, <1>1, PTL

\* A token once rejected is rejected for good while Redis keeps its keys.
THEOREM SessionsRejected == Spec => RejectedStaysRejected
<1>1. IndInv /\ [Next]_vars =>
          [\A k \in Tokens :
              Issued(k) /\ ~Accepted(k) /\ ~lost' /\ Owner(k) \notin setBack'
                  => ~Accepted(k)']_vars
    BY NextGood DEF Good, Kept
<1> QED
    BY SessionsInvariant, <1>1, PTL DEF Spec, RejectedStaysRejected

=============================================================================
