----------------------------- MODULE Idempotency -----------------------------
(***************************************************************************)
(* Duplicate suppression by X-Idempotency-Key: the copies of one user's    *)
(* request that carry the same key (internal/wallet/service.go and the     *)
(* same helpers in ride, food and send).  L1 is the Redis entry, which is  *)
(* only ever written with a finished response; L2 is the row of            *)
(* idempotency_cache, PROCESSING while a copy runs and COMPLETED after.    *)
(*                                                                         *)
(* Every statement against Redis or PostgreSQL is a step of its own: the   *)
(* claim of the key, the business transaction and the two writes of the    *)
(* response commit separately, and a crash may fall between any two.  The  *)
(* response of an execution is named by the copy that executed.            *)
(***************************************************************************)

CONSTANTS
    Attempts,   \* copies of the request under one key
    Earlier,    \* a response left in Redis from before the row was purged
    None

ASSUME ResponsesAssumption ==
    /\ Earlier \notin Attempts
    /\ None \notin Attempts \cup {Earlier, "INSERTED", "STALE"}

VARIABLES
    pc,         \* where each copy is in the handler
    claim,      \* how a copy that ran came to own the key
    got,        \* the response a copy read from L2
    answer,     \* the response sent to the client
    l1,         \* the Redis entry of the key
    l2,         \* the idempotency_cache row of the key
    executed    \* the copies whose business transaction committed

vars == <<pc, claim, got, answer, l1, l2, executed>>

Responses == Attempts \cup {Earlier, None}

Steps == {"idle", "select", "insert", "run", "redis", "save", "refill"}
Ends  == {"answered", "error"}

NoRow      == [state |-> "ABSENT", stale |-> FALSE, response |-> None]
Processing == [state |-> "PROCESSING", stale |-> FALSE, response |-> None]
Completed(a) == [state |-> "COMPLETED", stale |-> FALSE, response |-> a]

Goto(a, label) == pc' = [pc EXCEPT ![a] = label]

Reply(a, response) ==
    /\ Goto(a, "answered")
    /\ answer' = [answer EXCEPT ![a] = response]

-----------------------------------------------------------------------------
Init ==
    /\ pc = [a \in Attempts |-> "idle"]
    /\ claim = [a \in Attempts |-> None]
    /\ got = [a \in Attempts |-> None]
    /\ answer = [a \in Attempts |-> None]
    /\ l1 = None
    /\ l2 = NoRow
    /\ executed = {}

\* redisGetCachedResp: a hit is the answer; a miss, and any Redis error, goes
\* on to L2.
HitL1(a) ==
    /\ pc[a] = "idle"
    /\ l1 # None
    /\ Reply(a, l1)
    /\ UNCHANGED <<claim, got, l1, l2, executed>>

MissL1(a) ==
    /\ pc[a] = "idle"
    /\ Goto(a, "select")
    /\ UNCHANGED <<claim, got, answer, l1, l2, executed>>

\* Mutant of MayTakeOver: a PROCESSING row is never taken over.
NeverTakeOver == FALSE

\* A PROCESSING row whose debounce has passed counts as left by a crash.
MayTakeOver == l2.state = "PROCESSING" /\ l2.stale

\* idemAcquire, the SELECT: an absent row is to be inserted, a COMPLETED one
\* answers, a stale one is taken over as it is, a fresh one is refused.
Select(a) ==
    /\ pc[a] = "select"
    /\ \/ /\ l2.state = "ABSENT"
          /\ Goto(a, "insert")
          /\ UNCHANGED <<claim, got>>
       \/ /\ l2.state = "COMPLETED"
          /\ Goto(a, "refill")
          /\ got' = [got EXCEPT ![a] = l2.response]
          /\ UNCHANGED claim
       \/ /\ MayTakeOver
          /\ Goto(a, "run")
          /\ claim' = [claim EXCEPT ![a] = "STALE"]
          /\ UNCHANGED got
       \/ /\ l2.state = "PROCESSING"
          /\ ~l2.stale
          /\ Goto(a, "error")
          /\ UNCHANGED <<claim, got>>
    /\ UNCHANGED <<answer, l1, l2, executed>>

\* Mutant of Insert: ON CONFLICT DO NOTHING, with the row count ignored.
InsertIgnoringConflict(a) ==
    /\ pc[a] = "insert"
    /\ l2' = IF l2.state = "ABSENT" THEN Processing ELSE l2
    /\ Goto(a, "run")
    /\ claim' = [claim EXCEPT ![a] = "INSERTED"]
    /\ UNCHANGED <<got, answer, l1, executed>>

\* pgInsertProcessing: the unique index lets one copy insert the row.
Insert(a) ==
    /\ pc[a] = "insert"
    /\ \/ /\ l2.state = "ABSENT"
          /\ l2' = Processing
          /\ Goto(a, "run")
          /\ claim' = [claim EXCEPT ![a] = "INSERTED"]
       \/ /\ l2.state # "ABSENT"
          /\ Goto(a, "error")
          /\ UNCHANGED <<l2, claim>>
    /\ UNCHANGED <<got, answer, l1, executed>>

\* Mutant of Commit: the error of the transaction is not looked at.
CommitUnchecked(a) ==
    /\ pc[a] = "run"
    /\ executed' \in {executed, executed \cup {a}}
    /\ Goto(a, "redis")
    /\ UNCHANGED <<claim, got, answer, l1, l2>>

\* The business transaction commits.
Commit(a) ==
    /\ pc[a] = "run"
    /\ executed' = executed \cup {a}
    /\ Goto(a, "redis")
    /\ UNCHANGED <<claim, got, answer, l1, l2>>

\* cacheResponse, first write: an error of Redis is ignored.
SetL1(a) ==
    /\ pc[a] = "redis"
    /\ l1' \in {a, l1}
    /\ Goto(a, "save")
    /\ UNCHANGED <<claim, got, answer, l2, executed>>

\* cacheResponse, second write, then the answer.
Save(a) ==
    /\ pc[a] = "save"
    /\ l2' = Completed(a)
    /\ Reply(a, a)
    /\ UNCHANGED <<claim, got, l1, executed>>

\* A COMPLETED row answers, and is copied back to Redis first.
Refill(a) ==
    /\ pc[a] = "refill"
    /\ l1' \in {got[a], l1}
    /\ Reply(a, got[a])
    /\ UNCHANGED <<claim, got, l2, executed>>

\* The handler ends in an error: a check or statement fails, the process
\* crashes, the connection is lost.  Nothing takes the row back.
Fail(a) ==
    /\ pc[a] \in Steps \ {"idle"}
    /\ Goto(a, "error")
    /\ UNCHANGED <<claim, got, answer, l1, l2, executed>>

\* The client sends the request once more after an error that executed nothing.
Retry(a) ==
    /\ pc[a] = "error"
    /\ a \notin executed
    /\ Goto(a, "idle")
    /\ claim' = [claim EXCEPT ![a] = None]
    /\ got' = [got EXCEPT ![a] = None]
    /\ UNCHANGED <<answer, l1, l2, executed>>

\* debounce_at lies in the past.
Lapse ==
    /\ l2.state = "PROCESSING"
    /\ ~l2.stale
    /\ l2' = [l2 EXCEPT !.stale = TRUE]
    /\ UNCHANGED <<pc, claim, got, answer, l1, executed>>

\* Redis drops the entry: its TTL, an eviction, a restart.
Evict ==
    /\ l1 # None
    /\ l1' = None
    /\ UNCHANGED <<pc, claim, got, answer, l2, executed>>

\* purgeIdempotencyCache, a day after the row was inserted and so after every
\* copy of then has ended: the key starts anew, with what Redis still holds.
Purge ==
    /\ l2.state # "ABSENT"
    /\ \A a \in Attempts : pc[a] \in {"idle", "answered", "error"}
    /\ pc' = [a \in Attempts |-> "idle"]
    /\ claim' = [a \in Attempts |-> None]
    /\ got' = [a \in Attempts |-> None]
    /\ answer' = [a \in Attempts |-> None]
    /\ l1' = IF l1 = None THEN None ELSE Earlier
    /\ l2' = NoRow
    /\ executed' = {}

Handle(a) ==
    \/ HitL1(a)
    \/ MissL1(a)
    \/ Select(a)
    \/ Insert(a)
    \/ Commit(a)
    \/ SetL1(a)
    \/ Save(a)
    \/ Refill(a)

Next ==
    \/ \E a \in Attempts : Handle(a) \/ Fail(a) \/ Retry(a)
    \/ Lapse
    \/ Evict
    \/ Purge

Spec == Init /\ [][Next]_vars

\* A handler does not stop between two statements, clients retry, and time
\* passes.  Failures are possible at every step; that they end is an
\* assumption of the liveness property, not of the specification.
FairSpec ==
    /\ Spec
    /\ \A a \in Attempts : WF_vars(Handle(a)) /\ WF_vars(Retry(a))
    /\ WF_vars(Lapse)

-----------------------------------------------------------------------------
(* Properties *)

TypeOK ==
    /\ pc \in [Attempts -> Steps \cup Ends]
    /\ claim \in [Attempts -> {"INSERTED", "STALE", None}]
    /\ got \in [Attempts -> Responses]
    /\ answer \in [Attempts -> Responses]
    /\ l1 \in Responses
    /\ l2 \in [state : {"ABSENT", "PROCESSING", "COMPLETED"},
               stale : BOOLEAN, response : Responses]
    /\ executed \in SUBSET Attempts

\* Copies that arrive together, in any order and with any failures between,
\* execute once: a second execution is always one that took the key over from
\* a copy whose five minutes had passed.
SingleExecution ==
    \A a, b \in executed : a # b => "STALE" \in {claim[a], claim[b]}

\* No client is told of a transaction that did not commit, from whichever
\* layer the answer comes, and neither layer stores such a response.
AnswerExecuted ==
    /\ \A a \in Attempts : answer[a] \in executed \cup {Earlier, None}
    /\ l1 \in executed \cup {Earlier, None}
    /\ l2.state = "COMPLETED" => l2.response \in executed

\* A key whose owner crashed is not lost: if failures end and the client keeps
\* retrying, some copy executes or is answered.
FailuresEnd == <>[][\A a \in Attempts : ~Fail(a)]_vars

KeyRecovers ==
    FailuresEnd =>
        (executed = {} ~> (executed # {} \/ \E a \in Attempts : pc[a] = "answered"))

-----------------------------------------------------------------------------
(* The inductive invariant behind the safety properties *)

\* Until the row is inserted nobody owns the key.
Unclaimed ==
    l2.state = "ABSENT" =>
        executed = {} /\ \A a \in Attempts : claim[a] = None

\* A copy that runs, or ran, owns the key, and only one inserted the row.
Owners ==
    /\ \A a \in Attempts :
          /\ pc[a] \in {"run", "redis", "save"} => claim[a] # None
          /\ pc[a] \in {"redis", "save"} => a \in executed
          /\ pc[a] \in {"idle", "run"} => a \notin executed
          /\ a \in executed => claim[a] # None
          /\ pc[a] \in {"idle", "select", "insert"} => claim[a] = None
    /\ \A a, b \in Attempts :
          claim[a] = "INSERTED" /\ claim[b] = "INSERTED" => a = b

\* A response on its way from L2 to the client was executed.
Carried == \A a \in Attempts : pc[a] = "refill" => got[a] \in executed

IndInv ==
    /\ TypeOK
    /\ Unclaimed
    /\ Owners
    /\ Carried
    /\ AnswerExecuted

-----------------------------------------------------------------------------
(* Statements of the API contract that the code breaks *)

\* "Exactly-Once Semantics": copies under one key execute at most once.
AtMostOnce == \A a, b \in executed : a = b

=============================================================================
