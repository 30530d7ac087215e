------------------------ MODULE RequestGuards_proofs ------------------------
(***************************************************************************)
(* What requests are guarded with, for any number of them: a money         *)
(* request by its X-Idempotency-Key and the row locks of its wallets, an   *)
(* administrator's login by the lockout.                                   *)
(*                                                                         *)
(* The key.  Only one copy can insert the row of the key, a copy executes  *)
(* only if it inserted the row or took a stale one over, and a response    *)
(* reaches either layer only after its execution committed.                *)
(*                                                                         *)
(* The locks.  A transaction of one lock call only ever waits for a row    *)
(* above all it holds, so in a circle of waiting transactions the holder   *)
(* of the greatest row waited for would wait for a greater one.            *)
(*                                                                         *)
(* The lockout.  Every failure is counted in one of finitely many slots,   *)
(* and two failures of one slot are lockoutDuration apart, so there are    *)
(* never more failures in a window than there are slots.                   *)
(***************************************************************************)
EXTENDS Idempotency, WalletLocks, AdminLockout, FiniteSetTheorems, FunctionTheorems,
        SequenceTheorems, WellFoundedInduction, TLAPS

-----------------------------------------------------------------------------
(* The key *)

\* Before the first copy arrives nothing is claimed, cached or answered.
LEMMA InitIndInv == Init => IndInv
<1> SUFFICES ASSUME Init PROVE IndInv
  OBVIOUS
<1>1. TypeOK
  <2>1. NoRow \in [state : {"ABSENT", "PROCESSING", "COMPLETED"},
                   stale : BOOLEAN, response : Responses]
    BY DEF NoRow, Responses
  <2>2. "idle" \in Steps /\ None \in Responses
    BY DEF Steps, Responses
  <2> QED
    BY <2>1, <2>2 DEF Init, TypeOK
<1>2. Unclaimed /\ Owners /\ Carried
  BY ResponsesAssumption DEF Init, Unclaimed, Owners, Carried
<1>3. AnswerExecuted
  BY DEF Init, AnswerExecuted, NoRow
<1> QED
  BY <1>1, <1>2, <1>3 DEF IndInv

\* Every step of a handler keeps the types of the state.
LEMMA NextTypes == ASSUME TypeOK, [Next]_vars PROVE TypeOK'
<1>1. CASE Next
  <2>1. ASSUME NEW a \in Attempts, Handle(a) PROVE TypeOK'
    <3>1. CASE HitL1(a)
      BY <3>1 DEF TypeOK, HitL1, Reply, Goto, Ends
    <3>2. CASE MissL1(a)
      BY <3>2 DEF TypeOK, MissL1, Goto, Steps
    <3>3. CASE Select(a)
      <4>1. pc' \in [Attempts -> Steps \cup Ends]
        BY <3>3 DEF TypeOK, Select, Goto, Steps, Ends
      <4>2. claim' \in [Attempts -> {"INSERTED", "STALE", None}]
        BY <3>3 DEF TypeOK, Select
      <4>3. got' \in [Attempts -> Responses]
        BY <3>3 DEF TypeOK, Select
      <4>4. UNCHANGED <<answer, l1, l2, executed>>
        BY <3>3 DEF Select
      <4> QED
        BY <4>1, <4>2, <4>3, <4>4 DEF TypeOK
    <3>4. CASE Insert(a)
      <4>1. pc' \in [Attempts -> Steps \cup Ends]
        BY <3>4 DEF TypeOK, Insert, Goto, Steps, Ends
      <4>2. Processing \in [state : {"ABSENT", "PROCESSING", "COMPLETED"},
                            stale : BOOLEAN, response : Responses]
        BY DEF Processing, Responses
      <4> QED
        BY <3>4, <4>1, <4>2 DEF TypeOK, Insert
    <3>5. CASE Commit(a)
      BY <3>5 DEF TypeOK, Commit, Goto, Steps
    <3>6. CASE SetL1(a)
      BY <3>6 DEF TypeOK, SetL1, Goto, Steps, Responses
    <3>7. CASE Save(a)
      BY <3>7 DEF TypeOK, Save, Reply, Goto, Completed, Ends, Responses
    <3>8. CASE Refill(a)
      BY <3>8 DEF TypeOK, Refill, Reply, Goto, Ends, Responses
    <3> QED
      BY <2>1, <3>1, <3>2, <3>3, <3>4, <3>5, <3>6, <3>7, <3>8 DEF Handle
  <2>2. ASSUME NEW a \in Attempts, Fail(a) PROVE TypeOK'
    BY <2>2 DEF TypeOK, Fail, Goto, Ends
  <2>3. ASSUME NEW a \in Attempts, Retry(a) PROVE TypeOK'
    BY <2>3 DEF TypeOK, Retry, Goto, Steps, Responses
  <2>4. CASE Lapse
    BY <2>4 DEF TypeOK, Lapse
  <2>5. CASE Evict
    BY <2>5 DEF TypeOK, Evict, Responses
  <2>6. CASE Purge
    BY <2>6 DEF TypeOK, Purge, NoRow, Steps, Responses
  <2> QED
    BY <1>1, <2>1, <2>2, <2>3, <2>4, <2>5, <2>6 DEF Next
<1>2. CASE UNCHANGED vars
  BY <1>2 DEF TypeOK, vars
<1> QED
  BY <1>1, <1>2

\* Every step keeps the ownership of the key.
LEMMA NextOwners ==
    ASSUME IndInv, TypeOK', [Next]_vars
    PROVE  Unclaimed' /\ Owners'
<1>0. /\ pc \in [Attempts -> Steps \cup Ends]
      /\ claim \in [Attempts -> {"INSERTED", "STALE", None}]
      /\ got \in [Attempts -> Responses]
      /\ answer \in [Attempts -> Responses]
      /\ executed \in SUBSET Attempts
      /\ l2 \in [state : {"ABSENT", "PROCESSING", "COMPLETED"},
                 stale : BOOLEAN, response : Responses]
  BY DEF IndInv, TypeOK
<1> USE <1>0, ResponsesAssumption DEF IndInv, Unclaimed, Owners
<1>1. ASSUME NEW a \in Attempts, Handle(a) PROVE Unclaimed' /\ Owners'
  <2>1. CASE HitL1(a)
    BY <2>1 DEF HitL1, Reply, Goto
  <2>2. CASE MissL1(a)
    BY <2>2 DEF MissL1, Goto
  <2>3. CASE Select(a)
    BY <2>3 DEF Select, MayTakeOver, Goto
  <2>4. CASE Insert(a)
    BY <2>4 DEF Insert, Processing, Goto
  <2>5. CASE Commit(a)
    BY <2>5 DEF Commit, Goto
  <2>6. CASE SetL1(a)
    BY <2>6 DEF SetL1, Goto
  <2>7. CASE Save(a)
    BY <2>7 DEF Save, Completed, Reply, Goto
  <2>8. CASE Refill(a)
    BY <2>8 DEF Refill, Reply, Goto
  <2> QED
    BY <1>1, <2>1, <2>2, <2>3, <2>4, <2>5, <2>6, <2>7, <2>8 DEF Handle
<1>2. ASSUME NEW a \in Attempts, Fail(a) PROVE Unclaimed' /\ Owners'
  BY <1>2 DEF Fail, Goto
<1>3. ASSUME NEW a \in Attempts, Retry(a) PROVE Unclaimed' /\ Owners'
  BY <1>3 DEF Retry, Goto
<1>4. CASE Lapse
  BY <1>4 DEF Lapse
<1>5. CASE Evict \/ UNCHANGED vars
  BY <1>5 DEF Evict, vars
<1>6. CASE Purge
  BY <1>6 DEF Purge, NoRow
<1> QED
  BY <1>1, <1>2, <1>3, <1>4, <1>5, <1>6 DEF Next

\* Every step keeps uncommitted responses out of both layers.
LEMMA NextAnswers ==
    ASSUME IndInv, TypeOK', [Next]_vars
    PROVE  Carried' /\ AnswerExecuted'
<1>0. /\ pc \in [Attempts -> Steps \cup Ends]
      /\ claim \in [Attempts -> {"INSERTED", "STALE", None}]
      /\ got \in [Attempts -> Responses]
      /\ answer \in [Attempts -> Responses]
      /\ executed \in SUBSET Attempts
      /\ l2 \in [state : {"ABSENT", "PROCESSING", "COMPLETED"},
                 stale : BOOLEAN, response : Responses]
  BY DEF IndInv, TypeOK
<1> USE <1>0, ResponsesAssumption DEF IndInv, Owners, Carried, AnswerExecuted
<1>1. ASSUME NEW a \in Attempts, Handle(a) PROVE Carried' /\ AnswerExecuted'
  <2>1. CASE HitL1(a)
    BY <2>1 DEF HitL1, Reply, Goto
  <2>2. CASE MissL1(a)
    BY <2>2 DEF MissL1, Goto
  <2>3. CASE Select(a)
    BY <2>3 DEF Select, MayTakeOver, Goto
  <2>4. CASE Insert(a)
    BY <2>4 DEF Insert, Processing, Goto
  <2>5. CASE Commit(a)
    BY <2>5 DEF Commit, Goto
  <2>6. CASE SetL1(a)
    BY <2>6 DEF SetL1, Goto
  <2>7. CASE Save(a)
    BY <2>7 DEF Save, Completed, Reply, Goto
  <2>8. CASE Refill(a)
    BY <2>8 DEF Refill, Reply, Goto
  <2> QED
    BY <1>1, <2>1, <2>2, <2>3, <2>4, <2>5, <2>6, <2>7, <2>8 DEF Handle
<1>2. ASSUME NEW a \in Attempts, Fail(a) PROVE Carried' /\ AnswerExecuted'
  BY <1>2 DEF Fail, Goto
<1>3. ASSUME NEW a \in Attempts, Retry(a) PROVE Carried' /\ AnswerExecuted'
  BY <1>3 DEF Retry, Goto
<1>4. CASE Lapse
  BY <1>4 DEF Lapse
<1>5. CASE Evict \/ UNCHANGED vars
  BY <1>5 DEF Evict, vars
<1>6. CASE Purge
  BY <1>6 DEF Purge, NoRow
<1> QED
  BY <1>1, <1>2, <1>3, <1>4, <1>5, <1>6 DEF Next

\* Every step keeps the inductive invariant.
LEMMA NextIndInv == ASSUME IndInv, [Next]_vars PROVE IndInv'
<1>1. TypeOK'
  BY NextTypes DEF IndInv
<1> QED
  BY <1>1, NextOwners, NextAnswers DEF IndInv

\* The inductive invariant holds for any set of copies.
THEOREM IdempotencyInvariant == Spec => []IndInv
<1>1. Init => IndInv
  BY InitIndInv
<1>2. IndInv /\ [Next]_vars => IndInv'
  BY NextIndInv
<1> QED
  BY <1>1, <1>2, PTL DEF Spec

\* Two copies execute only if one of them took over a stale row.
THEOREM IdempotencySingle == Spec => []SingleExecution
<1>1. IndInv => SingleExecution
  BY DEF IndInv, TypeOK, Owners, SingleExecution
<1> QED
  BY <1>1, IdempotencyInvariant, PTL

\* Only committed executions are cached or answered.
THEOREM IdempotencyAnswers == Spec => []AnswerExecuted
<1>1. IndInv => AnswerExecuted
  BY DEF IndInv
<1> QED
  BY <1>1, IdempotencyInvariant, PTL

-----------------------------------------------------------------------------
(* The locks *)

\* Without an adjustment every transaction makes one lock call, on wallets.
LEMMA ScriptsType ==
    ASSUME ~WithAdjustment, NEW s \in Scripts
    PROVE  s \in Seq(SUBSET Wallets) /\ Len(s) = 1
<1>1. s \in OneCall
    BY DEF Scripts
<1>2. PICK S \in SUBSET Wallets : s = <<S>>
  <2>1. CASE s \in TopUpCalls
      BY <2>1, WalletsAssumption DEF TopUpCalls, UserWallets, Wallets, Bank, Platform
  <2>2. CASE s \in TransferCalls \cup WithdrawalCalls
      BY <2>2, WalletsAssumption
         DEF TransferCalls, WithdrawalCalls, UserWallets, Wallets, Bank
  <2>3. CASE s \in EscrowCalls \cup FeeRefundCalls
      BY <2>3, WalletsAssumption
         DEF EscrowCalls, FeeRefundCalls, UserWallets, Wallets, Escrow
  <2>4. CASE s \in CashCalls \cup SettleCalls
      BY <2>4, WalletsAssumption
         DEF CashCalls, SettleCalls, UserWallets, Wallets, Escrow, Platform
  <2>5. CASE s \in ReversalCalls
    <3>1. PICK a \in UserWallets, b \in UserWallets, c \in UserWallets,
              systems \in {{}, {Bank}, {Bank, Platform}, {Escrow}, {Platform},
                           {Escrow, Platform}, {Escrow, Platform, Subsidy}} :
            s = <<{a, b, c, Receivable} \cup systems>>
      BY <2>5 DEF ReversalCalls
    <3>2. {a, b, c, Receivable} \in SUBSET Wallets
      BY WalletsAssumption DEF UserWallets, Wallets, Receivable
    <3>3. systems \in SUBSET Wallets
      BY WalletsAssumption, a \in UserWallets
         DEF UserWallets, Wallets, Bank, Platform, Escrow, Subsidy
    <3> QED
      BY <3>1, <3>2, <3>3
  <2>6. QED BY <1>1, <2>1, <2>2, <2>3, <2>4, <2>5 DEF OneCall
<1>3. QED BY <1>2

\* Before the first transaction nothing is locked.
LEMMA InitLocks == LocksInit => LocksInv
BY DEF LocksInit, LocksInv, LocksTypeOK, Ascending, Wanted

\* Every step leaves the types intact.
LEMMA NextLocksType ==
    ASSUME ~WithAdjustment, LocksTypeOK, LocksNext
    PROVE  LocksTypeOK'
<1>1. CASE \E t \in Txs, script \in Scripts : Begin(t, script)
    BY <1>1, ScriptsType DEF Begin, LocksTypeOK
<1>2. CASE \E t \in Txs, w \in Wallets : Lock(t, w)
    BY <1>2 DEF Lock, LocksTypeOK
<1>3. CASE \E t \in Txs : Return(t)
  <2>1. PICK t \in Txs : Return(t)
      BY <1>3
  <2>2. Tail(calls[t]) \in Seq(SUBSET Wallets)
      BY <2>1 DEF Return, LocksTypeOK
  <2>3. QED BY <2>1, <2>2 DEF Return, LocksTypeOK
<1>4. CASE \E t \in Txs : CommitTx(t) \/ AbortTx(t)
  <2>1. PICK t \in Txs : Close(t)
      BY <1>4 DEF CommitTx, AbortTx
  <2>2. <<>> \in Seq(SUBSET Wallets)
      BY EmptySeq
  <2>3. QED BY <2>1, <2>2 DEF Close, LocksTypeOK
<1>5. QED BY <1>1, <1>2, <1>3, <1>4 DEF LocksNext

\* Ascending, said of one transaction.
AscendingAt(t) ==
    /\ Len(calls[t]) <= 1
    /\ calls[t] = <<>> \/ held[t] \subseteq Head(calls[t])
    /\ \A h \in held[t], w \in Wanted(t) : h < w
    /\ ~active[t] => held[t] = {} /\ calls[t] = <<>>

\* A transaction that takes no part in a step keeps its part of Ascending.
LEMMA OthersAscending ==
    ASSUME NEW t \in Txs, AscendingAt(t),
           active'[t] = active[t], calls'[t] = calls[t], held'[t] = held[t]
    PROVE  AscendingAt(t)'
BY DEF AscendingAt, Wanted

\* Every step leaves the order of the locks intact.
LEMMA NextAscending ==
    ASSUME ~WithAdjustment, LocksInv, LocksNext
    PROVE  Ascending'
<1>0. SUFFICES ASSUME NEW t \in Txs PROVE AscendingAt(t)'
    BY DEF Ascending, AscendingAt, Wanted
<1>1. AscendingAt(t) /\ calls[t] \in Seq(SUBSET Wallets) /\ held[t] \subseteq Wallets
    BY DEF LocksInv, Ascending, AscendingAt, LocksTypeOK
<1>2. /\ active \in [Txs -> BOOLEAN]
      /\ calls \in [Txs -> Seq(SUBSET Wallets)]
      /\ held \in [Txs -> SUBSET Wallets]
    BY DEF LocksInv, LocksTypeOK
<1>3. Wallets \subseteq Nat
    BY DEF Wallets
<1>4. CASE \E u \in Txs, script \in Scripts : Begin(u, script)
  <2>1. PICK u \in Txs, script \in Scripts : Begin(u, script)
      BY <1>4
  <2>2. CASE u # t
      BY <2>1, <2>2, <1>1, <1>2, OthersAscending DEF Begin
  <2>3. CASE u = t
    <3>1. held'[t] = {} /\ calls'[t] = script /\ active'[t]
        BY <2>1, <2>3, <1>1, <1>2 DEF Begin, AscendingAt
    <3>2. Len(script) = 1
        BY ScriptsType
    <3>3. QED BY <3>1, <3>2 DEF AscendingAt
  <2>4. QED BY <2>2, <2>3
<1>5. CASE \E u \in Txs, w \in Wallets : Lock(u, w)
  <2>1. PICK u \in Txs, w \in Wallets : Lock(u, w)
      BY <1>5
  <2>2. CASE u # t
      BY <2>1, <2>2, <1>1, <1>2, OthersAscending DEF Lock
  <2>3. CASE u = t
    <3>1. /\ held'[t] = held[t] \cup {w}
          /\ calls'[t] = calls[t]
          /\ active'[t] = active[t]
        BY <2>1, <2>3, <1>2 DEF Lock
    <3>2. /\ w \in Wanted(t)
          /\ \A v \in Wanted(t) : w <= v
        BY <2>1, <2>3 DEF Lock, NextRow
    <3>3. calls[t] # <<>> /\ w \in Head(calls[t])
        BY <3>2 DEF Wanted
    <3>4. Wanted(t)' = Wanted(t) \ {w} /\ Wanted(t) \subseteq Nat
      <4>1. Head(calls[t]) \in SUBSET Wallets
          BY <1>1, <3>3
      <4>2. QED BY <4>1, <3>1, <3>3, <1>3 DEF Wanted
    <3>5. ASSUME NEW h \in held'[t], NEW v \in Wanted(t)'
          PROVE  h < v
      <4>1. CASE h \in held[t]
          BY <4>1, <3>4, <1>1 DEF AscendingAt
      <4>2. CASE h = w
          BY <4>2, <3>2, <3>4, <1>3
      <4>3. QED BY <4>1, <4>2, <3>1
    <3>6. QED BY <3>1, <3>3, <3>5, <1>1 DEF AscendingAt
  <2>4. QED BY <2>2, <2>3
<1>6. CASE \E u \in Txs : Return(u)
  <2>1. PICK u \in Txs : Return(u)
      BY <1>6
  <2>2. CASE u # t
      BY <2>1, <2>2, <1>1, <1>2, OthersAscending DEF Return
  <2>3. CASE u = t
    <3>1. /\ calls[t] # <<>>
          /\ calls'[t] = Tail(calls[t])
          /\ active'[t] = active[t] /\ held'[t] = held[t]
        BY <2>1, <2>3, <1>2 DEF Return
    <3>2. Len(calls[t]) = 1
      <4>1. Len(calls[t]) \in Nat /\ Len(calls[t]) # 0
          BY <3>1, <1>1, EmptySeq
      <4>2. Len(calls[t]) <= 1
          BY <1>1 DEF AscendingAt
      <4>3. \A n \in Nat : n # 0 /\ n <= 1 => n = 1
          OBVIOUS
      <4>4. QED BY <4>1, <4>2, <4>3, Zenon
    <3>3. Tail(calls[t]) = <<>>
      <4>1. Tail(calls[t]) \in Seq(SUBSET Wallets) /\ Len(Tail(calls[t])) = 0
          BY <3>1, <3>2, <1>1, HeadTailProperties
      <4>2. \A seq \in Seq(SUBSET Wallets) : seq # <<>> => Len(seq) \in Nat \ {0}
          BY EmptySeq
      <4>3. QED BY <4>1, <4>2
    <3>4. QED BY <3>1, <3>3, <1>1 DEF AscendingAt, Wanted
  <2>4. QED BY <2>2, <2>3
<1>7. CASE \E u \in Txs : CommitTx(u) \/ AbortTx(u)
  <2>1. PICK u \in Txs : Close(u)
      BY <1>7 DEF CommitTx, AbortTx
  <2>2. CASE u # t
      BY <2>1, <2>2, <1>1, <1>2, OthersAscending DEF Close
  <2>3. CASE u = t
    <3>1. held'[t] = {} /\ calls'[t] = <<>> /\ ~active'[t]
        BY <2>1, <2>3, <1>2 DEF Close
    <3>2. QED BY <3>1 DEF AscendingAt, Wanted
  <2>4. QED BY <2>2, <2>3
<1>8. QED BY <1>4, <1>5, <1>6, <1>7 DEF LocksNext

\* A non-empty set of wallets has a greatest one.
LEMMA GreatestWallet ==
    ASSUME NEW A \in SUBSET Wallets, A # {}
    PROVE  \E m \in A : \A w \in A : w <= m
<1> DEFINE T == {n \in Nat : \E w \in A : w + n = LastWallet}
<1>1. T \subseteq Nat /\ T # {}
  <2>1. PICK w \in A : w \in 1 .. LastWallet
      BY DEF Wallets
  <2>2. LastWallet - w \in Nat /\ w + (LastWallet - w) = LastWallet
      BY <2>1, WalletsAssumption
  <2>3. QED BY <2>1, <2>2
<1>2. PICK x \in T : \A y \in T : ~ (<<y, x>> \in OpToRel(<, Nat))
  <2> HIDE DEF T
  <2>1. QED BY <1>1, WFMin, NatLessThanWellFounded
<1>3. ASSUME NEW y \in T
      PROVE  x <= y
  <2>1. x \in Nat /\ y \in Nat
      OBVIOUS
  <2>2. ~ (y < x)
      BY <2>1, <1>2 DEF OpToRel
  <2>3. QED BY <2>1, <2>2
<1>4. PICK m \in A : m + x = LastWallet
    OBVIOUS
<1>5. ASSUME NEW w \in A
      PROVE  w <= m
  <2>1. w \in Nat /\ w <= LastWallet /\ m \in Nat /\ x \in Nat
      BY WalletsAssumption DEF Wallets
  <2>2. LastWallet - w \in Nat /\ w + (LastWallet - w) = LastWallet
      BY <2>1, WalletsAssumption
  <2>3. LastWallet - w \in T
      BY <2>2
  <2>4. x <= LastWallet - w
      BY <2>3, <1>3
  <2>5. QED BY <2>1, <2>4, <1>4, WalletsAssumption
<1>6. QED BY <1>5

\* Where locks are taken in ascending order no set of transactions is stuck.
LEMMA AscendingNoDeadlock == LocksInv => NoDeadlock
<1>0. SUFFICES ASSUME LocksInv, NEW S \in SUBSET Txs, S # {}, Deadlocked(S)
               PROVE  FALSE
    BY DEF NoDeadlock
<1> DEFINE A == {w \in Wallets : \E t \in S : NextRow(t, w)}
<1>1. \A t \in Txs : Wanted(t) \subseteq Wallets /\ held[t] \subseteq Wallets
  <2>1. SUFFICES ASSUME NEW t \in Txs PROVE Wanted(t) \subseteq Wallets
      BY <1>0 DEF LocksInv, LocksTypeOK
  <2>2. calls[t] # <<>> => Head(calls[t]) \in SUBSET Wallets
      BY <1>0, HeadTailProperties DEF LocksInv, LocksTypeOK
  <2>3. QED BY <2>2 DEF Wanted
<1>2. A # {}
    BY <1>0, <1>1 DEF Deadlocked, Waits, NextRow
<1>3. PICK m \in A : \A w \in A : w <= m
  <2> HIDE DEF A
  <2>1. A \in SUBSET Wallets
      BY DEF A
  <2>2. QED BY <2>1, <1>2, GreatestWallet
<1>4. PICK t \in S : NextRow(t, m)
    OBVIOUS
<1>5. PICK u \in S : \E w \in held[u] : NextRow(t, w)
    BY <1>0 DEF Deadlocked, Waits
<1>6. m \in held[u]
    BY <1>4, <1>5, <1>1 DEF NextRow, Wallets
<1>7. PICK v \in Wallets : NextRow(u, v)
    BY <1>0, <1>1 DEF Deadlocked, Waits, NextRow
<1>8. m < v
    BY <1>0, <1>6, <1>7 DEF LocksInv, Ascending, NextRow
<1>9. v <= m
    BY <1>3, <1>7
<1>10. QED BY <1>8, <1>9 DEF Wallets

\* Every reachable state keeps the order of the locks (lockWalletsAsc).
THEOREM LocksAscend ==
    ASSUME ~WithAdjustment
    PROVE  LocksSpec => []LocksInv
<1>1. LocksInit => LocksInv
    BY InitLocks
<1>2. LocksInv /\ [LocksNext]_locksVars => LocksInv'
  <2>1. SUFFICES ASSUME LocksInv, [LocksNext]_locksVars PROVE LocksInv'
      OBVIOUS
  <2>2. CASE LocksNext
      BY <2>1, <2>2, NextLocksType, NextAscending DEF LocksInv
  <2>3. CASE UNCHANGED locksVars
      BY <2>1, <2>3 DEF locksVars, LocksInv, LocksTypeOK, Ascending, Wanted
  <2>4. QED BY <2>1, <2>2, <2>3
<1>3. QED BY <1>1, <1>2, PTL DEF LocksSpec

\* Transactions that make a single lock call never deadlock, however many of
\* them there are and whichever wallets they lock.
THEOREM LocksNoDeadlock ==
    ASSUME ~WithAdjustment
    PROVE  LocksSpec => []NoDeadlock
<1>1. LocksSpec => []LocksInv
    BY LocksAscend
<1>2. QED BY <1>1, AscendingNoDeadlock, PTL

-----------------------------------------------------------------------------
(* The lockout *)

\* The places failures are counted in.  A request that locks has one of its
\* own, and so has one that stopped, that could not count its failure, or that
\* passed the check or failed to count in the row by an error; the counter in
\* Redis has one for its first failure and one per further failure for every
\* other of its lives, called even and odd; a counter that was lost leaves its
\* places behind, and the row has its own, used only in an outage.
Slots ==
    ({"locked"} \X Requests)
    \cup ({"stopped"} \X (1..stopped))
    \cup ({"lost"} \X ((1..losses) \X (1..(MaxFailed - 1))))
    \cup ((IF outage THEN {"alone"} ELSE {}) \X (1..(MaxFailed - 1)))
    \cup {<<"first", 0>>}
    \cup ({"even", "odd"} \X (2..(MaxFailed - 1)))

Other(life) == IF life = "even" THEN "odd" ELSE "even"

\* A request that has still to write the lock it owes to the row.
Pending(r) ==
    \/ there /\ (At(r, "setFlag") \/ At(r, "persist"))
    \/ At(r, "upsert") /\ Reached(req[r].count)

\* A statement of the request fails, or it stops, with its failure counted.
Slips(r) == Stop(r) \/ CheckPGFails(r) \/ UpsertFails(r)

\* Failure i is lockoutDuration or more before time t.
Past(i, t) == failed[i] + Duration <= t

\* Failure i, counted for request r, is over, is covered by the lock of the row,
\* or has its lock still to come; a request that passed the check found it over.
Answered(i, r) ==
    /\ Past(i, row.until) \/ Past(i, now) \/ Pending(r)
    /\ At(r, "compare") => Past(i, now)

\* What is known of failure i, counted in slot s, while the counter in Redis is
\* in the life that began at time birth.
Counted(i, s, life, birth) ==
    /\ \A r \in Requests : s = <<"locked", r>> => Answered(i, r)
    /\ \A n \in 1..MaxFailed : s = <<"alone", n>> => n <= row.n
    /\ s = <<"first", 0>> =>
          Past(i, birth) \/ (failed[i] = birth /\ counter.n > 0)
    /\ \A n \in 1..MaxFailed : s = <<life, n>> =>
          Past(i, birth) \/ (failed[i] >= birth /\ n <= counter.n)
    /\ \A n \in 1..MaxFailed : s = <<Other(life), n>> => failed[i] < birth

\* Failures counted in one slot are lockoutDuration apart.
Apart(slot) ==
    \A i, j \in DOMAIN failed : i < j /\ slot[i] = slot[j] => Past(i, failed[j])

Assigned(slot, life, birth) ==
    /\ slot \in [DOMAIN failed -> Slots]
    /\ Apart(slot)
    /\ \A i \in DOMAIN failed : Counted(i, slot[i], life, birth)

\* The counter in Redis, if there is one, lives for lockoutDuration.
Life(life, birth) ==
    /\ life \in {"even", "odd"}
    /\ birth \in 0..now
    /\ counter.n > 0 => birth + Duration <= counter.until

\* Every failure has its slot.
Slotted ==
    \E life \in {"even", "odd"}, birth \in 0..now :
        /\ Life(life, birth)
        /\ \E slot \in [DOMAIN failed -> Slots] : Assigned(slot, life, birth)

\* The inductive invariant.
LockoutInv ==
    /\ LockoutTypeOK
    /\ up \/ outage
    /\ \A i \in DOMAIN failed : failed[i] <= now
    /\ Slotted

\* At first nothing has failed and no lock is set.
LEMMA LockoutInitInv == LockoutInit => LocksEnd /\ LockoutInv
<1> SUFFICES ASSUME LockoutInit PROVE LocksEnd /\ LockoutInv
  OBVIOUS
<1> USE LockoutAssumption
<1>1. LockoutTypeOK
  <2>1. <<>> \in Seq(0..Horizon)
    OBVIOUS
  <2>2. Zero \in Count /\ Idle \in Request
    BY DEF Count, Zero, Request, Idle, LockoutSteps
  <2>3. up \in BOOLEAN /\ outage \in BOOLEAN /\ there \in BOOLEAN
    BY DEF LockoutInit
  <2>4. now \in 0..Horizon /\ flag \in Nat /\ losses \in 0..MaxLosses /\ stopped \in 0..MaxStops
    BY DEF LockoutInit
  <2>5. req \in [Requests -> Request]
    BY <2>2 DEF LockoutInit
  <2>6. counter \in Count /\ row \in Count
    BY <2>2 DEF LockoutInit
  <2>7. failed \in Seq(0..Horizon)
    BY <2>1 DEF LockoutInit
  <2> QED
    BY <2>3, <2>4, <2>5, <2>6, <2>7 DEF LockoutTypeOK
<1>2. LocksEnd
  BY <1>1 DEF LockoutInit, LocksEnd, Zero, Idle, At
<1>3. DOMAIN failed = {}
  BY DEF LockoutInit
<1>4. Slotted
  <2>1. Life("even", 0)
    BY DEF LockoutInit, Life, Zero
  <2>2. PICK slot : slot = [i \in DOMAIN failed |-> <<"first", 0>>]
    OBVIOUS
  <2>3. slot \in [DOMAIN failed -> Slots]
    BY <1>3, <2>2
  <2>4. Assigned(slot, "even", 0)
    BY <1>3, <2>3 DEF Assigned, Apart
  <2>5. 0 \in 0..now
    BY DEF LockoutInit
  <2> QED
    BY <2>1, <2>3, <2>4, <2>5 DEF Slotted
<1> QED
  BY <1>1, <1>2, <1>3, <1>4 DEF LockoutInit, LockoutInv

\* Every step keeps the types of the state.
LEMMA LockoutTypes ==
    ASSUME LockoutTypeOK, [LockoutNext]_lockoutVars
    PROVE  LockoutTypeOK'
<1> USE LockoutAssumption DEF LockoutTypeOK, table
<1>0. /\ Idle \in Request
      /\ Zero \in Count
      /\ Forever \in Nat
      /\ \A n \in 0..MaxFailed : OneMore(n) \in 0..MaxFailed
      /\ \A until \in Nat : LockUntil(until) \in Nat
  BY DEF Idle, Request, LockoutSteps, Zero, Count, Forever, OneMore, LockUntil
<1>1. ASSUME NEW r \in Requests, NEW step \in LockoutSteps, Go(r, step)
      PROVE  req' \in [Requests -> Request]
  BY <1>1 DEF Go, Request
<1>2. ASSUME NEW r \in Requests, End(r)
      PROVE  req' \in [Requests -> Request]
  BY <1>0, <1>2 DEF End
<1>3. CASE LockoutNext
  <2>1. CASE Tick
    BY <1>0, <2>1 DEF Tick, faults
  <2>2. CASE Unreachable \/ Reachable \/ LoseKeys
    <3>1. CASE Unreachable \/ Reachable
      BY <3>1 DEF Unreachable, Reachable, faults
    <3>2. CASE LoseKeys
      BY <1>0, <3>2 DEF LoseKeys
    <3> QED
      BY <2>2, <3>1, <3>2
  <2>3. ASSUME NEW r \in Requests, CheckRedis(r)
        PROVE  LockoutTypeOK'
    <3>1. [at |-> "checkPG", since |-> now, count |-> 0] \in Request
      BY DEF Request, LockoutSteps
    <3> QED
      BY <2>3, <3>1 DEF CheckRedis, faults
  <2>4. ASSUME NEW r \in Requests, CheckPG(r) \/ CheckPGFails(r) \/ Refuse(r) \/ Stop(r)
        PROVE  LockoutTypeOK'
    <3>1. "compare" \in LockoutSteps
      BY DEF LockoutSteps
    <3>2. req' \in [Requests -> Request]
      BY <1>1, <1>2, <2>4, <3>1 DEF CheckPG, CheckPGFails, Refuse, Stop
    <3> QED
      BY <2>4, <3>2 DEF CheckPG, CheckPGFails, Refuse, Stop, Failing, faults
  <2>5. ASSUME NEW r \in Requests, RecordFailedAttempt(r)
        PROVE  LockoutTypeOK'
    <3>1. failed' \in Seq(0..Horizon)
      BY <2>5 DEF RecordFailedAttempt
    <3>2. CASE CountFailure(r)
      <4>1. counter' \in Count
        BY <1>0, <3>2 DEF CountFailure, Count
      <4>2. req' \in [Requests -> Request]
        BY <1>0, <3>2 DEF CountFailure, Count, Request, LockoutSteps
      <4> QED
        BY <2>5, <3>1, <3>2, <4>1, <4>2 DEF RecordFailedAttempt, CountFailure, faults
    <3>3. CASE CountFailurePG(r)
      <4>1. row' \in Count /\ there' \in BOOLEAN
        BY <1>0, <3>3 DEF CountFailurePG, UpsertRow, Count
      <4>2. "persist" \in LockoutSteps
        BY DEF LockoutSteps
      <4>3. req' \in [Requests -> Request]
        BY <1>1, <1>2, <3>3, <4>2 DEF CountFailurePG
      <4> QED
        BY <2>5, <3>1, <3>3, <4>1, <4>3 DEF RecordFailedAttempt, CountFailurePG, faults
    <3> QED
      BY <2>5, <3>2, <3>3 DEF RecordFailedAttempt
  <2>6. ASSUME NEW r \in Requests, Expire(r)
        PROVE  LockoutTypeOK'
    <3>1. "upsert" \in LockoutSteps
      BY DEF LockoutSteps
    <3>2. counter' \in Count
      BY <2>6 DEF Expire, Count
    <3> QED
      BY <1>1, <2>6, <3>1, <3>2 DEF Expire, faults
  <2>7. ASSUME NEW r \in Requests, Upsert(r) \/ UpsertFails(r)
        PROVE  LockoutTypeOK'
    <3>1. "setFlag" \in LockoutSteps
      BY DEF LockoutSteps
    <3>2. row' \in Count /\ there' \in BOOLEAN
      BY <1>0, <2>7 DEF Upsert, UpsertFails, UpsertRow, Count
    <3>3. req' \in [Requests -> Request]
      BY <1>1, <1>2, <2>7, <3>1 DEF Upsert, UpsertFails, AfterUpsert
    <3> QED
      BY <2>7, <3>2, <3>3 DEF Upsert, UpsertFails, Failing, faults
  <2>8. ASSUME NEW r \in Requests, SetFlag(r) \/ Persist(r)
        PROVE  LockoutTypeOK'
    <3>1. "persist" \in LockoutSteps
      BY DEF LockoutSteps
    <3>2. flag \in Nat /\ row.until \in Nat
      BY DEF Count
    <3>3. flag' \in Nat /\ row' \in Count
      BY <1>0, <2>8, <3>2 DEF SetFlag, Persist, Count
    <3>4. req' \in [Requests -> Request]
      BY <1>1, <1>2, <2>8, <3>1 DEF SetFlag, Persist
    <3> QED
      BY <2>8, <3>3, <3>4 DEF SetFlag, Persist, faults
  <2>9. ASSUME NEW r \in Requests, Succeed(r) \/ ClearCounter(r) \/ ClearFlag(r) \/ ClearRow(r)
        PROVE  LockoutTypeOK'
    <3>1. {"clearCounter", "clearFlag", "clearRow"} \subseteq LockoutSteps
      BY DEF LockoutSteps
    <3>2. req' \in [Requests -> Request]
      BY <1>1, <1>2, <2>9, <3>1 DEF Succeed, ClearCounter, ClearFlag, ClearRow
    <3>3. <<>> \in Seq(0..Horizon)
      OBVIOUS
    <3>4. CASE Succeed(r)
      BY <3>2, <3>4 DEF Succeed, faults
    <3>5. CASE ClearCounter(r)
      BY <1>0, <3>2, <3>3, <3>5 DEF ClearCounter, faults
    <3>6. CASE ClearFlag(r)
      BY <3>2, <3>3, <3>6 DEF ClearFlag, faults
    <3>7. CASE ClearRow(r)
      BY <1>0, <3>2, <3>3, <3>7 DEF ClearRow, faults
    <3> QED
      BY <2>9, <3>4, <3>5, <3>6, <3>7
  <2>10. ASSUME NEW r \in Requests, RecordFails(r)
         PROVE  LockoutTypeOK'
    <3>1. failed' \in Seq(0..Horizon)
      BY <2>10 DEF RecordFails
    <3> QED
      BY <1>2, <2>10, <3>1 DEF RecordFails, Failing
  <2> QED
    BY <1>3, <2>1, <2>2, <2>3, <2>4, <2>5, <2>6, <2>7, <2>8, <2>9, <2>10 DEF LockoutNext
<1>4. CASE UNCHANGED lockoutVars
  BY <1>4 DEF lockoutVars, faults
<1> QED
  BY <1>3, <1>4

\* Every step leaves no lock longer than lockoutDuration.
LEMMA NextLocksEnd ==
    ASSUME LocksEnd, [LockoutNext]_lockoutVars
    PROVE  LocksEnd'
<1> USE LockoutAssumption DEF table
<1>1. LockoutTypeOK /\ LockoutTypeOK'
  BY LockoutTypes DEF LocksEnd
<1>2. /\ now \in 0..Horizon /\ now' \in 0..Horizon
      /\ flag \in Nat /\ row.until \in Nat /\ counter.until \in Nat
      /\ row \in Count /\ counter \in Count
      /\ req \in [Requests -> Request]
      /\ \A r \in Requests : req[r].since \in Nat
  BY <1>1 DEF LockoutTypeOK, Count, Request
<1> DEFINE Locks == /\ flag <= now + Duration
                    /\ row.until <= now + Duration
                    /\ counter.until <= now + Duration \/ counter.until = Forever
           Lasted(q) == now - req[q].since \in 0..RequestTime
<1>3. Locks'
  <2>1. CASE LockoutNext
    <3>1. CASE Tick
      BY <1>2, <3>1 DEF Tick, LocksEnd, Zero
    <3>2. CASE Unreachable \/ Reachable \/ LoseKeys
      BY <1>2, <3>2 DEF Unreachable, Reachable, LoseKeys, LocksEnd, Zero
    <3>3. ASSUME NEW r \in Requests,
                 \/ CheckRedis(r) \/ CheckPG(r) \/ Refuse(r) \/ Succeed(r)
                 \/ Slips(r) \/ RecordFails(r)
          PROVE  Locks'
      BY <1>2, <3>3 DEF CheckRedis, CheckPG, Refuse, Succeed, Slips, Stop, CheckPGFails,
                        UpsertFails, RecordFails, LocksEnd
    <3>4. ASSUME NEW r \in Requests, RecordFailedAttempt(r)
          PROVE  Locks'
      BY <1>2, <3>4 DEF RecordFailedAttempt, CountFailure, CountFailurePG, UpsertRow,
                        Count, LocksEnd
    <3>5. ASSUME NEW r \in Requests, Expire(r) \/ Upsert(r)
          PROVE  Locks'
      BY <1>2, <3>5 DEF Expire, Upsert, UpsertRow, Count, LocksEnd
    <3>6. ASSUME NEW r \in Requests, SetFlag(r) \/ Persist(r)
          PROVE  Locks'
      BY <1>2, <3>6 DEF SetFlag, Persist, LockUntil, Count, LocksEnd
    <3>7. ASSUME NEW r \in Requests, ClearCounter(r) \/ ClearFlag(r) \/ ClearRow(r)
          PROVE  Locks'
      BY <1>2, <3>7 DEF ClearCounter, ClearFlag, ClearRow, Zero, LocksEnd
    <3> QED
      BY <2>1, <3>1, <3>2, <3>3, <3>4, <3>5, <3>6, <3>7 DEF LockoutNext, Slips
  <2>2. CASE UNCHANGED lockoutVars
    BY <2>2 DEF lockoutVars, LocksEnd
  <2> QED
    BY <2>1, <2>2
<1>4. ASSUME NEW q \in Requests, ~At(q, "idle")'
      PROVE  Lasted(q)'
  <2>0. ~At(q, "idle") => Lasted(q)
    BY DEF LocksEnd
  <2>1. ASSUME now' = now, req'[q] = req[q]
        PROVE  Lasted(q)'
    BY <1>4, <2>0, <2>1 DEF At
  <2>2. ASSUME now' = now, NEW r \in Requests, ~At(r, "idle"),
               \/ End(r)
               \/ \E step : Go(r, step)
        PROVE  Lasted(q)'
    BY <1>2, <1>4, <2>0, <2>2 DEF At, End, Go, Idle, Request
  <2>3. CASE LockoutNext
    <3>1. CASE Tick
      BY <1>2, <1>4, <2>0, <3>1 DEF Tick, At
    <3>2. CASE Unreachable \/ Reachable \/ LoseKeys
      BY <2>1, <3>2 DEF Unreachable, Reachable, LoseKeys
    <3>3. ASSUME NEW r \in Requests, CheckRedis(r)
          PROVE  Lasted(q)'
      BY <1>2, <1>4, <2>0, <3>3 DEF CheckRedis, At
    <3>4. ASSUME NEW r \in Requests,
                 CheckPG(r) \/ Refuse(r) \/ Succeed(r) \/ Slips(r) \/ RecordFails(r)
          PROVE  Lasted(q)'
      BY <2>2, <3>4 DEF CheckPG, Refuse, Succeed, Slips, Stop, CheckPGFails, UpsertFails,
                        AfterUpsert, RecordFails, At
    <3>5. ASSUME NEW r \in Requests, RecordFailedAttempt(r)
          PROVE  Lasted(q)'
      <4>1. CASE CountFailure(r)
        BY <1>2, <1>4, <2>0, <3>5, <4>1 DEF RecordFailedAttempt, CountFailure, At, Request
      <4>2. CASE CountFailurePG(r)
        BY <2>2, <3>5, <4>2 DEF RecordFailedAttempt, CountFailurePG, At
      <4> QED
        BY <3>5, <4>1, <4>2 DEF RecordFailedAttempt
    <3>6. ASSUME NEW r \in Requests, Expire(r) \/ Upsert(r) \/ SetFlag(r) \/ Persist(r)
          PROVE  Lasted(q)'
      BY <2>2, <3>6 DEF Expire, Upsert, AfterUpsert, SetFlag, Persist, At
    <3>7. ASSUME NEW r \in Requests, ClearCounter(r) \/ ClearFlag(r) \/ ClearRow(r)
          PROVE  Lasted(q)'
      BY <2>2, <3>7 DEF ClearCounter, ClearFlag, ClearRow, At
    <3> QED
      BY <2>3, <3>1, <3>2, <3>3, <3>4, <3>5, <3>6, <3>7 DEF LockoutNext, Slips
  <2>4. CASE UNCHANGED lockoutVars
    BY <2>1, <2>4 DEF lockoutVars
  <2> QED
    BY <2>3, <2>4
<1> QED
  BY <1>1, <1>3, <1>4 DEF LocksEnd

\* No lock outlives lockoutDuration.
THEOREM LockoutLocksEnd == LockoutSpec => []LocksEnd
<1>1. LockoutInit => LocksEnd
  BY LockoutInitInv
<1>2. LocksEnd /\ [LockoutNext]_lockoutVars => LocksEnd'
  BY NextLocksEnd
<1> QED
  BY <1>1, <1>2, PTL DEF LockoutSpec

\* The numbers of a state.
LEMMA Numbers ==
    ASSUME LockoutTypeOK
    PROVE  /\ now \in Nat /\ flag \in Nat /\ losses \in Nat /\ stopped \in Nat
           /\ counter.n \in 0..MaxFailed /\ counter.until \in Nat
           /\ row.n \in 0..MaxFailed /\ row.until \in Nat
           /\ failed \in Seq(Nat) /\ DOMAIN failed = 1..Len(failed) /\ Len(failed) \in Nat
           /\ \A i \in DOMAIN failed : failed[i] \in Nat
           /\ \A r \in Requests : req[r] \in Request /\ req[r].count \in 0..MaxFailed
           /\ MaxFailed \in Nat /\ MaxFailed > 1 /\ Duration \in Nat /\ Duration > 0
<1> USE LockoutAssumption
<1>1. failed \in Seq(Nat)
  BY DEF LockoutTypeOK
<1> QED
  BY <1>1 DEF LockoutTypeOK, Count, Request

\* There are never fewer slots.
LEMMA SlotsGrow ==
    ASSUME LockoutTypeOK, LockoutTypeOK', losses <= losses', stopped <= stopped',
           outage => outage',
           NEW s \in Slots
    PROVE  s \in Slots'
<1>1. 1..losses \subseteq 1..losses' /\ 1..stopped \subseteq 1..stopped'
  BY DEF LockoutTypeOK
<1>2. (IF outage THEN {"alone"} ELSE {}) \subseteq (IF outage THEN {"alone"} ELSE {})'
  OBVIOUS
<1> QED
  BY <1>1, <1>2, Zenon DEF Slots

\* A failure counted for a request stays answered by every step but the
\* request's own slip.
LEMMA AnsweredKept ==
    ASSUME LockoutTypeOK, LockoutTypeOK', [LockoutNext]_lockoutVars,
           NEW r \in Requests, ~Slips(r),
           NEW i \in DOMAIN failed, i \in DOMAIN failed', failed'[i] = failed[i],
           failed[i] <= now, Answered(i, r)
    PROVE  Answered(i, r)'
<1> USE Numbers DEF table
<1>0. /\ now \in Nat /\ failed[i] \in Nat /\ row.until \in Nat
      /\ Duration \in Nat
      /\ req \in [Requests -> Request]
  BY DEF LockoutTypeOK
<1> USE <1>0
<1>1. ASSUME now' = now, row' = row, there => there', req'[r] = req[r]
      PROVE  Answered(i, r)'
  BY <1>1 DEF Answered, Past, Pending, At
<1>2. ASSUME now' = now, row'.until = row.until, ~Pending(r), ~At(r, "compare")'
      PROVE  Answered(i, r)'
  BY <1>2 DEF Answered, Past
<1>3. CASE LockoutNext
  <2>1. CASE Tick
    <3>1. now' = now + 1 /\ row' = row /\ there' = there /\ req' = req
      BY <2>1 DEF Tick
    <3>2. now' \in Nat
      BY <3>1
    <3> QED
      BY <3>1, <3>2 DEF Answered, Past, Pending, At
  <2>2. CASE Unreachable \/ Reachable \/ LoseKeys
    BY <1>1, <2>2 DEF Unreachable, Reachable, LoseKeys
  <2>3. ASSUME NEW q \in Requests, q # r,
               \/ CheckRedis(q) \/ CheckPG(q) \/ Refuse(q) \/ Slips(q)
               \/ Succeed(q) \/ Expire(q) \/ SetFlag(q) \/ RecordFails(q)
        PROVE  Answered(i, r)'
    BY <1>1, <2>3 DEF CheckRedis, CheckPG, Refuse, Slips, Stop, CheckPGFails, UpsertFails,
                      AfterUpsert, Succeed, Expire, SetFlag, RecordFails, Go, End
  <2>4. CASE CheckRedis(r)
    BY <1>2, <2>4 DEF CheckRedis, Pending, At
  <2>5. CASE CheckPG(r)
    <3>1. now' = now /\ row' = row /\ ~Pending(r)
      BY <2>5 DEF CheckPG, Pending, At
    <3>2. CASE RowLocked
      BY <1>2, <2>5, <3>1, <3>2 DEF CheckPG, End, Idle, At
    <3>3. CASE ~RowLocked
      <4>1. Past(i, now)
        BY <3>1, <3>3 DEF RowLocked, Answered, Past
      <4> QED
        BY <3>1, <4>1 DEF Answered, Past
    <3> QED
      BY <3>2, <3>3
  <2>6. CASE Refuse(r) \/ Succeed(r)
    <3>1. now' = now /\ row' = row /\ ~Pending(r) /\ ~At(r, "compare")'
      <4>1. CASE Refuse(r)
        BY <4>1 DEF Refuse, Pending, At, End, Idle
      <4>2. CASE Succeed(r)
        BY <4>2 DEF Succeed, Pending, At, Go
      <4> QED
        BY <2>6, <4>1, <4>2
    <3> QED
      BY <1>2, <3>1
  <2>7. CASE Expire(r)
    <3>1. now' = now /\ row' = row /\ ~Pending(r) /\ ~At(r, "compare")'
      BY <2>7 DEF Expire, Pending, At, Go
    <3> QED
      BY <1>2, <3>1
  <2>8. CASE SetFlag(r)
    <3>1. /\ Pending(r) => Pending(r)'
          /\ ~At(r, "compare")'
          /\ now' = now /\ row' = row
      BY <2>8 DEF SetFlag, Pending, At, Go
    <3> QED
      BY <3>1 DEF Answered, Past
  <2>9. ASSUME NEW q \in Requests, Upsert(q)
        PROVE  Answered(i, r)'
    <3>1. now' = now /\ row'.until = row.until /\ there'
      BY <2>9 DEF Upsert, UpsertRow, LockoutTypeOK, Count
    <3>2. CASE q # r
      <4>1. req'[r] = req[r]
        BY <2>9, <3>2 DEF Upsert, AfterUpsert, Go, End
      <4> QED
        BY <3>1, <4>1 DEF Answered, Past, Pending, At
    <3>3. CASE q = r /\ Reached(req[r].count)
      <4>1. Go(r, "setFlag")
        BY <2>9, <3>3, Zenon DEF Upsert, AfterUpsert
      <4>2. Pending(r)' /\ ~At(r, "compare")'
        BY <3>1, <4>1 DEF Pending, At, Go
      <4> QED
        BY <4>2 DEF Answered
    <3>4. CASE q = r /\ ~Reached(req[r].count)
      <4>1. ~Pending(r) /\ ~At(r, "compare")'
        BY <2>9, <3>4 DEF Upsert, AfterUpsert, Pending, At, End, Idle
      <4> QED
        BY <1>2, <3>1, <4>1
    <3> QED
      BY <3>2, <3>3, <3>4
  <2>10. ASSUME NEW q \in Requests, Persist(q)
         PROVE  Answered(i, r)'
    <3>1. now' = now /\ there' = there
      BY <2>10 DEF Persist
    <3>2. CASE there
      <4>1. row'.until = now + Duration
        BY <2>10, <3>2 DEF Persist, LockUntil, LockoutTypeOK, Count
      <4>2. Past(i, row.until)'
        BY <4>1 DEF Past
      <4>3. At(r, "compare")' => At(r, "compare")
        BY <2>10 DEF Persist, At, End, Idle
      <4> QED
        BY <3>1, <4>2, <4>3 DEF Answered, Past
    <3>3. CASE ~there
      <4>1. row' = row
        BY <2>10, <3>3 DEF Persist
      <4>2. q # r => req'[r] = req[r]
        BY <2>10 DEF Persist, End
      <4>3. q = r => ~Pending(r) /\ ~At(r, "compare")'
        BY <2>10, <3>3 DEF Persist, Pending, At, End, Idle
      <4> QED
        BY <1>1, <1>2, <3>1, <4>1, <4>2, <4>3
    <3> QED
      BY <3>2, <3>3
  <2>11. ASSUME NEW q \in Requests, RecordFailedAttempt(q)
         PROVE  Answered(i, r)'
    <3>1. now' = now /\ row'.until = row.until /\ (there => there')
      BY <2>11 DEF RecordFailedAttempt, CountFailure, CountFailurePG, UpsertRow,
                   LockoutTypeOK, Count
    <3>2. CASE q # r
      <4>1. req'[r] = req[r]
        BY <2>11, <3>2 DEF RecordFailedAttempt, CountFailure, CountFailurePG, Go, End
      <4> QED
        BY <3>1, <4>1 DEF Answered, Past, Pending, At
    <3>3. CASE q = r
      <4>1. Past(i, now)
        BY <2>11, <3>3 DEF RecordFailedAttempt, Answered
      <4> QED
        BY <3>1, <4>1 DEF Answered, Past
    <3> QED
      BY <3>2, <3>3
  <2>12. ASSUME NEW q \in Requests, ClearCounter(q) \/ ClearFlag(q) \/ ClearRow(q)
         PROVE  FALSE
    <3>1. failed' = <<>>
      BY <2>12 DEF ClearCounter, ClearFlag, ClearRow
    <3> QED
      BY <3>1
  <2>13. CASE RecordFails(r)
    <3>1. now' = now /\ Past(i, now)
      BY <2>13 DEF RecordFails, Answered
    <3> QED
      BY <3>1 DEF Answered, Past
  <2> QED
    BY <1>3, <2>1, <2>2, <2>3, <2>4, <2>5, <2>6, <2>7, <2>8, <2>9, <2>10, <2>11, <2>12,
       <2>13
    DEF LockoutNext, Slips
<1>4. CASE UNCHANGED lockoutVars
  BY <1>1, <1>4 DEF lockoutVars
<1> QED
  BY <1>3, <1>4

\* What is known of a failure stays known while the counters only grow.
LEMMA CountedKept ==
    ASSUME LockoutTypeOK, LockoutTypeOK',
           NEW i \in DOMAIN failed, failed'[i] = failed[i],
           NEW s, NEW life, NEW birth, Counted(i, s, life, birth),
           \A r \in Requests : Answered(i, r) => Answered(i, r)',
           row.n <= row'.n, counter.n <= counter'.n
    PROVE  Counted(i, s, life, birth)'
<1>1. \A n \in 1..MaxFailed : n <= row.n => n <= row'.n
  BY Numbers, LockoutTypeOK' DEF LockoutTypeOK, Count
<1>2. \A n \in 1..MaxFailed : n <= counter.n => n <= counter'.n
  BY Numbers DEF LockoutTypeOK, Count
<1>3. counter.n > 0 => counter'.n > 0
  BY Numbers DEF LockoutTypeOK, Count
<1> QED
  BY <1>1, <1>2, <1>3 DEF Counted, Past

\* A step that counts and clears nothing, and ends no life of the counter.
LEMMA StillSlotted ==
    ASSUME LockoutInv, LockoutTypeOK',
           UNCHANGED failed, now <= now',
           losses <= losses', stopped <= stopped', outage => outage',
           row.n <= row'.n, counter.n <= counter'.n,
           counter'.n > 0 =>
              counter.n > 0 /\ (counter.until <= counter'.until \/ now + Duration <= counter'.until),
           \A r \in Requests, i \in DOMAIN failed : Answered(i, r) => Answered(i, r)'
    PROVE  Slotted'
<1>0. LockoutTypeOK
  BY DEF LockoutInv
<1>1. PICK life \in {"even", "odd"}, birth \in 0..now, slot \in [DOMAIN failed -> Slots] :
         Life(life, birth) /\ Assigned(slot, life, birth)
  BY DEF LockoutInv, Slotted
<1>2. now \in Nat /\ now' \in Nat /\ Duration \in Nat /\ birth \in 0..now'
  BY <1>0, Numbers, LockoutTypeOK' DEF LockoutTypeOK
<1>3. Life(life, birth)'
  <2>1. counter.until \in Nat /\ counter'.until \in Nat
    BY <1>0 DEF LockoutTypeOK, Count
  <2> QED
    BY <1>1, <1>2, <2>1 DEF Life
<1>4. slot \in [DOMAIN failed -> Slots]'
  BY <1>0, <1>1, SlotsGrow
<1>5. Apart(slot)'
  BY <1>1 DEF Assigned, Apart, Past
<1>6. ASSUME NEW i \in DOMAIN failed
      PROVE  Counted(i, slot[i], life, birth)'
  <2>1. Counted(i, slot[i], life, birth)
    BY <1>1 DEF Assigned
  <2> QED
    BY <1>0, <2>1, CountedKept
<1>7. Assigned(slot, life, birth)'
  BY <1>4, <1>5, <1>6 DEF Assigned
<1> QED
  BY <1>2, <1>3, <1>4, <1>7 DEF Slotted

\* After a success there is nothing to count.
LEMMA EmptySlotted ==
    ASSUME LockoutInv, LockoutTypeOK', failed' = <<>>, now' = now,
           counter' = counter \/ counter' = Zero
    PROVE  Slotted'
<1>1. PICK life \in {"even", "odd"}, birth \in 0..now : Life(life, birth)
  BY DEF LockoutInv, Slotted
<1>2. Life(life, birth)'
  BY <1>1 DEF Life, Zero
<1>3. (DOMAIN failed)' = {}
  OBVIOUS
<1>4. PICK slot : slot = [i \in {} |-> <<"first", 0>>]
  OBVIOUS
<1>5. slot \in [DOMAIN failed -> Slots]'
  BY <1>3, <1>4
<1>6. Assigned(slot, life, birth)'
  BY <1>3, <1>5 DEF Assigned, Apart
<1> QED
  BY <1>2, <1>5, <1>6 DEF Slotted

\* One more failure, counted in a slot whose failures are past.
LEMMA AppendSlotted ==
    ASSUME LockoutInv, LockoutTypeOK', failed' = Append(failed, now), now' = now,
           UNCHANGED <<losses, outage>>, stopped <= stopped',
           NEW life \in {"even", "odd"}, NEW birth \in 0..now, Life(life, birth)',
           NEW slot \in [DOMAIN failed -> Slots], Apart(slot),
           \A i \in DOMAIN failed : Counted(i, slot[i], life, birth)',
           NEW s, s \in Slots',
           \A i \in DOMAIN failed : slot[i] = s => Past(i, now),
           NEW n \in Nat, n = Len(failed) + 1, Counted(n, s, life, birth)'
    PROVE  Slotted'
<1>0. LockoutTypeOK
  BY DEF LockoutInv
<1>2. /\ DOMAIN failed = 1..(n - 1) /\ DOMAIN failed' = 1..n
      /\ \A i \in DOMAIN failed : failed'[i] = failed[i]
      /\ failed'[n] = now
  BY <1>0, Numbers
<1>3. PICK slot2 : slot2 = [i \in 1..n |-> IF i = n THEN s ELSE slot[i]]
  OBVIOUS
<1>4. slot2 \in [DOMAIN failed -> Slots]'
  <2>1. losses \in Nat
    BY <1>0, Numbers
  <2>2. \A i \in DOMAIN failed : slot[i] \in Slots'
    BY <1>0, <2>1, SlotsGrow
  <2> QED
    BY <1>2, <1>3, <2>2
<1>5. Apart(slot2)'
  <2> SUFFICES ASSUME NEW i \in 1..n, NEW j \in 1..n, i < j, slot2[i] = slot2[j]
               PROVE  failed'[i] + Duration <= failed'[j]
    BY <1>2 DEF Apart, Past
  <2>1. i \in DOMAIN failed /\ slot2[i] = slot[i]
    BY <1>2, <1>3
  <2>2. CASE j = n
    BY <1>2, <1>3, <2>1, <2>2 DEF Past
  <2>3. CASE j # n
    BY <1>2, <1>3, <2>1, <2>3 DEF Apart, Past
  <2> QED
    BY <2>2, <2>3
<1>6. ASSUME NEW i \in 1..n
      PROVE  Counted(i, slot2[i], life, birth)'
  <2>1. CASE i = n
    BY <1>3, <2>1
  <2>2. CASE i # n
    BY <1>2, <1>3, <2>2 DEF Counted
  <2> QED
    BY <2>1, <2>2
<1>7. Assigned(slot2, life, birth)'
  BY <1>2, <1>4, <1>5, <1>6 DEF Assigned
<1> QED
  BY <1>4, <1>7 DEF Slotted

\* A tick may end the life of the counter; its failures are the other life's then.
LEMMA TickSlotted ==
    ASSUME LockoutInv, LockoutTypeOK', Tick,
           \A r \in Requests, i \in DOMAIN failed : Answered(i, r) => Answered(i, r)'
    PROVE  Slotted'
<1>0. LockoutTypeOK /\ \A i \in DOMAIN failed : failed[i] <= now
  BY DEF LockoutInv
<1>1. /\ now' = now + 1 /\ now \in Nat /\ counter.n \in Nat /\ counter.until \in Nat
      /\ Duration \in Nat /\ Duration > 0
      /\ \A i \in DOMAIN failed : failed[i] \in Nat
      /\ UNCHANGED <<row, failed, losses, stopped, outage>>
  BY <1>0, Numbers DEF Tick, faults, table
<1>2. row.n \in Nat /\ losses \in Nat /\ stopped \in Nat
  BY <1>0, Numbers
<1>3. CASE counter' = counter
  BY <1>1, <1>2, <1>3, StillSlotted
<1>4. CASE counter.n = 0
  BY <1>1, <1>2, <1>4, StillSlotted DEF Tick, Zero
<1>5. CASE counter.n > 0 /\ counter.until <= now + 1 /\ counter' = Zero
  <2>1. PICK life \in {"even", "odd"}, birth \in 0..now, slot \in [DOMAIN failed -> Slots] :
           Life(life, birth) /\ Assigned(slot, life, birth)
    BY DEF LockoutInv, Slotted
  <2>2. birth \in Nat /\ birth + Duration <= now + 1
    BY <1>1, <1>5, <2>1 DEF Life
  <2>3. /\ Other(life) \in {"even", "odd"} /\ Other(Other(life)) = life
        /\ now + 1 \in 0..now'
    BY <1>1 DEF Other
  <2>4. slot \in [DOMAIN failed -> Slots]'
    BY <1>0, <1>1, <1>2, <2>1, SlotsGrow
  <2>5. Apart(slot)'
    BY <1>1, <2>1 DEF Assigned, Apart, Past
  <2>6. PICK t : t = now + 1
    OBVIOUS
  <2>7. Life(Other(life), t)'
    BY <1>5, <2>3, <2>6 DEF Life, Zero
  <2>8. ASSUME NEW i \in DOMAIN failed
        PROVE  Counted(i, slot[i], Other(life), t)'
    <3>1. Counted(i, slot[i], life, birth)
      BY <2>1 DEF Assigned
    <3>2. \A r \in Requests : slot[i] = <<"locked", r>> => Answered(i, r)'
      BY <3>1 DEF Counted
    <3>3. \A n \in 1..MaxFailed : slot[i] = <<"alone", n>> => n <= row'.n
      BY <1>1, <3>1 DEF Counted
    <3>4. slot[i] = <<"first", 0>> => Past(i, t)'
      BY <1>0, <1>1, <2>2, <2>6, <3>1 DEF Counted, Past
    <3>5. \A n \in 1..MaxFailed : slot[i] = <<Other(life), n>> => Past(i, t)'
      BY <1>0, <1>1, <2>2, <2>6, <3>1 DEF Counted, Past
    <3>6. failed'[i] < t
      BY <1>0, <1>1, <2>6
    <3> QED
      BY <2>3, <3>2, <3>3, <3>4, <3>5, <3>6 DEF Counted
  <2>9. Assigned(slot, Other(life), t)'
    BY <1>1, <2>4, <2>5, <2>8 DEF Assigned
  <2> QED
    BY <2>3, <2>4, <2>6, <2>7, <2>9 DEF Slotted
<1> QED
  BY <1>1, <1>3, <1>4, <1>5 DEF Tick

\* What the slots are, and which are not there yet.
LEMMA SlotKinds ==
    ASSUME LockoutTypeOK, NEW s \in Slots, NEW life \in {"even", "odd"}
    PROVE  /\ s[1] = life => s = <<life, s[2]>> /\ s[2] \in 2..(MaxFailed - 1)
           /\ \A n : s # <<"lost", <<losses + 1, n>>>>
           /\ s # <<"stopped", stopped + 1>>
<1>1. losses \in Nat /\ stopped \in Nat
  BY Numbers
<1>2. CASE s \in {"locked"} \X Requests
  BY <1>2
<1>3. CASE s \in {"stopped"} \X (1..stopped)
  BY <1>1, <1>3
<1>4. CASE s \in {"lost"} \X ((1..losses) \X (1..(MaxFailed - 1)))
  BY <1>1, <1>4
<1>5. CASE s \in (IF outage THEN {"alone"} ELSE {}) \X (1..(MaxFailed - 1))
  BY <1>5
<1>6. CASE s = <<"first", 0>>
  BY <1>6
<1>7. CASE s \in {"even", "odd"} \X (2..(MaxFailed - 1))
  BY <1>7
<1> QED
  BY <1>2, <1>3, <1>4, <1>5, <1>6, <1>7 DEF Slots

\* A counter that is lost leaves its failures in slots of its own.
LEMMA LoseKeysSlotted ==
    ASSUME LockoutInv, LockoutTypeOK', LoseKeys,
           \A r \in Requests, i \in DOMAIN failed : Answered(i, r) => Answered(i, r)'
    PROVE  Slotted'
<1>0. LockoutTypeOK
  BY DEF LockoutInv
<1>1. /\ UNCHANGED <<now, row, failed, stopped, outage>>
      /\ losses' = losses + 1 /\ losses \in Nat /\ stopped \in Nat
      /\ counter' = Zero
      /\ MaxFailed \in Nat /\ MaxFailed > 1
  BY <1>0, Numbers DEF LoseKeys, table
<1>2. PICK life \in {"even", "odd"}, birth \in 0..now, slot \in [DOMAIN failed -> Slots] :
         Life(life, birth) /\ Assigned(slot, life, birth)
  BY DEF LockoutInv, Slotted
<1>3. PICK k : k = losses + 1
  OBVIOUS
<1>4. PICK fresh \in SUBSET DOMAIN failed :
         \A i \in DOMAIN failed :
            i \in fresh <=> ~Past(i, birth) /\ (slot[i] = <<"first", 0>> \/ slot[i][1] = life)
  <2> DEFINE f == {i \in DOMAIN failed :
                     ~Past(i, birth) /\ (slot[i] = <<"first", 0>> \/ slot[i][1] = life)}
  <2>1. f \in SUBSET DOMAIN failed
    OBVIOUS
  <2> QED
    BY <2>1
<1>5. PICK slot2 : slot2 = [i \in DOMAIN failed |->
         IF i \notin fresh THEN slot[i]
         ELSE IF slot[i] = <<"first", 0>> THEN <<"lost", <<k, 1>>>>
         ELSE <<"lost", <<k, slot[i][2]>>>>]
  OBVIOUS
<1>6. ASSUME NEW i \in DOMAIN failed
      PROVE  /\ slot[i] \in Slots
             /\ slot[i][1] = life => slot[i] = <<life, slot[i][2]>> /\ slot[i][2] \in 2..(MaxFailed - 1)
             /\ \A n : slot[i] # <<"lost", <<k, n>>>>
  <2>1. slot[i] \in Slots
    BY <1>2
  <2> QED
    BY <1>0, <1>3, <2>1, SlotKinds
<1>7. ASSUME NEW i \in fresh
      PROVE  \/ slot[i] = <<"first", 0>> /\ slot2[i] = <<"lost", <<k, 1>>>>
             \/ \E n \in 2..(MaxFailed - 1) :
                   slot[i] = <<life, n>> /\ slot2[i] = <<"lost", <<k, n>>>>
  <2>1. CASE slot[i] = <<"first", 0>>
    BY <1>5, <2>1
  <2>2. CASE slot[i] # <<"first", 0>>
    <3>1. slot[i][1] = life
      BY <1>4, <2>2
    <3>2. slot[i] = <<life, slot[i][2]>> /\ slot[i][2] \in 2..(MaxFailed - 1)
      BY <1>6, <3>1
    <3>3. slot2[i] = <<"lost", <<k, slot[i][2]>>>>
      BY <1>5, <2>2
    <3> QED
      BY <3>2, <3>3
  <2> QED
    BY <2>1, <2>2
<1>8. slot2 \in [DOMAIN failed -> Slots]'
  <2>1. k \in (1..losses)' /\ 1 \in 1..(MaxFailed - 1)
    BY <1>1, <1>3
  <2>2. \A n \in 1..(MaxFailed - 1) : <<"lost", <<k, n>>>> \in Slots'
    BY <2>1 DEF Slots
  <2>3. ASSUME NEW i \in DOMAIN failed
        PROVE  slot2[i] \in Slots'
    <3>1. CASE i \in fresh
      <4>1. \A n \in 2..(MaxFailed - 1) : n \in 1..(MaxFailed - 1)
        BY <1>1
      <4> QED
        BY <1>7, <2>1, <2>2, <3>1, <4>1
    <3>2. CASE i \notin fresh
      <4>1. slot[i] \in Slots'
        BY <1>0, <1>1, <1>6, SlotsGrow
      <4> QED
        BY <1>5, <3>2, <4>1
    <3> QED
      BY <3>1, <3>2
  <2> QED
    BY <1>1, <1>5, <2>3
<1>9. Apart(slot2)'
  <2> SUFFICES ASSUME NEW i \in DOMAIN failed, NEW j \in DOMAIN failed, i < j, slot2[i] = slot2[j]
               PROVE  slot[i] = slot[j]
    BY <1>1, <1>2 DEF Assigned, Apart, Past
  <2>1. CASE i \in fresh /\ j \in fresh
    BY <1>7, <2>1
  <2>2. CASE i \in fresh /\ j \notin fresh
    BY <1>5, <1>6, <1>7, <2>2
  <2>3. CASE i \notin fresh /\ j \in fresh
    BY <1>5, <1>6, <1>7, <2>3
  <2>4. CASE i \notin fresh /\ j \notin fresh
    BY <1>5, <2>4
  <2> QED
    BY <2>1, <2>2, <2>3, <2>4
<1>10. ASSUME NEW i \in DOMAIN failed
       PROVE  Counted(i, slot2[i], life, birth)'
  <2>1. CASE i \in fresh
    <3>1. PICK n : slot2[i] = <<"lost", <<k, n>>>>
      BY <1>7, <2>1
    <3>2. life \in {"even", "odd"} /\ Other(life) \in {"even", "odd"}
      BY DEF Other
    <3> QED
      BY <3>1, <3>2 DEF Counted
  <2>2. CASE i \notin fresh
    <3>1. slot2[i] = slot[i]
      BY <1>5, <2>2
    <3>2. Counted(i, slot[i], life, birth)
      BY <1>2 DEF Assigned
    <3>3. \A r \in Requests : slot[i] = <<"locked", r>> => Answered(i, r)'
      BY <3>2 DEF Counted
    <3>4. \A n \in 1..MaxFailed : slot[i] = <<"alone", n>> => n <= row'.n
      BY <1>1, <3>2 DEF Counted
    <3>5. slot[i] = <<"first", 0>> => Past(i, birth)'
      BY <1>1, <1>4, <2>2 DEF Past
    <3>6. \A n \in 1..MaxFailed : slot[i] = <<life, n>> => Past(i, birth)'
      BY <1>1, <1>4, <2>2 DEF Past
    <3>7. \A n \in 1..MaxFailed : slot[i] = <<Other(life), n>> => failed'[i] < birth
      BY <1>1, <3>2 DEF Counted
    <3> QED
      BY <3>1, <3>3, <3>4, <3>5, <3>6, <3>7 DEF Counted
  <2> QED
    BY <2>1, <2>2
<1>11. Assigned(slot2, life, birth)'
  BY <1>1, <1>8, <1>9, <1>10 DEF Assigned
<1>12. Life(life, birth)' /\ birth \in 0..now'
  BY <1>1 DEF Life, Zero
<1> QED
  BY <1>8, <1>11, <1>12 DEF Slotted

\* A request that slips leaves a failure that is not over in a slot of its own.
LEMMA SlipSlotted ==
    ASSUME LockoutInv, LockoutTypeOK', NEW q \in Requests, Slips(q)
    PROVE  Slotted'
<1>0. LockoutTypeOK
  BY DEF LockoutInv
<1>1. /\ UNCHANGED <<now, counter, row, there, failed, losses, outage>>
      /\ \A r \in Requests \ {q} : req'[r] = req[r]
      /\ stopped' = stopped + 1 /\ losses \in Nat /\ stopped \in Nat
  <2>1. req \in [Requests -> Request] /\ losses \in Nat /\ stopped \in Nat
    BY <1>0, Numbers DEF LockoutTypeOK
  <2>2. ASSUME NEW step \in LockoutSteps, Go(q, step) \/ End(q)
        PROVE  \A r \in Requests \ {q} : req'[r] = req[r]
    BY <2>1, <2>2 DEF Go, End
  <2>3. CASE Stop(q)
    BY <2>1, <2>2, <2>3 DEF Stop, Failing, table, LockoutSteps
  <2>4. CASE CheckPGFails(q)
    BY <2>1, <2>2, <2>4 DEF CheckPGFails, Failing, table, LockoutSteps
  <2>5. CASE UpsertFails(q)
    BY <2>1, <2>2, <2>5 DEF UpsertFails, AfterUpsert, Failing, table, LockoutSteps
  <2> QED
    BY <2>3, <2>4, <2>5 DEF Slips
<1>2. PICK life \in {"even", "odd"}, birth \in 0..now, slot \in [DOMAIN failed -> Slots] :
         Life(life, birth) /\ Assigned(slot, life, birth)
  BY DEF LockoutInv, Slotted
<1>3. PICK k : k = stopped + 1
  OBVIOUS
<1>4. PICK left \in SUBSET DOMAIN failed :
         \A i \in DOMAIN failed : i \in left <=> slot[i] = <<"locked", q>> /\ ~Past(i, now)
  <2> DEFINE f == {i \in DOMAIN failed : slot[i] = <<"locked", q>> /\ ~Past(i, now)}
  <2>1. f \in SUBSET DOMAIN failed
    OBVIOUS
  <2> QED
    BY <2>1
<1>5. PICK slot2 : slot2 = [i \in DOMAIN failed |->
         IF i \in left THEN <<"stopped", k>> ELSE slot[i]]
  OBVIOUS
<1>6. ASSUME NEW i \in DOMAIN failed
      PROVE  slot[i] \in Slots /\ slot[i] # <<"stopped", k>>
  <2>1. slot[i] \in Slots
    BY <1>2
  <2> QED
    BY <1>0, <1>3, <2>1, SlotKinds
<1>7. slot2 \in [DOMAIN failed -> Slots]'
  <2>1. <<"stopped", k>> \in Slots'
    BY <1>1, <1>3 DEF Slots
  <2>2. \A i \in DOMAIN failed : slot[i] \in Slots'
    BY <1>0, <1>1, <1>6, SlotsGrow
  <2> QED
    BY <1>1, <1>5, <2>1, <2>2
<1>8. Apart(slot2)'
  <2> SUFFICES ASSUME NEW i \in DOMAIN failed, NEW j \in DOMAIN failed, i < j, slot2[i] = slot2[j]
               PROVE  slot[i] = slot[j]
    BY <1>1, <1>2 DEF Assigned, Apart, Past
  <2> QED
    BY <1>4, <1>5, <1>6
<1>9. ASSUME NEW i \in DOMAIN failed
      PROVE  Counted(i, slot2[i], life, birth)'
  <2>1. CASE i \in left
    <3>1. slot2[i] = <<"stopped", k>>
      BY <1>5, <2>1
    <3>2. life \in {"even", "odd"} /\ Other(life) \in {"even", "odd"}
      BY DEF Other
    <3> QED
      BY <3>1, <3>2 DEF Counted
  <2>2. CASE i \notin left
    <3>1. slot2[i] = slot[i]
      BY <1>5, <2>2
    <3>2. Counted(i, slot[i], life, birth)
      BY <1>2 DEF Assigned
    <3>3. ASSUME NEW r \in Requests, slot[i] = <<"locked", r>>
          PROVE  Answered(i, r)'
      <4>1. CASE r = q
        BY <1>1, <1>4, <2>2, <3>3, <4>1 DEF Answered, Past
      <4>2. CASE r # q
        <5>1. Answered(i, r) /\ req'[r] = req[r]
          BY <1>1, <3>2, <3>3, <4>2 DEF Counted
        <5> QED
          BY <1>1, <5>1 DEF Answered, Past, Pending, At
      <4> QED
        BY <4>1, <4>2
    <3> QED
      BY <1>1, <3>1, <3>2, <3>3 DEF Counted, Past
  <2> QED
    BY <2>1, <2>2
<1>10. Assigned(slot2, life, birth)'
  BY <1>1, <1>7, <1>8, <1>9 DEF Assigned
<1>11. Life(life, birth)' /\ birth \in 0..now'
  BY <1>1, <1>2 DEF Life
<1> QED
  BY <1>7, <1>10, <1>11 DEF Slotted

\* A failure that nobody counts has such a slot too.
LEMMA RecordFailsSlotted ==
    ASSUME LockoutInv, LockoutTypeOK', NEW q \in Requests, RecordFails(q),
           \A r \in Requests, i \in DOMAIN failed : Answered(i, r) => Answered(i, r)'
    PROVE  Slotted'
<1>0. LockoutTypeOK
  BY DEF LockoutInv
<1>1. /\ failed' = Append(failed, now)
      /\ UNCHANGED <<now, counter, row, losses, outage>>
      /\ stopped' = stopped + 1 /\ stopped \in Nat
      /\ counter.n \in Nat /\ row.n \in Nat
  BY <1>0, Numbers DEF RecordFails, Failing, table
<1>2. PICK life \in {"even", "odd"}, birth \in 0..now, slot \in [DOMAIN failed -> Slots] :
         Life(life, birth) /\ Assigned(slot, life, birth)
  BY DEF LockoutInv, Slotted
<1>3. PICK k : k = stopped + 1
  OBVIOUS
<1>4. PICK s : s = <<"stopped", k>>
  OBVIOUS
<1>5. s \in Slots'
  BY <1>1, <1>3, <1>4 DEF Slots
<1>6. PICK n \in Nat : n = Len(failed) + 1
  BY <1>0, Numbers
<1>7. Life(life, birth)'
  BY <1>1, <1>2 DEF Life
<1>8. ASSUME NEW i \in DOMAIN failed
      PROVE  slot[i] # s /\ Counted(i, slot[i], life, birth)'
  <2>1. slot[i] \in Slots /\ Counted(i, slot[i], life, birth)
    BY <1>2 DEF Assigned
  <2>2. failed'[i] = failed[i]
    BY <1>0, <1>1, Numbers
  <2> QED
    BY <1>0, <1>1, <1>3, <1>4, <2>1, <2>2, SlotKinds, CountedKept
<1>9. Counted(n, s, life, birth)'
  <2>1. Other(life) \in {"even", "odd"}
    BY DEF Other
  <2> QED
    BY <1>4, <2>1 DEF Counted
<1>10. Apart(slot)
  BY <1>2 DEF Assigned
<1>11. stopped <= stopped'
  BY <1>1
<1> QED
  BY <1>1, <1>5, <1>6, <1>7, <1>8, <1>9, <1>10, <1>11, AppendSlotted

\* A failure is counted in the next slot of the counter, of Redis or of the row,
\* that counts it, or locks and has the slot of its request.
LEMMA RecordSlotted ==
    ASSUME LockoutInv, LockoutTypeOK', NEW q \in Requests, RecordFailedAttempt(q),
           \A r \in Requests, i \in DOMAIN failed : Answered(i, r) => Answered(i, r)'
    PROVE  Slotted'
<1>0. LockoutTypeOK /\ \A i \in DOMAIN failed : failed[i] <= now
  BY DEF LockoutInv
<1>1. /\ failed' = Append(failed, now) /\ now' = now
      /\ UNCHANGED <<losses, stopped, outage>> /\ stopped <= stopped'
      /\ At(q, "compare")
  BY <1>0, Numbers DEF RecordFailedAttempt, faults
<1>2. /\ MaxFailed \in Nat /\ MaxFailed > 1 /\ Duration \in Nat /\ Duration > 0
      /\ now \in Nat
      /\ counter.n \in 0..MaxFailed /\ counter.until \in Nat
      /\ row.n \in 0..MaxFailed
      /\ \A i \in DOMAIN failed : failed[i] \in Nat
  BY <1>0, Numbers
<1>3. PICK m \in Nat : m = Len(failed) + 1
  BY <1>0, Numbers
<1>4. /\ \A i \in DOMAIN failed : i \in DOMAIN failed' /\ failed'[i] = failed[i]
      /\ failed'[m] = now
  BY <1>0, <1>1, <1>3, Numbers
<1>5. PICK life \in {"even", "odd"}, birth \in 0..now, slot \in [DOMAIN failed -> Slots] :
         Life(life, birth) /\ Assigned(slot, life, birth)
  BY DEF LockoutInv, Slotted
<1>6. birth \in Nat /\ birth <= now
  BY <1>2
<1>7. Apart(slot) /\ \A i \in DOMAIN failed : Counted(i, slot[i], life, birth)
  BY <1>5 DEF Assigned
<1>8. life \in {"even", "odd"} /\ Other(life) \in {"even", "odd"} /\ Other(life) # life
  BY DEF Other
<1>9. ASSUME row.n <= row'.n, counter.n <= counter'.n, NEW i \in DOMAIN failed
      PROVE  Counted(i, slot[i], life, birth)'
  BY <1>0, <1>4, <1>7, <1>9, CountedKept
\* The failure locks.
<1>10. ASSUME row.n <= row'.n, counter.n <= counter'.n, Life(life, birth)',
              Pending(q)', ~At(q, "compare")'
       PROVE  Slotted'
  <2>1. PICK s : s = <<"locked", q>>
    OBVIOUS
  <2>2. s \in Slots'
    BY <2>1 DEF Slots
  <2>3. ASSUME NEW i \in DOMAIN failed, slot[i] = s
        PROVE  Past(i, now)
    <3>1. Answered(i, q)
      BY <1>7, <2>1, <2>3 DEF Counted
    <3> QED
      BY <1>1, <3>1 DEF Answered
  <2>4. Counted(m, s, life, birth)'
    <3>1. \A r \in Requests : s = <<"locked", r>> => r = q
      BY <2>1
    <3>2. Answered(m, q)'
      BY <1>10 DEF Answered
    <3> QED
      BY <1>8, <2>1, <3>1, <3>2 DEF Counted
  <2> QED
    BY <1>1, <1>3, <1>7, <1>9, <1>10, <2>2, <2>3, <2>4, AppendSlotted
<1>11. CASE up
  <2>1. CountFailure(q)
    BY <1>11 DEF RecordFailedAttempt
  <2>2. /\ row' = row
        /\ counter'.n = OneMore(counter.n)
        /\ req'[q].count = OneMore(counter.n)
    BY <1>0, <2>1 DEF CountFailure, LockoutTypeOK, Request, table
  <2>3. CASE counter.n = 0
    <3>1. OneMore(counter.n) = 1
      BY <1>2, <2>3 DEF OneMore
    <3>2. counter'.n = 1 /\ counter'.until = Forever
      BY <2>1, <3>1 DEF CountFailure
    <3>3. PICK t : t = now
      OBVIOUS
    <3>4. t \in 0..now
      BY <1>2, <3>3
    <3>5. Life(life, t)'
      <4>1. t + Duration <= Forever
        BY <1>0, <3>3, LockoutAssumption DEF Forever, LockoutTypeOK
      <4> QED
        BY <1>1, <3>2, <3>4, <4>1 DEF Life
    <3>6. ASSUME NEW i \in DOMAIN failed
          PROVE  Counted(i, slot[i], life, t)' /\ (slot[i] = <<"first", 0>> => Past(i, now))
      <4>0. Counted(i, slot[i], life, birth)
        BY <1>7
      <4>1. \A r \in Requests : slot[i] = <<"locked", r>> => Answered(i, r)'
        BY <4>0 DEF Counted
      <4>2. \A n \in 1..MaxFailed : slot[i] = <<"alone", n>> => n <= row'.n
        BY <2>2, <4>0 DEF Counted
      <4>3. slot[i] = <<"first", 0>> => Past(i, now)
        BY <1>2, <1>6, <2>3, <4>0 DEF Counted, Past
      <4>4. \A n \in 1..MaxFailed : slot[i] = <<life, n>> => Past(i, now)
        BY <1>2, <1>6, <2>3, <4>0 DEF Counted, Past
      <4>5. \A n \in 1..MaxFailed : slot[i] = <<Other(life), n>> => failed[i] < now
        BY <1>2, <1>6, <4>0 DEF Counted
      <4>6. Past(i, now) <=> Past(i, t)'
        BY <1>4, <3>3 DEF Past
      <4> QED
        BY <1>4, <3>3, <4>1, <4>2, <4>3, <4>4, <4>5, <4>6 DEF Counted
    <3>7. PICK s : s = <<"first", 0>>
      OBVIOUS
    <3>8. s \in Slots'
      BY <3>7 DEF Slots
    <3>9. Counted(m, s, life, t)'
      BY <1>4, <1>8, <3>2, <3>3, <3>7 DEF Counted
    <3> QED
      BY <1>1, <1>3, <1>7, <3>4, <3>5, <3>6, <3>7, <3>8, <3>9, AppendSlotted
  <2>4. CASE counter.n > 0
    <3>1. /\ counter.n <= counter'.n /\ counter'.n > 1
          /\ counter'.until = counter.until
      BY <1>2, <2>1, <2>2, <2>4 DEF CountFailure, OneMore
    <3>2. Life(life, birth)'
      BY <1>1, <1>5, <2>4, <3>1 DEF Life
    <3>3. row.n <= row'.n
      BY <1>2, <2>2
    <3>4. CASE counter.n + 1 < MaxFailed
      <4>1. PICK n : n = counter.n + 1
        OBVIOUS
      <4>2. n = counter'.n /\ n \in 2..(MaxFailed - 1) /\ n \in 1..MaxFailed /\ n > counter.n
        BY <1>2, <2>2, <2>4, <3>4, <4>1 DEF OneMore
      <4>3. PICK s : s = <<life, n>>
        OBVIOUS
      <4>4. s \in Slots'
        BY <4>2, <4>3 DEF Slots
      <4>5. ASSUME NEW i \in DOMAIN failed, slot[i] = s
            PROVE  Past(i, now)
        <5>1. Counted(i, slot[i], life, birth)
          BY <1>7
        <5>2. Past(i, birth)
          BY <1>2, <4>2, <4>3, <4>5, <5>1 DEF Counted
        <5> QED
          BY <1>2, <1>6, <5>2 DEF Past
      <4>6. Counted(m, s, life, birth)'
        BY <1>2, <1>4, <1>6, <1>8, <4>2, <4>3 DEF Counted
      <4> QED
        BY <1>1, <1>3, <1>7, <1>9, <3>1, <3>2, <3>3, <4>4, <4>5, <4>6, AppendSlotted
    <3>5. CASE counter.n + 1 >= MaxFailed
      <4>1. OneMore(counter.n) = MaxFailed
        BY <1>2, <3>5 DEF OneMore
      <4>2. req'[q].at = "upsert"
        BY <1>0, <1>2, <2>1, <4>1 DEF CountFailure, LockoutTypeOK, Request
      <4>3. Reached(OneMore(counter.n))
        BY <1>2, <4>1 DEF Reached
      <4>4. Reached(req[q].count)'
        BY <2>2, <4>3 DEF Reached
      <4>5. Pending(q)' /\ ~At(q, "compare")'
        BY <4>2, <4>4 DEF Pending, At
      <4> QED
        BY <1>10, <3>1, <3>2, <3>3, <4>5
    <3> QED
      BY <1>2, <3>4, <3>5
  <2> QED
    BY <1>2, <2>3, <2>4
<1>12. CASE ~up
  <2>1. CountFailurePG(q) /\ outage
    BY <1>12 DEF RecordFailedAttempt, LockoutInv
  <2>2. counter' = counter /\ row'.n = OneMore(row.n) /\ there'
    BY <1>0, <2>1 DEF CountFailurePG, UpsertRow, LockoutTypeOK, Count
  <2>3. row.n <= row'.n /\ counter.n <= counter'.n
    BY <1>2, <2>2 DEF OneMore
  <2>4. Life(life, birth)'
    BY <1>1, <1>5, <2>2 DEF Life
  <2>5. CASE row.n + 1 < MaxFailed
    <3>1. PICK n : n = row.n + 1
      OBVIOUS
    <3>2. n = row'.n /\ n \in 1..(MaxFailed - 1) /\ n \in 1..MaxFailed /\ n > row.n
      BY <1>2, <2>2, <2>5, <3>1 DEF OneMore
    <3>3. PICK s : s = <<"alone", n>>
      OBVIOUS
    <3>4. s \in Slots'
      BY <1>1, <2>1, <3>2, <3>3 DEF Slots
    <3>5. ASSUME NEW i \in DOMAIN failed, slot[i] = s
          PROVE  FALSE
      <4>1. Counted(i, slot[i], life, birth)
        BY <1>7
      <4>2. n <= row.n
        BY <3>2, <3>3, <3>5, <4>1 DEF Counted
      <4> QED
        BY <1>2, <3>1, <4>2
    <3>6. Counted(m, s, life, birth)'
      BY <1>2, <1>8, <3>2, <3>3 DEF Counted
    <3> QED
      BY <1>1, <1>3, <1>7, <1>9, <2>3, <2>4, <3>4, <3>5, <3>6, AppendSlotted
  <2>6. CASE row.n + 1 >= MaxFailed
    <3>1. Reached(OneMore(row.n))
      BY <1>2, <2>6 DEF OneMore, Reached
    <3>2. Go(q, "persist")
      BY <2>1, <3>1 DEF CountFailurePG
    <3>3. Pending(q)' /\ ~At(q, "compare")'
      BY <1>0, <2>2, <3>2 DEF Go, Pending, At, LockoutTypeOK
    <3> QED
      BY <1>10, <2>3, <2>4, <3>3
  <2> QED
    BY <1>2, <2>5, <2>6
<1> QED
  BY <1>11, <1>12

\* Every step keeps the invariant.
LEMMA NextLockoutInv ==
    ASSUME LockoutInv, [LockoutNext]_lockoutVars
    PROVE  LockoutInv'
<1>0. LockoutTypeOK /\ LockoutTypeOK'
  BY LockoutTypes DEF LockoutInv
<1>1. /\ now \in Nat /\ counter.n \in 0..MaxFailed /\ counter.until \in Nat
      /\ row.n \in 0..MaxFailed /\ row.until \in Nat
      /\ losses \in Nat /\ stopped \in Nat
      /\ MaxFailed \in Nat
      /\ Duration \in Nat
      /\ \A i \in DOMAIN failed : failed[i] \in Nat /\ failed[i] <= now
      /\ failed \in Seq(Nat)
  BY <1>0, Numbers DEF LockoutInv
<1>2. ASSUME UNCHANGED failed, \A r \in Requests : ~Slips(r)
      PROVE  \A r \in Requests, i \in DOMAIN failed : Answered(i, r) => Answered(i, r)'
  BY <1>0, <1>1, <1>2, AnsweredKept
<1>3. ASSUME UNCHANGED <<stopped, failed>>
      PROVE  \A r \in Requests, i \in DOMAIN failed : Answered(i, r) => Answered(i, r)'
  <2>1. \A r \in Requests : ~Slips(r)
    BY <1>1, <1>3 DEF Slips, Stop, CheckPGFails, UpsertFails, Failing
  <2> QED
    BY <1>2, <1>3, <2>1
\* The failures are past ones, and Redis was unreachable only in an outage.
<1> DEFINE Before == (up \/ outage) /\ \A i \in DOMAIN failed : failed[i] <= now
<1>4. Before'
  <2>1. CASE LockoutNext
    <3>1. CASE Tick
      BY <1>1, <3>1 DEF Tick, faults, LockoutInv
    <3>2. CASE Unreachable \/ Reachable \/ LoseKeys
      BY <1>1, <3>2 DEF Unreachable, Reachable, LoseKeys, faults, LockoutInv
    <3>3. ASSUME NEW r \in Requests,
                 \/ CheckRedis(r) \/ CheckPG(r) \/ Refuse(r) \/ Slips(r) \/ Succeed(r)
                 \/ Expire(r) \/ Upsert(r) \/ SetFlag(r) \/ Persist(r)
          PROVE  Before'
      BY <1>1, <3>3 DEF CheckRedis, CheckPG, Refuse, Slips, Stop, CheckPGFails, UpsertFails,
                        Failing, Succeed, Expire, Upsert, SetFlag, Persist, faults,
                        LockoutInv
    <3>4. ASSUME NEW r \in Requests, RecordFailedAttempt(r) \/ RecordFails(r)
          PROVE  Before'
      <4>1. /\ UNCHANGED <<now, up, outage>>
            /\ failed' = Append(failed, now)
        BY <3>4 DEF RecordFailedAttempt, RecordFails, Failing, faults
      <4>2. \A i \in DOMAIN failed' : failed'[i] = now \/ (i \in DOMAIN failed /\ failed'[i] = failed[i])
        BY <1>1, <4>1
      <4> QED
        BY <1>1, <4>1, <4>2 DEF LockoutInv
    <3>5. ASSUME NEW r \in Requests, ClearCounter(r) \/ ClearFlag(r) \/ ClearRow(r)
          PROVE  Before'
      BY <1>1, <3>5 DEF ClearCounter, ClearFlag, ClearRow, faults, LockoutInv
    <3> QED
      BY <2>1, <3>1, <3>2, <3>3, <3>4, <3>5 DEF LockoutNext, Slips
  <2>2. CASE UNCHANGED lockoutVars
    BY <2>2 DEF lockoutVars, faults, LockoutInv
  <2> QED
    BY <2>1, <2>2
<1>5. Slotted'
  <2>1. CASE LockoutNext
    <3>1. CASE Tick
      BY <1>0, <1>3, <3>1, TickSlotted DEF Tick, faults
    <3>2. CASE Unreachable \/ Reachable
      BY <1>0, <1>1, <1>3, <3>2, StillSlotted DEF Unreachable, Reachable, faults, table
    <3>3. CASE LoseKeys
      BY <1>0, <1>3, <3>3, LoseKeysSlotted DEF LoseKeys
    <3>4. ASSUME NEW r \in Requests, Slips(r)
          PROVE  Slotted'
      BY <1>0, <3>4, SlipSlotted
    <3>5. ASSUME NEW r \in Requests, CheckRedis(r) \/ CheckPG(r) \/ Refuse(r) \/ Succeed(r) \/ SetFlag(r)
          PROVE  Slotted'
      <4>1. UNCHANGED <<now, counter, row, failed, outage, losses, stopped>>
        BY <3>5 DEF CheckRedis, CheckPG, Refuse, Succeed, SetFlag, faults, table
      <4> QED
        BY <1>0, <1>1, <1>3, <4>1, StillSlotted
    <3>6. ASSUME NEW r \in Requests, Expire(r)
          PROVE  Slotted'
      <4>1. UNCHANGED <<now, row, failed, outage, losses, stopped>>
        BY <3>6 DEF Expire, faults, table
      <4>2. /\ counter'.n = counter.n
            /\ counter'.until = counter.until \/ counter'.until = now + Duration
        BY <1>0, <3>6 DEF Expire, LockoutTypeOK, Count
      <4> QED
        BY <1>0, <1>1, <1>3, <4>1, <4>2, StillSlotted
    <3>7. ASSUME NEW r \in Requests, Upsert(r) \/ Persist(r)
          PROVE  Slotted'
      <4>1. UNCHANGED <<now, counter, failed, outage, losses, stopped>>
        BY <3>7 DEF Upsert, Persist, faults
      <4>2. row.n <= row'.n
        <5>1. CASE Upsert(r)
          BY <1>0, <1>1, <5>1 DEF Upsert, UpsertRow, OneMore, LockoutTypeOK, Count
        <5>2. CASE Persist(r)
          BY <1>0, <1>1, <5>2 DEF Persist, LockoutTypeOK, Count
        <5> QED
          BY <3>7, <5>1, <5>2
      <4> QED
        BY <1>0, <1>1, <1>3, <4>1, <4>2, StillSlotted
    <3>8. ASSUME NEW r \in Requests, RecordFailedAttempt(r)
          PROVE  Slotted'
      <4>1. /\ \A q \in Requests : ~Slips(q)
            /\ \A i \in DOMAIN failed : i \in DOMAIN failed' /\ failed'[i] = failed[i]
        BY <1>1, <3>8 DEF RecordFailedAttempt, Slips, Stop, CheckPGFails, UpsertFails,
                          Failing, faults
      <4>2. \A q \in Requests, i \in DOMAIN failed : Answered(i, q) => Answered(i, q)'
        BY <1>0, <1>1, <4>1, AnsweredKept
      <4> QED
        BY <1>0, <3>8, <4>2, RecordSlotted
    <3>9. ASSUME NEW r \in Requests, ClearCounter(r) \/ ClearFlag(r) \/ ClearRow(r)
          PROVE  Slotted'
      BY <1>0, <3>9, EmptySlotted DEF ClearCounter, ClearFlag, ClearRow
    <3>10. ASSUME NEW r \in Requests, RecordFails(r)
           PROVE  Slotted'
      <4>1. /\ Len(failed') # Len(failed)
            /\ \A i \in DOMAIN failed : i \in DOMAIN failed' /\ failed'[i] = failed[i]
        BY <1>1, <3>10 DEF RecordFails
      <4>2. \A q \in Requests : ~Slips(q)
        BY <4>1 DEF Slips, Stop, CheckPGFails, UpsertFails
      <4>3. \A q \in Requests, i \in DOMAIN failed : Answered(i, q) => Answered(i, q)'
        BY <1>0, <1>1, <4>1, <4>2, AnsweredKept
      <4> QED
        BY <1>0, <3>10, <4>3, RecordFailsSlotted
    <3> QED
      BY <2>1, <3>1, <3>2, <3>3, <3>4, <3>5, <3>6, <3>7, <3>8, <3>9, <3>10
      DEF LockoutNext, Slips
  <2>2. CASE UNCHANGED lockoutVars
    BY <1>0, <1>1, <1>3, <2>2, StillSlotted DEF lockoutVars, faults, table
  <2> QED
    BY <2>1, <2>2
<1> QED
  BY <1>0, <1>4, <1>5 DEF LockoutInv

\* At most n members.
AtMost(S, n) == IsFiniteSet(S) /\ Cardinality(S) \in Nat /\ Cardinality(S) <= n

LEMMA AtMostUnion ==
    ASSUME NEW S, NEW T, NEW m \in Nat, NEW n \in Nat, AtMost(S, m), AtMost(T, n)
    PROVE  AtMost(S \cup T, m + n)
<1>1. IsFiniteSet(S) /\ Cardinality(S) \in Nat /\ Cardinality(S) <= m
  BY DEF AtMost
<1>2. IsFiniteSet(T) /\ Cardinality(T) \in Nat /\ Cardinality(T) <= n
  BY DEF AtMost
<1>3. /\ IsFiniteSet(S \cup T)
      /\ Cardinality(S \cup T) = Cardinality(S) + Cardinality(T) - Cardinality(S \cap T)
  BY <1>1, <1>2, FS_Union
<1>4. IsFiniteSet(S \cap T)
  BY <1>1, FS_Intersection
<1>5. Cardinality(S \cap T) \in Nat
  BY <1>4, FS_CardinalityType
<1>6. Cardinality(S \cup T) \in Nat
  BY <1>3, FS_CardinalityType
<1> QED
  BY <1>1, <1>2, <1>3, <1>5, <1>6 DEF AtMost

LEMMA AtMostTagged ==
    ASSUME NEW x, NEW S, NEW n \in Nat, IsFiniteSet(S), Cardinality(S) = n
    PROVE  AtMost({x} \X S, n)
<1>1. IsFiniteSet({x}) /\ Cardinality({x}) = 1
  BY FS_Singleton
<1>2. IsFiniteSet({x} \X S) /\ Cardinality({x} \X S) = 1 * n
  BY <1>1, FS_Product
<1> QED
  BY <1>2 DEF AtMost

\* There are as many slots as failures are allowed.
LEMMA SlotsAllowed ==
    ASSUME LockoutTypeOK
    PROVE  IsFiniteSet(Slots) /\ Cardinality(Slots) <= Allowed
<1> DEFINE Locked  == {"locked"} \X Requests
           Stopped == {"stopped"} \X (1..stopped)
           Lost    == {"lost"} \X ((1..losses) \X (1..(MaxFailed - 1)))
           Alone   == (IF outage THEN {"alone"} ELSE {}) \X (1..(MaxFailed - 1))
           First   == {<<"first", 0>>}
           Even    == {"even"} \X (2..(MaxFailed - 1))
           Odd     == {"odd"} \X (2..(MaxFailed - 1))
<1>1. /\ losses \in Nat /\ stopped \in Nat
      /\ MaxFailed \in Nat /\ MaxFailed > 1
      /\ IsFiniteSet(Requests)
      /\ outage \in BOOLEAN
  BY Numbers, LockoutAssumption DEF LockoutTypeOK
<1>2. PICK e \in Nat : e = MaxFailed - 1
  BY <1>1
<1>3. PICK c \in Nat : c = MaxFailed - 2
  BY <1>1
<1>4. PICK d \in Nat : d = Cardinality(Requests)
  BY <1>1, FS_CardinalityType
<1>5. \A n \in Nat : IsFiniteSet(1..n) /\ Cardinality(1..n) = n
  BY FS_Interval
<1>6. IsFiniteSet(2..e) /\ Cardinality(2..e) = c
  <2>1. 2 \in Int /\ e \in Int
    OBVIOUS
  <2>2. IsFiniteSet(2..e) /\ Cardinality(2..e) = IF 2 > e THEN 0 ELSE e - 2 + 1
    BY <2>1, FS_Interval
  <2> QED
    BY <1>1, <1>2, <1>3, <2>2
<1>7. AtMost(Locked, d)
  BY <1>1, <1>4, AtMostTagged
<1>8. AtMost(Stopped, stopped)
  BY <1>1, <1>5, AtMostTagged
<1>9. PICK a \in Nat : a = losses * e
  BY <1>1
<1>10. AtMost(Lost, a)
  <2>1. /\ IsFiniteSet(1..losses) /\ IsFiniteSet(1..e)
        /\ Cardinality(1..losses) = losses /\ Cardinality(1..e) = e
    BY <1>1, <1>5
  <2>2. IsFiniteSet((1..losses) \X (1..e)) /\ Cardinality((1..losses) \X (1..e)) = losses * e
    <3>1. /\ IsFiniteSet((1..losses) \X (1..e))
          /\ Cardinality((1..losses) \X (1..e)) = Cardinality(1..losses) * Cardinality(1..e)
      BY <2>1, FS_Product
    <3> QED
      BY <2>1, <3>1
  <2> QED
    BY <1>2, <1>9, <2>2, AtMostTagged
<1>11. PICK b \in Nat : b = IF outage THEN e ELSE 0
  OBVIOUS
<1>12. AtMost(Alone, b)
  <2>1. CASE outage
    <3>1. AtMost({"alone"} \X (1..e), e)
      BY <1>5, AtMostTagged
    <3> QED
      BY <1>2, <1>11, <2>1, <3>1
  <2>2. CASE ~outage
    <3>1. Alone = {} /\ b = 0
      BY <1>11, <2>2
    <3>2. IsFiniteSet({}) /\ Cardinality({}) = 0
      BY FS_EmptySet
    <3> QED
      BY <3>1, <3>2 DEF AtMost
  <2> QED
    BY <2>1, <2>2
<1>13. AtMost(First, 1)
  <2>1. IsFiniteSet(First) /\ Cardinality(First) = 1
    BY FS_Singleton
  <2> QED
    BY <2>1 DEF AtMost
<1>14. AtMost(Even, c) /\ AtMost(Odd, c)
  <2>1. AtMost({"even"} \X (2..e), c)
    BY <1>6, AtMostTagged
  <2>2. AtMost({"odd"} \X (2..e), c)
    BY <1>6, AtMostTagged
  <2> QED
    BY <1>2, <2>1, <2>2
<1>15. Slots = (((((Locked \cup Stopped) \cup Lost) \cup Alone) \cup First) \cup Even) \cup Odd
  BY Zenon DEF Slots
<1> HIDE DEF Locked, Stopped, Lost, Alone, First, Even, Odd
<1>16. AtMost(Locked \cup Stopped, d + stopped)
  BY <1>1, <1>7, <1>8, AtMostUnion
<1>17. AtMost((Locked \cup Stopped) \cup Lost, (d + stopped) + a)
  <2>1. d + stopped \in Nat
    BY <1>1
  <2> QED
    BY <1>10, <1>16, <2>1, AtMostUnion
<1>18. AtMost(((Locked \cup Stopped) \cup Lost) \cup Alone, ((d + stopped) + a) + b)
  <2>1. (d + stopped) + a \in Nat
    BY <1>1
  <2> QED
    BY <1>12, <1>17, <2>1, AtMostUnion
<1>19. AtMost((((Locked \cup Stopped) \cup Lost) \cup Alone) \cup First, (((d + stopped) + a) + b) + 1)
  <2>1. ((d + stopped) + a) + b \in Nat /\ 1 \in Nat
    BY <1>1
  <2> QED
    BY <1>13, <1>18, <2>1, AtMostUnion
<1>20. PICK g \in Nat : g = (((d + stopped) + a) + b) + 1
  BY <1>1
<1>21. AtMost(((((Locked \cup Stopped) \cup Lost) \cup Alone) \cup First) \cup Even, g + c)
  BY <1>14, <1>19, <1>20, AtMostUnion
<1>22. AtMost(Slots, (g + c) + c)
  <2>1. g + c \in Nat
    OBVIOUS
  <2> QED
    BY <1>14, <1>15, <1>21, <2>1, AtMostUnion
<1>23. (g + c) + c = Allowed
  <2>1. CASE outage
    <3>1. (losses + 1) * e = a + b
      BY <1>1, <1>9, <1>11, <2>1
    <3>2. Allowed = (2 * MaxFailed - 3 + d) + (losses + 1) * e + stopped
      BY <1>1, <1>2, <1>4, <2>1 DEF Allowed
    <3> QED
      BY <1>1, <1>2, <1>3, <1>20, <3>1, <3>2
  <2>2. CASE ~outage
    <3>1. (losses + 0) * e = a + b
      BY <1>1, <1>9, <1>11, <2>2
    <3>2. Allowed = (2 * MaxFailed - 3 + d) + (losses + 0) * e + stopped
      BY <1>1, <1>2, <1>4, <2>2 DEF Allowed
    <3> QED
      BY <1>1, <1>2, <1>3, <1>20, <3>1, <3>2
  <2> QED
    BY <1>1, <2>1, <2>2
<1> QED
  BY <1>22, <1>23 DEF AtMost

\* Two failures less than lockoutDuration apart are in different slots.
LEMMA LockoutInvBounds == LockoutInv => FailuresBounded
<1> SUFFICES ASSUME LockoutInv, NEW t \in 0..Horizon
             PROVE  Cardinality(FailedIn(t)) <= Allowed
  BY DEF FailuresBounded
<1>0. LockoutTypeOK
  BY DEF LockoutInv
<1>1. PICK life \in {"even", "odd"}, birth \in 0..now, slot \in [DOMAIN failed -> Slots] :
         Assigned(slot, life, birth)
  BY DEF LockoutInv, Slotted
<1> DEFINE f == [i \in FailedIn(t) |-> slot[i]]
<1>2. f \in [FailedIn(t) -> Slots]
  BY DEF FailedIn
<1>3. ASSUME NEW i \in FailedIn(t), NEW j \in FailedIn(t), f[i] = f[j]
      PROVE  i = j
  <2>1. /\ i \in DOMAIN failed /\ j \in DOMAIN failed /\ slot[i] = slot[j]
        /\ t <= failed[i] /\ failed[i] < t + Duration
        /\ t <= failed[j] /\ failed[j] < t + Duration
    BY <1>3 DEF FailedIn
  <2>2. /\ t \in Nat /\ Duration \in Nat /\ failed[i] \in Nat /\ failed[j] \in Nat
        /\ i \in Nat /\ j \in Nat
    BY <1>0, <2>1, Numbers
  <2>3. ~(i < j)
    BY <1>1, <2>1, <2>2 DEF Assigned, Apart, Past
  <2>4. ~(j < i)
    BY <1>1, <2>1, <2>2 DEF Assigned, Apart, Past
  <2> QED
    BY <2>2, <2>3, <2>4
<1> HIDE DEF f
<1>4. f \in Injection(FailedIn(t), Slots)
  BY <1>2, <1>3, Fun_IsInj
<1>5. IsFiniteSet(Slots) /\ Cardinality(Slots) <= Allowed
  BY <1>0, SlotsAllowed
<1>6. IsFiniteSet(FailedIn(t)) /\ Cardinality(FailedIn(t)) <= Cardinality(Slots)
  BY <1>4, <1>5, FS_Injection
<1>7. Cardinality(FailedIn(t)) \in Nat /\ Cardinality(Slots) \in Nat
  BY <1>5, <1>6, FS_CardinalityType
<1>8. Allowed \in Int
  <2>1. /\ losses \in Nat /\ stopped \in Nat /\ MaxFailed \in Nat
        /\ IsFiniteSet(Requests)
    BY <1>0, Numbers, LockoutAssumption
  <2>2. Cardinality(Requests) \in Nat
    BY <2>1, FS_CardinalityType
  <2> QED
    BY <2>1, <2>2 DEF Allowed
<1> QED
  BY <1>5, <1>6, <1>7, <1>8

\* The state has its types, no two failures of one slot are close, and every
\* counter and lock accounts for what it counted.
THEOREM LockoutInvariant == LockoutSpec => []LockoutInv
<1>1. LockoutInit => LockoutInv
  BY LockoutInitInv
<1>2. LockoutInv /\ [LockoutNext]_lockoutVars => LockoutInv'
  BY NextLockoutInv
<1> QED
  BY <1>1, <1>2, PTL DEF LockoutSpec

\* Whatever the requests, Redis and the clock do, the failures of an account
\* within lockoutDuration, with no success between, are bounded.
THEOREM LockoutFailures == LockoutSpec => []FailuresBounded
<1>1. LockoutInv => FailuresBounded
  BY LockoutInvBounds
<1> QED
  BY <1>1, LockoutInvariant, PTL

=============================================================================
