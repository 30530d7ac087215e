----------------------------- MODULE Money_proofs -----------------------------
(***************************************************************************)
(* Theorems about the two modules that add money up: the customers'        *)
(* wallets (CustomerWallet) and the double-entry ledger (Ledger), for any  *)
(* customers, references, requests, amounts, limits and floors, and any    *)
(* length of the ledger.                                                   *)
(***************************************************************************)
EXTENDS CustomerWallet, Ledger, FiniteSetTheorems, SequenceTheorems, WellFoundedInduction, TLAPS

-----------------------------------------------------------------------------
(* Sums over finite sets (SumFunctionOnSet of the module Functions) *)

\* Induction over the naturals, for what can be said of a number by a set.
LEMMA Induct ==
    ASSUME NEW P, 0 \in P, \A n \in Nat : n \in P => n + 1 \in P
    PROVE  Nat \subseteq P
<1> DEFINE R == {ss \in Nat \X Nat : ss[1] < ss[2]}
           T == Nat \ P
<1>1. SUFFICES ASSUME T # {} PROVE FALSE
  OBVIOUS
<1>2. IsWellFoundedOn(R, Nat)
  BY NatLessThanWellFounded DEF OpToRel
<1>3. PICK x \in T : \A y \in T : ~ (<<y, x>> \in R)
  <2> HIDE DEF R
  <2> QED
    BY <1>1, <1>2, WFMin
<1>4. x # 0 /\ x \in Nat
  BY <1>3
<1>5. x - 1 \in Nat /\ x = (x - 1) + 1
  BY <1>4
<1>6. <<x - 1, x>> \in R
  BY <1>4, <1>5
<1>7. x - 1 \in P
  <2> HIDE DEF R
  <2> QED
    BY <1>3, <1>5, <1>6
<1> QED
  BY <1>3, <1>5, <1>7

Folds(h, f, S) ==
    h = [s \in SUBSET S |-> IF s = {} THEN 0
                            ELSE LET x == CHOOSE x \in s : TRUE
                                 IN  f[x] + h[s \ {x}]]

LEMMA Unfold ==
    ASSUME NEW f, NEW S, NEW g, Folds(g, f, S)
    PROVE  \E h : Folds(h, f, S) /\ SumFunctionOnSet(f, S) = h[S]
<1> DEFINE iter == CHOOSE h : Folds(h, f, S)
<1>1. SumFunctionOnSet(f, S) = iter[S]
  BY Zenon DEF SumFunctionOnSet, FoldFunctionOnSet, MapThenFoldSet, Folds
<1>2. Folds(iter, f, S)
  OBVIOUS
<1> QED
  BY <1>1, <1>2

\* Cardinalities on the way down.
LEMMA Less ==
    ASSUME NEW s, IsFiniteSet(s), NEW x \in s
    PROVE  /\ IsFiniteSet(s \ {x})
           /\ Cardinality(s) \in Nat
           /\ Cardinality(s) = Cardinality(s \ {x}) + 1
           /\ Cardinality(s \ {x}) \in Nat
<1>1. IsFiniteSet(s \ {x})
  BY FS_RemoveElement
<1>2. Cardinality(s \ {x}) \in Nat /\ Cardinality(s) \in Nat
  BY <1>1, FS_CardinalityType
<1>3. Cardinality(s \ {x}) = Cardinality(s) - 1
  BY FS_RemoveElement
<1> QED
  BY <1>1, <1>2, <1>3

\* A fold exists over every finite set.
LEMMA FoldExists ==
    ASSUME NEW f, NEW S, IsFiniteSet(S)
    PROVE  \E g : Folds(g, f, S)
<1> DEFINE Pick(s) == CHOOSE x \in s : TRUE
           Rule(g, s) == g[s] = IF s = {} THEN 0 ELSE f[Pick(s)] + g[s \ {Pick(s)}]
           P == {n \in Nat : \E g : \A s \in SUBSET S : Cardinality(s) <= n => Rule(g, s)}
<1>1. \A s \in SUBSET S : /\ IsFiniteSet(s)
                          /\ Cardinality(s) \in Nat
                          /\ s # {} => /\ Pick(s) \in s
                                       /\ s \ {Pick(s)} \in SUBSET S
                                       /\ Cardinality(s) = Cardinality(s \ {Pick(s)}) + 1
                                       /\ Cardinality(s \ {Pick(s)}) \in Nat
  <2> TAKE s \in SUBSET S
  <2>1. IsFiniteSet(s) /\ Cardinality(s) \in Nat
    BY FS_Subset, FS_CardinalityType
  <2>2. s # {} => Pick(s) \in s
    OBVIOUS
  <2> HIDE DEF Pick
  <2> QED
    BY <2>1, <2>2, Less
<1> HIDE DEF Pick
<1>2. 0 \in P
  <2> DEFINE g == [s \in SUBSET S |-> 0]
  <2>1. ASSUME NEW s \in SUBSET S, Cardinality(s) <= 0 PROVE Rule(g, s)
    <3>0. IsFiniteSet(s) /\ Cardinality(s) \in Nat
      BY <1>1
    <3>1. Cardinality(s) = 0
      BY <2>1, <3>0
    <3>2. s = {}
      BY <3>0, <3>1, FS_EmptySet
    <3> QED
      BY <3>2
  <2> QED
    BY <2>1
<1>3. ASSUME NEW n \in Nat, n \in P PROVE n + 1 \in P
  <2>1. PICK g : \A s \in SUBSET S : Cardinality(s) <= n => Rule(g, s)
    BY <1>3
  <2> DEFINE h == [s \in SUBSET S |->
                     IF Cardinality(s) <= n THEN g[s] ELSE f[Pick(s)] + g[s \ {Pick(s)}]]
  <2>2. ASSUME NEW s \in SUBSET S, Cardinality(s) <= n + 1 PROVE Rule(h, s)
    <3>1. CASE s = {}
      <4>1. Cardinality(s) = 0
        BY <3>1, FS_EmptySet
      <4> QED
        BY <2>1, <3>1, <4>1
    <3>2. CASE s # {}
      <4>1. Cardinality(s \ {Pick(s)}) <= n /\ s \ {Pick(s)} \in SUBSET S
        BY <1>1, <2>2, <3>2
      <4>2. h[s \ {Pick(s)}] = g[s \ {Pick(s)}]
        BY <4>1
      <4>3. h[s] = f[Pick(s)] + g[s \ {Pick(s)}]
        BY <2>1, <3>2
      <4> QED
        BY <3>2, <4>2, <4>3
    <3> QED
      BY <3>1, <3>2
  <2> QED
    <3> HIDE DEF h
    <3> QED
      BY <2>2
<1>4. Cardinality(S) \in P
  <2> HIDE DEF P
  <2>1. Nat \subseteq P
    BY <1>2, <1>3, Induct
  <2> QED
    BY <2>1, FS_CardinalityType
<1>5. PICK g : \A s \in SUBSET S : Cardinality(s) <= Cardinality(S) => Rule(g, s)
  BY <1>4
<1> DEFINE h == [s \in SUBSET S |-> g[s]]
<1>6. ASSUME NEW s \in SUBSET S
      PROVE  h[s] = IF s = {} THEN 0 ELSE f[Pick(s)] + h[s \ {Pick(s)}]
  <2>1. Cardinality(s) <= Cardinality(S)
    BY FS_Subset
  <2> QED
    BY <1>1, <1>5, <2>1
<1>7. Folds(h, f, S)
  <2>1. h = [s \in SUBSET S |-> h[s]]
    OBVIOUS
  <2> HIDE DEF h
  <2> QED
    BY <1>6, <2>1 DEF Folds, Pick
<1> QED
  BY <1>7

\* Induction over the subsets of a finite set.
LEMMA SubsetInduct ==
    ASSUME NEW S, IsFiniteSet(S), NEW P, {} \in P,
           \A s \in SUBSET S : s # {} /\ (\A x \in s : s \ {x} \in P) => s \in P
    PROVE  SUBSET S \subseteq P
<1> DEFINE Q == {n \in Nat : \A s \in SUBSET S : Cardinality(s) = n => s \in P}
<1>1. \A s \in SUBSET S : IsFiniteSet(s) /\ Cardinality(s) \in Nat
  BY FS_Subset, FS_CardinalityType
<1>2. 0 \in Q
  <2>1. ASSUME NEW s \in SUBSET S, Cardinality(s) = 0 PROVE s \in P
    <3>1. s = {}
      BY <1>1, <2>1, FS_EmptySet
    <3> QED
      BY <3>1
  <2> QED
    BY <2>1
<1>3. ASSUME NEW n \in Nat, n \in Q PROVE n + 1 \in Q
  <2>1. ASSUME NEW s \in SUBSET S, Cardinality(s) = n + 1 PROVE s \in P
    <3>1. s # {}
      BY <2>1, FS_EmptySet
    <3>2. ASSUME NEW x \in s PROVE s \ {x} \in P
      <4>1. IsFiniteSet(s)
        BY <1>1
      <4>2. /\ Cardinality(s \ {x}) \in Nat
            /\ Cardinality(s) = Cardinality(s \ {x}) + 1
        BY <4>1, Less
      <4>3. Cardinality(s \ {x}) = n
        BY <2>1, <4>2
      <4> QED
        BY <1>3, <4>3
    <3> QED
      BY <3>1, <3>2
  <2> QED
    BY <2>1
<1>4. Nat \subseteq Q
  <2> HIDE DEF Q
  <2> QED
    BY <1>2, <1>3, Induct
<1> QED
  BY <1>1, <1>4

\* A fold, one element at a time.
LEMMA FoldStep ==
    ASSUME NEW f, NEW S, NEW h, Folds(h, f, S)
    PROVE  /\ h[{}] = 0
           /\ \A s \in SUBSET S : s # {} =>
                 \E x \in s : h[s] = f[x] + h[s \ {x}]
<1>1. \A s \in SUBSET S : h[s] = IF s = {} THEN 0
                                 ELSE LET x == CHOOSE x \in s : TRUE
                                      IN  f[x] + h[s \ {x}]
  BY DEF Folds
<1>2. h[{}] = 0
  BY <1>1
<1>3. ASSUME NEW s \in SUBSET S, s # {}
      PROVE  \E x \in s : h[s] = f[x] + h[s \ {x}]
  <2> DEFINE x == CHOOSE x \in s : TRUE
  <2>1. x \in s
    BY <1>3
  <2>2. h[s] = f[x] + h[s \ {x}]
    BY <1>1, <1>3
  <2> HIDE DEF x
  <2> QED
    BY <2>1, <2>2
<1> QED
  BY <1>2, <1>3

\* A fold of integers over a finite set.
IntFold(h, f, S) == Folds(h, f, S) /\ IsFiniteSet(S) /\ \A x \in S : f[x] \in Int

LEMMA FoldInt ==
    ASSUME NEW f, NEW S, NEW h, IntFold(h, f, S)
    PROVE  \A s \in SUBSET S : h[s] \in Int
<1> USE DEF IntFold
<1> DEFINE P == {s \in SUBSET S : h[s] \in Int}
<1>1. {} \in P
  BY FoldStep
<1>2. ASSUME NEW s \in SUBSET S, s # {}, \A x \in s : s \ {x} \in P
      PROVE  s \in P
  <2>1. PICK x \in s : h[s] = f[x] + h[s \ {x}]
    BY <1>2, FoldStep
  <2>2. s \ {x} \in P
    BY <1>2
  <2>3. h[s \ {x}] \in Int /\ f[x] \in Int
    BY <2>2
  <2>4. h[s] \in Int
    BY <2>1, <2>3
  <2> QED
    BY <2>4
<1>3. SUBSET S \subseteq P
  <2> HIDE DEF P
  <2> QED
    BY <1>1, <1>2, SubsetInduct
<1> QED
  BY <1>3

\* Whichever element a fold takes first.
LEMMA FoldRemove ==
    ASSUME NEW f, NEW S, NEW h, IntFold(h, f, S)
    PROVE  \A s \in SUBSET S : \A x \in s : h[s] = f[x] + h[s \ {x}]
<1> USE DEF IntFold
<1> DEFINE P == {s \in SUBSET S : \A x \in s : h[s] = f[x] + h[s \ {x}]}
<1>1. {} \in P
  OBVIOUS
<1>2. ASSUME NEW s \in SUBSET S, s # {}, \A x \in s : s \ {x} \in P
      PROVE  s \in P
  <2>1. PICK y \in s : h[s] = f[y] + h[s \ {y}]
    BY <1>2, FoldStep
  <2>2. ASSUME NEW x \in s PROVE h[s] = f[x] + h[s \ {x}]
    <3>1. CASE x = y
      BY <2>1, <3>1
    <3>2. CASE x # y
      <4>1. h[s \ {y}] = f[x] + h[(s \ {y}) \ {x}]
        BY <1>2, <3>2
      <4>2. h[s \ {x}] = f[y] + h[(s \ {x}) \ {y}]
        BY <1>2, <3>2
      <4>3. (s \ {x}) \ {y} = (s \ {y}) \ {x}
        OBVIOUS
      <4> DEFINE rest == h[(s \ {y}) \ {x}]
      <4>4. rest \in Int
        BY FoldInt
      <4>5. h[s \ {y}] = f[x] + rest
        BY <4>1
      <4>6. h[s \ {x}] = f[y] + rest
        BY <4>2, <4>3
      <4>7. h[s] = f[y] + (f[x] + rest)
        BY <2>1, <4>5
      <4>8. f[y] + (f[x] + rest) = f[x] + (f[y] + rest)
        <5> HIDE DEF rest
        <5>1. f[x] \in Int /\ f[y] \in Int
          OBVIOUS
        <5> QED
          BY <4>4, <5>1
      <4> QED
        BY <4>6, <4>7, <4>8
    <3> QED
      BY <3>1, <3>2
  <2> QED
    BY <2>2
<1>3. SUBSET S \subseteq P
  <2> HIDE DEF P
  <2> QED
    BY <1>1, <1>2, SubsetInduct
<1> QED
  BY <1>3

\* Two folds agree where their functions do.
LEMMA FoldsAgree ==
    ASSUME NEW S, NEW f, NEW h, IntFold(h, f, S),
           NEW T, NEW g, NEW k, IntFold(k, g, T),
           NEW U \in SUBSET (S \cap T), \A x \in U : f[x] = g[x]
    PROVE  h[U] = k[U]
<1> DEFINE P == {s \in SUBSET U : h[s] = k[s]}
<1>1. {} \in P
  <2>1. h[{}] = 0 /\ k[{}] = 0
    BY FoldStep DEF IntFold
  <2> QED
    BY <2>1
<1>2. ASSUME NEW s \in SUBSET U, s # {}, \A x \in s : s \ {x} \in P
      PROVE  s \in P
  <2>1. PICK x \in s : TRUE
    BY <1>2
  <2>2. h[s] = f[x] + h[s \ {x}]
    <3>1. s \in SUBSET S
      OBVIOUS
    <3> QED
      BY <3>1, FoldRemove
  <2>3. k[s] = g[x] + k[s \ {x}]
    <3>1. s \in SUBSET T
      OBVIOUS
    <3> QED
      BY <3>1, FoldRemove
  <2> QED
    BY <1>2, <2>2, <2>3
<1>3. SUBSET U \subseteq P
  <2>1. IsFiniteSet(U)
    BY FS_Subset DEF IntFold
  <2> HIDE DEF P
  <2> QED
    BY <1>1, <1>2, <2>1, SubsetInduct
<1> QED
  BY <1>3

-----------------------------------------------------------------------------
\* The sum over a finite set is the value of a fold there.
LEMMA SumIsFold ==
    ASSUME NEW f, NEW S, IsFiniteSet(S)
    PROVE  \E h : Folds(h, f, S) /\ SumFunctionOnSet(f, S) = h[S]
<1>1. PICK g : Folds(g, f, S)
  BY FoldExists
<1> QED
  BY <1>1, Unfold

\* Nothing adds up to zero.
LEMMA SumEmpty == ASSUME NEW f PROVE SumFunctionOnSet(f, {}) = 0
<1>1. PICK h : Folds(h, f, {}) /\ SumFunctionOnSet(f, {}) = h[{}]
  BY SumIsFold, FS_EmptySet
<1> QED
  BY <1>1, FoldStep

\* Integers add up to an integer.
LEMMA SumInt ==
    ASSUME NEW f, NEW S, IsFiniteSet(S), \A x \in S : f[x] \in Int
    PROVE  SumFunctionOnSet(f, S) \in Int
<1>1. PICK h : Folds(h, f, S) /\ SumFunctionOnSet(f, S) = h[S]
  BY SumIsFold
<1> QED
  BY <1>1, FoldInt DEF IntFold

\* Equal functions have equal sums.
LEMMA SumSame ==
    ASSUME NEW f, NEW g, NEW S, IsFiniteSet(S), \A x \in S : f[x] \in Int /\ f[x] = g[x]
    PROVE  SumFunctionOnSet(f, S) = SumFunctionOnSet(g, S)
<1>1. PICK h : Folds(h, f, S) /\ SumFunctionOnSet(f, S) = h[S]
  BY SumIsFold
<1>2. PICK k : Folds(k, g, S) /\ SumFunctionOnSet(g, S) = k[S]
  BY SumIsFold
<1>3. h[S] = k[S]
  <2>1. S \in SUBSET (S \cap S)
    OBVIOUS
  <2>2. /\ IntFold(h, f, S) /\ IntFold(k, g, S)
        /\ \A x \in S : f[x] = g[x]
    BY <1>1, <1>2 DEF IntFold
  <2> QED
    BY <1>1, <1>2, <2>1, <2>2, FoldsAgree
<1> QED
  BY <1>1, <1>2, <1>3

\* One element of a sum.
LEMMA SumTake ==
    ASSUME NEW f, NEW S, IsFiniteSet(S), \A x \in S : f[x] \in Int, NEW x \in S
    PROVE  SumFunctionOnSet(f, S) = f[x] + SumFunctionOnSet(f, S \ {x})
<1>1. PICK h : Folds(h, f, S) /\ SumFunctionOnSet(f, S) = h[S]
  BY SumIsFold
<1>2. IsFiniteSet(S \ {x})
  BY FS_RemoveElement
<1>3. PICK k : Folds(k, f, S \ {x}) /\ SumFunctionOnSet(f, S \ {x}) = k[S \ {x}]
  BY <1>2, SumIsFold
<1>4. h[S] = f[x] + h[S \ {x}]
  BY <1>1, FoldRemove DEF IntFold
<1>5. h[S \ {x}] = k[S \ {x}]
  <2>1. S \ {x} \in SUBSET (S \cap (S \ {x}))
    OBVIOUS
  <2>2. IntFold(h, f, S) /\ IntFold(k, f, S \ {x})
    BY <1>1, <1>2, <1>3 DEF IntFold
  <2> QED
    BY <1>1, <1>2, <1>3, <2>1, <2>2, FoldsAgree
<1> QED
  BY <1>1, <1>3, <1>4, <1>5

\* Zeros add up to zero.
LEMMA SumZero ==
    ASSUME NEW f, NEW S, IsFiniteSet(S), \A x \in S : f[x] = 0
    PROVE  SumFunctionOnSet(f, S) = 0
<1> DEFINE P == {s \in SUBSET S : SumFunctionOnSet(f, s) = 0}
<1>1. {} \in P
  BY SumEmpty
<1>2. ASSUME NEW s \in SUBSET S, s # {}, \A x \in s : s \ {x} \in P
      PROVE  s \in P
  <2>1. PICK x \in s : TRUE
    BY <1>2
  <2>2. IsFiniteSet(s) /\ \A y \in s : f[y] \in Int
    BY FS_Subset
  <2>3. SumFunctionOnSet(f, s) = f[x] + SumFunctionOnSet(f, s \ {x})
    BY <2>2, SumTake
  <2>4. SumFunctionOnSet(f, s \ {x}) = 0 /\ f[x] = 0
    BY <1>2
  <2>5. SumFunctionOnSet(f, s) = 0
    BY <2>3, <2>4
  <2> QED
    BY <2>5
<1>3. SUBSET S \subseteq P
  <2> HIDE DEF P
  <2> QED
    BY <1>1, <1>2, SubsetInduct
<1> QED
  BY <1>3

\* g is f with another value at x.
Changes(f, g, S, x, v) ==
    /\ IsFiniteSet(S) /\ f \in [S -> Int] /\ x \in S /\ v \in Int
    /\ g = [f EXCEPT ![x] = v]

LEMMA SumChange ==
    ASSUME NEW S, NEW f, NEW g, NEW x, NEW v, Changes(f, g, S, x, v)
    PROVE  /\ SumFunctionOnSet(f, S) \in Int
           /\ SumFunctionOnSet(g, S) = SumFunctionOnSet(f, S) - f[x] + v
<1> DEFINE R == S \ {x}
<1>1. IsFiniteSet(S) /\ IsFiniteSet(R) /\ x \in S
  BY FS_RemoveElement DEF Changes
<1>2. /\ \A y \in S : f[y] \in Int /\ g[y] \in Int
      /\ g[x] = v /\ v \in Int
      /\ \A y \in R : f[y] \in Int /\ f[y] = g[y]
  BY DEF Changes
<1>3. SumFunctionOnSet(f, S) = f[x] + SumFunctionOnSet(f, R)
  <2>1. \A y \in S : f[y] \in Int
    BY <1>2
  <2> QED
    BY <1>1, <2>1, SumTake
<1>4. SumFunctionOnSet(g, S) = g[x] + SumFunctionOnSet(g, R)
  <2>1. \A y \in S : g[y] \in Int
    BY <1>2
  <2> QED
    BY <1>1, <2>1, SumTake
<1> HIDE DEF R
<1>5. SumFunctionOnSet(f, R) = SumFunctionOnSet(g, R)
  BY <1>1, <1>2, SumSame
<1>6. SumFunctionOnSet(f, R) \in Int
  BY <1>1, <1>2, SumInt
<1> DEFINE before == SumFunctionOnSet(f, S)
           after  == SumFunctionOnSet(g, S)
           rest   == SumFunctionOnSet(f, R)
<1>7. before = f[x] + rest /\ after = v + rest /\ rest \in Int /\ f[x] \in Int /\ v \in Int
  <2>1. f[x] \in Int /\ g[x] = v /\ v \in Int
    BY <1>1, <1>2
  <2>2. after = g[x] + rest
    BY <1>4, <1>5
  <2> QED
    BY <1>3, <1>6, <2>1, <2>2
<1> HIDE DEF before, after, rest
<1>8. before \in Int /\ after = before - f[x] + v
  BY <1>7
<1> QED
  BY <1>8 DEF before, after

\* The sum over two parts.
LEMMA SumSplit ==
    ASSUME NEW f, NEW S, IsFiniteSet(S), \A x \in S : f[x] \in Int, NEW T \in SUBSET S
    PROVE  SumFunctionOnSet(f, S) = SumFunctionOnSet(f, T) + SumFunctionOnSet(f, S \ T)
<1> DEFINE P == {s \in SUBSET T :
                   SumFunctionOnSet(f, S) = SumFunctionOnSet(f, s) + SumFunctionOnSet(f, S \ s)}
<1>1. {} \in P
  <2>1. SumFunctionOnSet(f, {}) = 0 /\ S \ {} = S
    BY SumEmpty
  <2>2. SumFunctionOnSet(f, S) \in Int
    BY SumInt
  <2> QED
    BY <2>1, <2>2
<1>2. ASSUME NEW s \in SUBSET T, s # {}, \A x \in s : s \ {x} \in P
      PROVE  s \in P
  <2>1. PICK x \in s : TRUE
    BY <1>2
  <2>2. /\ IsFiniteSet(s) /\ IsFiniteSet(S \ s)
        /\ IsFiniteSet(s \ {x}) /\ IsFiniteSet(S \ (s \ {x}))
    BY FS_Subset
  <2>3. SumFunctionOnSet(f, s) = f[x] + SumFunctionOnSet(f, s \ {x})
    BY <2>2, SumTake
  <2>4. SumFunctionOnSet(f, S \ (s \ {x})) = f[x] + SumFunctionOnSet(f, S \ s)
    <3>1. x \in S \ (s \ {x}) /\ (S \ (s \ {x})) \ {x} = S \ s
      OBVIOUS
    <3>2. SumFunctionOnSet(f, S \ (s \ {x}))
            = f[x] + SumFunctionOnSet(f, (S \ (s \ {x})) \ {x})
      BY <2>2, <3>1, SumTake
    <3> QED
      BY <3>1, <3>2
  <2>5. SumFunctionOnSet(f, S)
          = SumFunctionOnSet(f, s \ {x}) + SumFunctionOnSet(f, S \ (s \ {x}))
    BY <1>2
  <2>6. /\ f[x] \in Int
        /\ SumFunctionOnSet(f, s \ {x}) \in Int
        /\ SumFunctionOnSet(f, S \ s) \in Int
    BY <2>2, SumInt
  <2> QED
    BY <2>3, <2>4, <2>5, <2>6
<1>3. SUBSET T \subseteq P
  <2>1. IsFiniteSet(T)
    BY FS_Subset
  <2> HIDE DEF P
  <2> QED
    BY <1>1, <1>2, <2>1, SubsetInduct
<1> QED
  BY <1>3

\* f and g are one function, m renames the places of g.
Renames(m, f, g, S) ==
    /\ \A x \in S : g[x] = f[m[x]] /\ g[x] \in Int
    /\ \A x, y \in S : m[x] = m[y] => x = y

Places(m, S) == {m[x] : x \in S}

\* A sum under other names.
LEMMA SumRename ==
    ASSUME NEW f, NEW g, NEW m, NEW S, IsFiniteSet(S), Renames(m, f, g, S)
    PROVE  SumFunctionOnSet(f, Places(m, S)) = SumFunctionOnSet(g, S)
<1> DEFINE P == {s \in SUBSET S :
                   /\ IsFiniteSet({m[x] : x \in s})
                   /\ SumFunctionOnSet(f, {m[x] : x \in s}) = SumFunctionOnSet(g, s)}
<1> USE DEF Renames
<1>1. {} \in P
  <2>1. {m[x] : x \in {}} = {}
    OBVIOUS
  <2> QED
    BY <2>1, SumEmpty, FS_EmptySet
<1>2. ASSUME NEW s \in SUBSET S, s # {}, \A x \in s : s \ {x} \in P
      PROVE  s \in P
  <2>1. PICK x \in s : TRUE
    BY <1>2
  <2>2. {m[y] : y \in s} \ {m[x]} = {m[y] : y \in s \ {x}} /\ m[x] \in {m[y] : y \in s}
    OBVIOUS
  <2>3. {m[y] : y \in s} = {m[y] : y \in s \ {x}} \cup {m[x]}
    BY <2>2
  <2>4. IsFiniteSet({m[y] : y \in s})
    <3>1. s \ {x} \in P
      BY <1>2
    <3>2. IsFiniteSet({m[y] : y \in s \ {x}})
      BY <3>1
    <3> QED
      BY <2>3, <3>2, FS_AddElement
  <2>5. SumFunctionOnSet(f, {m[y] : y \in s})
          = f[m[x]] + SumFunctionOnSet(f, {m[y] : y \in s} \ {m[x]})
    <3>1. \A z \in {m[y] : y \in s} : f[z] \in Int
      OBVIOUS
    <3> QED
      BY <2>2, <2>4, <3>1, SumTake
  <2>6. SumFunctionOnSet(g, s) = g[x] + SumFunctionOnSet(g, s \ {x})
    BY FS_Subset, SumTake
  <2> QED
    BY <1>2, <2>2, <2>4, <2>5, <2>6
<1>3. SUBSET S \subseteq P
  <2> HIDE DEF P
  <2> QED
    BY <1>1, <1>2, SubsetInduct
<1> QED
  BY <1>3 DEF Places

\* A sum of naturals is a natural.
LEMMA SumNat ==
    ASSUME NEW f, NEW S, IsFiniteSet(S), \A x \in S : f[x] \in Nat
    PROVE  SumFunctionOnSet(f, S) \in Nat
<1> DEFINE P == {s \in SUBSET S : SumFunctionOnSet(f, s) \in Nat}
<1>1. {} \in P
  BY SumEmpty
<1>2. ASSUME NEW s \in SUBSET S, s # {}, \A x \in s : s \ {x} \in P
      PROVE  s \in P
  <2>1. PICK x \in s : TRUE
    BY <1>2
  <2>2. IsFiniteSet(s) /\ \A y \in s : f[y] \in Int
    BY FS_Subset
  <2>3. SumFunctionOnSet(f, s) = f[x] + SumFunctionOnSet(f, s \ {x})
    BY <2>1, <2>2, SumTake
  <2>4. SumFunctionOnSet(f, s \ {x}) \in Nat /\ f[x] \in Nat
    BY <1>2, <2>1
  <2> QED
    BY <2>3, <2>4
<1>3. SUBSET S \subseteq P
  <2> HIDE DEF P
  <2> QED
    BY <1>1, <1>2, SubsetInduct
<1> QED
  BY <1>3

-----------------------------------------------------------------------------
(* The customers' wallets *)

\* The part of a top-up that settles a debt is at most the amount and at most
\* the debt.
LEMMA SettledBounds ==
    ASSUME NEW amount \in Nat, NEW owed \in Nat
    PROVE  /\ DebtSettled(amount, owed) \in Nat
           /\ DebtSettled(amount, owed) <= amount
           /\ DebtSettled(amount, owed) <= owed
           /\ NetTopUp(amount, owed) \in Nat
           /\ NetTopUp(amount, owed) = amount - DebtSettled(amount, owed)
BY DEF DebtSettled, NetTopUp, Least

\* The trigger leaves the debt or makes it the deficit.
LEMMA SyncedBounds ==
    ASSUME NEW owed \in Nat, NEW bal \in Int
    PROVE  /\ Synced(owed, bal) \in Nat
           /\ Synced(owed, bal) = owed \/ Synced(owed, bal) = -bal
BY DEF Synced

\* What is taken from a customer at completion never takes it below zero, and
\* the subsidy never pays less than nothing.
LEMMA ShortfallBounds ==
    ASSUME NEW c \in Customers, NEW delta \in Int, balance[c] \in Int
    PROVE  /\ Taken(c, delta) \in Int
           /\ Taken(c, delta) > 0 => Taken(c, delta) <= balance[c]
           /\ delta < 0 => Taken(c, delta) = delta
           /\ Shortfall(c, delta) \in Nat
BY DEF Taken, Shortfall, FromCustomer, Least

LEMMA InitIndInv == Init => IndInv
<1> SUFFICES ASSUME Init PROVE IndInv
    OBVIOUS
<1>1. TypeOK
  <2>1. /\ NoTopUp \in TopUpRequest /\ NoTransfer \in TransferRequest
        /\ NoReversal \in ReversalRequest
    BY DEF NoTopUp, NoTransfer, NoReversal, TopUpRequest, TransferRequest,
           ReversalRequest
  <2> QED
    BY <2>1, WalletAssumption DEF Init, TypeOK, Statuses
<1>2. ReadingAccountedFor /\ TransferInProgress
    BY DEF Init, ReadingAccountedFor, TransferInProgress, NoTopUp, NoTransfer
<1>3. OverdraftIsAccountedFor /\ DebtIsAccountedFor
    BY WalletAssumption DEF Init, OverdraftIsAccountedFor, DebtIsAccountedFor
<1> QED
    BY <1>1, <1>2, <1>3 DEF IndInv

\* Requests that are only read change no money.
LEMMA TopUpReadStep ==
    ASSUME IndInv, NEW t \in TopUps, NEW c \in Customers, NEW a \in Amounts,
           TopUpRead(t, c, a)
    PROVE  IndInv'
<1> USE DEF IndInv
<1>1. a \in Nat /\ debt[c] \in Nat
    BY WalletAssumption DEF TypeOK
<1>2. TypeOK'
  <2>1. [phase |-> "read", who |-> c, amount |-> a, debt |-> debt[c]] \in TopUpRequest
    BY <1>1 DEF TopUpRequest
  <2>2. topup' \in [TopUps -> TopUpRequest]
    BY <2>1 DEF TopUpRead, TypeOK
  <2> QED
    BY <2>2 DEF TopUpRead, TypeOK, people, totals
<1>3. ReadingAccountedFor'
  <2> SUFFICES ASSUME NEW u \in TopUps, topup'[u].phase = "read"
               PROVE  /\ topup'[u].who \in Customers
                      /\ topup'[u].debt <= covered[topup'[u].who] + settled[topup'[u].who]
                                             + reversed[topup'[u].who]
    BY DEF TopUpRead, totals, ReadingAccountedFor
  <2>1. CASE u = t
    BY <2>1 DEF TopUpRead, TypeOK, DebtIsAccountedFor
  <2>2. CASE u # t
    BY <2>2 DEF TopUpRead, TypeOK, ReadingAccountedFor
  <2> QED
    BY <2>1, <2>2
<1>4. OverdraftIsAccountedFor' /\ DebtIsAccountedFor' /\ TransferInProgress'
    BY DEF TopUpRead, people, totals, OverdraftIsAccountedFor, DebtIsAccountedFor,
           TransferInProgress
<1> QED
    BY <1>2, <1>3, <1>4

\* The debt that was read is what the step writes, less what it settles.
LEMMA TopUpCommitStep ==
    ASSUME IndInv, NEW t \in TopUps, TopUpCommit(t)
    PROVE  IndInv'
<1> USE DEF IndInv
<1> DEFINE c == topup[t].who
           old == Old(t)
           net == Net(t)
<1>1. /\ c \in Customers
      /\ topup[t].amount \in Nat
      /\ topup[t].debt \in Nat
      /\ topup[t].debt <= covered[c] + settled[c] + reversed[c]
      /\ topup[t] \in TopUpRequest
    BY DEF TopUpCommit, ReadingAccountedFor, TypeOK, TopUpRequest
<1>2. /\ old \in Nat /\ old <= topup[t].debt
      /\ net \in Nat
    BY <1>1, SettledBounds DEF Old, Net
<1>3. /\ balance[c] \in Int /\ debt[c] \in Nat
      /\ settled[c] \in Nat /\ covered[c] \in Nat /\ reversed[c] \in Nat
    BY <1>1 DEF TypeOK
<1>4. Synced(debt[c], balance[c] + net) \in Nat
      /\ Synced(debt[c], balance[c] + net) \in {debt[c], -(balance[c] + net)}
  <2>1. balance[c] + net \in Int
    BY <1>2, <1>3
  <2> QED
    BY <1>3, <2>1, SyncedBounds
<1>5. /\ balance' = [balance EXCEPT ![c] = balance[c] - old + net]
      /\ debt' = [debt EXCEPT ![c] = IF old > 0 THEN topup[t].debt - old
                                     ELSE Synced(debt[c], balance[c] + net)]
      /\ settled' = [settled EXCEPT ![c] = settled[c] + old]
      /\ topup' = [topup EXCEPT ![t].phase = "COMPLETED"]
      /\ standing' = standing \cup {t}
      /\ system' = [system EXCEPT !["platform"] = system["platform"] + old,
                                  !["bank"] = system["bank"] - net]
      /\ UNCHANGED <<status, held, transfer, reversal, covered, reversed>>
    BY DEF TopUpCommit
<1> HIDE DEF c, old, net
<1>6. /\ balance'[c] = balance[c] - old + net
      /\ settled'[c] = settled[c] + old
      /\ debt'[c] = IF old > 0 THEN topup[t].debt - old
                    ELSE Synced(debt[c], balance[c] + net)
      /\ \A e \in Customers : e # c => /\ balance'[e] = balance[e]
                                       /\ settled'[e] = settled[e]
                                       /\ debt'[e] = debt[e]
    BY <1>1, <1>5 DEF TypeOK
<1>7. debt'[c] \in Nat /\ debt'[c] <= covered[c] + settled'[c] + reversed[c]
    BY <1>1, <1>2, <1>3, <1>4, <1>6 DEF OverdraftIsAccountedFor, DebtIsAccountedFor
<1>8. system' \in [Systems -> Int] /\ standing' \subseteq Postings
    BY <1>2, <1>5 DEF TypeOK, Systems, Postings
<1>9. TypeOK'
  <2>1. topup' \in [TopUps -> TopUpRequest]
    BY <1>1, <1>5 DEF TypeOK, TopUpRequest
  <2>2. balance' \in [Customers -> Int] /\ settled' \in [Customers -> Nat]
    <3>1. balance[c] - old + net \in Int /\ settled[c] + old \in Nat
      BY <1>2, <1>3
    <3> QED
      BY <1>5, <3>1 DEF TypeOK
  <2>3. debt' \in [Customers -> Nat]
    BY <1>1, <1>5, <1>6, <1>7 DEF TypeOK
  <2> QED
    BY <1>2, <1>5, <1>8, <2>1, <2>2, <2>3 DEF TypeOK
<1>10. OverdraftIsAccountedFor' /\ DebtIsAccountedFor'
    BY <1>2, <1>3, <1>5, <1>6, <1>7 DEF OverdraftIsAccountedFor, DebtIsAccountedFor
<1>11. ReadingAccountedFor'
  <2> SUFFICES ASSUME NEW u \in TopUps, topup'[u].phase = "read"
               PROVE  /\ topup'[u].who \in Customers
                      /\ topup'[u].debt <= covered[topup'[u].who] + settled'[topup'[u].who]
                                             + reversed[topup'[u].who]
    BY <1>5 DEF ReadingAccountedFor
  <2>1. topup'[u] = topup[u] /\ u # t
    BY <1>5 DEF TypeOK
  <2>2. /\ topup[u].who \in Customers
        /\ topup[u].debt <= covered[topup[u].who] + settled[topup[u].who]
                              + reversed[topup[u].who]
        /\ topup[u].debt \in Nat
    BY <2>1 DEF ReadingAccountedFor, TypeOK, TopUpRequest
  <2>3. settled[topup[u].who] <= settled'[topup[u].who]
        /\ settled[topup[u].who] \in Nat /\ settled'[topup[u].who] \in Nat
        /\ covered[topup[u].who] \in Nat /\ reversed[topup[u].who] \in Nat
    BY <1>2, <1>3, <1>6, <2>2 DEF TypeOK
  <2> QED
    BY <2>1, <2>2, <2>3
<1>12. TransferInProgress'
    BY <1>5 DEF TransferInProgress
<1> QED
    BY <1>9, <1>10, <1>11, <1>12

LEMMA TransferReadStep ==
    ASSUME IndInv, NEW x \in Transfers, NEW from \in Customers, NEW to \in Customers,
           NEW a \in Amounts, TransferRead(x, from, to, a)
    PROVE  IndInv'
<1> USE DEF IndInv
<1>1. [phase |-> "read", from |-> from, to |-> to, amount |-> a] \in TransferRequest
    BY WalletAssumption DEF TransferRequest
<1>2. TypeOK'
    BY <1>1 DEF TransferRead, TypeOK, people, totals
<1>3. TransferInProgress'
    BY DEF TransferRead, TransferInProgress, TypeOK
<1>4. OverdraftIsAccountedFor' /\ DebtIsAccountedFor' /\ ReadingAccountedFor'
    BY DEF TransferRead, people, totals, OverdraftIsAccountedFor, DebtIsAccountedFor,
           ReadingAccountedFor
<1> QED
    BY <1>2, <1>3, <1>4

LEMMA TransferCommitStep ==
    ASSUME IndInv, NEW x \in Transfers, TransferCommit(x)
    PROVE  IndInv'
<1> USE DEF IndInv
<1> DEFINE from == transfer[x].from
           to   == transfer[x].to
           amt  == transfer[x].amount
<1>1. /\ from \in Customers /\ to \in Customers /\ from # to
      /\ amt \in Nat
      /\ transfer[x] \in TransferRequest
    BY DEF TransferCommit, TransferInProgress, TypeOK, TransferRequest
<1>2. /\ balance[from] \in Int /\ balance[to] \in Int
      /\ debt[to] \in Nat
      /\ balance[from] >= amt
    BY <1>1 DEF TypeOK, TransferCommit, Affords
<1>3. /\ Synced(debt[to], balance[to] + amt) \in Nat
      /\ Synced(debt[to], balance[to] + amt) \in {debt[to], -(balance[to] + amt)}
    BY <1>1, <1>2, SyncedBounds
<1>4. /\ balance' = [balance EXCEPT ![from] = balance[from] - amt,
                                    ![to] = balance[to] + amt]
      /\ debt' = [debt EXCEPT ![to] = Synced(debt[to], balance[to] + amt)]
      /\ transfer' = [transfer EXCEPT ![x].phase = "done"]
      /\ standing' = standing \cup {x}
      /\ UNCHANGED <<status, held, system, topup, reversal, settled, covered, reversed>>
    BY DEF TransferCommit, totals
<1> HIDE DEF from, to, amt
<1>5. TypeOK'
  <2>1. balance' \in [Customers -> Int] /\ debt' \in [Customers -> Nat]
    BY <1>1, <1>2, <1>3, <1>4 DEF TypeOK
  <2>2. transfer' \in [Transfers -> TransferRequest]
    BY <1>1, <1>4 DEF TypeOK, TransferRequest
  <2>3. standing' \subseteq Postings
    BY <1>4 DEF TypeOK, Postings
  <2> QED
    BY <1>4, <2>1, <2>2, <2>3 DEF TypeOK
<1>6. OverdraftIsAccountedFor'
  <2> SUFFICES ASSUME NEW e \in Customers
               PROVE balance'[e] + settled[e] + reversed[e] >= 0
    BY <1>4 DEF OverdraftIsAccountedFor
  <2>1. /\ balance[e] \in Int /\ settled[e] \in Nat /\ reversed[e] \in Nat
        /\ balance[e] + settled[e] + reversed[e] >= 0
    BY DEF TypeOK, OverdraftIsAccountedFor
  <2>2. balance'[e] = IF e = to THEN balance[to] + amt
                      ELSE IF e = from THEN balance[from] - amt ELSE balance[e]
    BY <1>1, <1>4 DEF TypeOK
  <2> QED
    BY <1>1, <1>2, <2>1, <2>2
<1>7. DebtIsAccountedFor'
  <2> SUFFICES ASSUME NEW e \in Customers PROVE debt'[e] <= covered[e] + settled[e] + reversed[e]
    BY <1>4 DEF DebtIsAccountedFor
  <2>1. /\ settled[e] \in Nat /\ covered[e] \in Nat /\ debt[e] \in Nat
        /\ reversed[e] \in Nat
        /\ balance[e] \in Int /\ balance[e] + settled[e] + reversed[e] >= 0
        /\ debt[e] <= covered[e] + settled[e] + reversed[e]
    BY DEF TypeOK, OverdraftIsAccountedFor, DebtIsAccountedFor
  <2>2. debt'[e] = IF e = to THEN Synced(debt[to], balance[to] + amt) ELSE debt[e]
    BY <1>1, <1>4 DEF TypeOK
  <2> QED
    BY <1>1, <1>3, <2>1, <2>2
<1>8. ReadingAccountedFor' /\ TransferInProgress'
    BY <1>4 DEF ReadingAccountedFor, TransferInProgress, TypeOK
<1> QED
    BY <1>4, <1>5, <1>6, <1>7, <1>8

\* A posting on one customer's wallet keeps the invariant when it leaves the
\* bounds of that customer in place.
LEMMA PostingStep ==
    ASSUME IndInv, NEW c \in Customers, NEW b \in Int, NEW o \in Nat,
           NEW k \in Nat, NEW h \in Nat,
           balance' = [balance EXCEPT ![c] = b],
           debt' = [debt EXCEPT ![c] = o],
           covered' = [covered EXCEPT ![c] = k],
           held' = [held EXCEPT ![c] = h],
           k >= covered[c],
           b + settled[c] + reversed[c] >= 0,
           o <= k + settled[c] + reversed[c],
           system' \in [Systems -> Int],
           UNCHANGED <<status, requests, settled, reversed>>
    PROVE  IndInv'
<1> USE DEF IndInv
<1>1. TypeOK'
    BY DEF TypeOK, requests
<1>2. \A e \in Customers :
        /\ balance'[e] = IF e = c THEN b ELSE balance[e]
        /\ debt'[e] = IF e = c THEN o ELSE debt[e]
        /\ covered'[e] = IF e = c THEN k ELSE covered[e]
        /\ settled'[e] = settled[e] /\ reversed'[e] = reversed[e]
    BY DEF TypeOK
<1>3. OverdraftIsAccountedFor' /\ DebtIsAccountedFor'
    BY <1>2 DEF OverdraftIsAccountedFor, DebtIsAccountedFor
<1>4. ReadingAccountedFor'
  <2> SUFFICES ASSUME NEW t \in TopUps, topup[t].phase = "read"
               PROVE  /\ topup[t].who \in Customers
                      /\ topup[t].debt <= covered'[topup[t].who] + settled[topup[t].who]
                                            + reversed[topup[t].who]
    BY DEF ReadingAccountedFor, requests
  <2>1. /\ topup[t].who \in Customers
        /\ topup[t].debt <= covered[topup[t].who] + settled[topup[t].who]
                              + reversed[topup[t].who]
        /\ topup[t].debt \in Nat
        /\ covered[topup[t].who] \in Nat /\ settled[topup[t].who] \in Nat
        /\ reversed[topup[t].who] \in Nat
    BY DEF ReadingAccountedFor, TypeOK, TopUpRequest
  <2>2. covered'[topup[t].who] >= covered[topup[t].who] /\ covered'[topup[t].who] \in Nat
    BY <1>2, <2>1
  <2> QED
    BY <2>1, <2>2
<1>5. TransferInProgress'
    BY DEF TransferInProgress, requests
<1> QED
    BY <1>1, <1>3, <1>4, <1>5

LEMMA HoldStep ==
    ASSUME IndInv, NEW c \in Customers, NEW a \in Amounts, Hold(c, a)
    PROVE  IndInv'
<1>1. a \in Nat /\ TypeOK /\ debt[c] <= covered[c] + settled[c] + reversed[c]
    BY WalletAssumption DEF IndInv, DebtIsAccountedFor
<1>2. balance[c] - a \in Int /\ balance[c] - a + settled[c] + reversed[c] >= 0
    BY <1>1 DEF TypeOK, Hold, Affords
<1>3. debt' = [debt EXCEPT ![c] = debt[c]] /\ covered' = [covered EXCEPT ![c] = covered[c]]
    BY <1>1 DEF Hold, TypeOK, totals
<1>4. /\ system' \in [Systems -> Int]
      /\ balance' = [balance EXCEPT ![c] = balance[c] - a]
      /\ held' = [held EXCEPT ![c] = a]
      /\ UNCHANGED <<status, requests, settled, reversed>>
    BY <1>1 DEF Hold, TypeOK, Systems, totals
<1>5. debt[c] \in Nat /\ covered[c] \in Nat /\ covered[c] >= covered[c]
    BY <1>1 DEF TypeOK
<1> HIDE DEF IndInv
<1> QED
    BY <1>1, <1>2, <1>3, <1>4, <1>5, PostingStep

LEMMA RefundStep ==
    ASSUME IndInv, NEW c \in Customers, Refund(c)
    PROVE  IndInv'
<1> DEFINE b == balance[c] + held[c]
           o == Synced(debt[c], b)
<1>1. /\ TypeOK
      /\ debt[c] <= covered[c] + settled[c] + reversed[c]
      /\ balance[c] + settled[c] + reversed[c] >= 0
      /\ balance[c] \in Int /\ held[c] \in Nat
      /\ debt[c] \in Nat /\ covered[c] \in Nat /\ settled[c] \in Nat
      /\ reversed[c] \in Nat
    BY DEF IndInv, TypeOK, DebtIsAccountedFor, OverdraftIsAccountedFor
<1>2. b \in Int /\ b + settled[c] + reversed[c] >= 0
    BY <1>1
<1>3. o \in Nat /\ (o = debt[c] \/ o = -b)
    BY <1>1, <1>2, SyncedBounds
<1>4. /\ balance' = [balance EXCEPT ![c] = b]
      /\ debt' = [debt EXCEPT ![c] = o]
      /\ held' = [held EXCEPT ![c] = 0]
      /\ covered' = [covered EXCEPT ![c] = covered[c]]
      /\ system' \in [Systems -> Int]
      /\ UNCHANGED <<status, requests, settled, reversed>>
    BY <1>1 DEF Refund, TypeOK, Systems, totals
<1> HIDE DEF b, o
<1>5. o <= covered[c] + settled[c] + reversed[c] /\ covered[c] >= covered[c]
    BY <1>1, <1>2, <1>3
<1> QED
    BY <1>1, <1>2, <1>3, <1>4, <1>5, PostingStep

LEMMA CompleteStep ==
    ASSUME IndInv, NEW c \in Customers, NEW d \in Deltas, Complete(c, d)
    PROVE  IndInv'
<1> DEFINE tk == Taken(c, d)
           sh == Shortfall(c, d)
           ow == Owed(c, d)
<1>1. /\ TypeOK
      /\ debt[c] <= covered[c] + settled[c] + reversed[c]
      /\ balance[c] + settled[c] + reversed[c] >= 0
      /\ balance[c] \in Int /\ held[c] \in Nat /\ d \in Int
      /\ debt[c] \in Nat /\ covered[c] \in Nat /\ settled[c] \in Nat
      /\ reversed[c] \in Nat
    BY WalletAssumption DEF IndInv, TypeOK, DebtIsAccountedFor, OverdraftIsAccountedFor
<1>2. /\ tk \in Int /\ sh \in Nat
      /\ tk > 0 => tk <= balance[c]
      /\ d < 0 => tk = d
    BY <1>1, ShortfallBounds
<1>6. ow \in Nat /\ ow <= covered[c] + sh + settled[c] + reversed[c]
  <2>1. CASE d < 0
    <3>1. balance[c] - d \in Int
      BY <1>1
    <3>2. ow = Synced(debt[c], balance[c] - d)
      BY <2>1 DEF Owed
    <3>3. ow \in Nat /\ (ow = debt[c] \/ ow = -(balance[c] - d))
      BY <1>1, <3>1, <3>2, SyncedBounds
    <3> HIDE DEF ow, sh, tk
    <3> QED
      BY <1>1, <1>2, <2>1, <3>3
  <2>2. CASE d >= 0
    <3>1. ow = debt[c] + sh
      BY <1>1, <2>2 DEF Owed
    <3> HIDE DEF ow, sh, tk
    <3> QED
      BY <1>1, <1>2, <3>1
  <2> QED
    BY <1>1, <2>1, <2>2
<1>3. /\ balance' = [balance EXCEPT ![c] = balance[c] - tk]
      /\ debt' = [debt EXCEPT ![c] = ow]
      /\ covered' = [covered EXCEPT ![c] = covered[c] + sh]
      /\ held' = [held EXCEPT ![c] = 0]
      /\ system' = [system EXCEPT
                       !["subsidy"] = system["subsidy"] - sh,
                       !["escrow"] = system["escrow"] + tk + sh - held[c] - d,
                       !["driver"] = system["driver"] + held[c] + d]
      /\ UNCHANGED <<status, requests, settled, reversed>>
    BY DEF Complete
<1> HIDE DEF tk, sh, ow
<1>4. system' \in [Systems -> Int]
    BY <1>1, <1>2, <1>3 DEF TypeOK, Systems
<1>5. /\ balance[c] - tk \in Int /\ balance[c] - tk + settled[c] + reversed[c] >= 0
      /\ covered[c] + sh \in Nat
      /\ covered[c] + sh >= covered[c]
  <2>1. tk <= 0 \/ tk <= balance[c]
    BY <1>2
  <2> QED
    BY <1>1, <1>2, <2>1
<1> QED
    BY <1>3, <1>4, <1>5, <1>6, PostingStep

LEMMA PayWithdrawalStep ==
    ASSUME IndInv, NEW a \in Amounts, PayWithdrawal(a)
    PROVE  IndInv'
<1> USE DEF IndInv
<1>1. a \in Nat
    BY WalletAssumption
<1>2. system' \in [Systems -> Int]
    BY <1>1 DEF PayWithdrawal, TypeOK, Systems
<1>3. UNCHANGED <<people, requests, totals>>
    BY DEF PayWithdrawal
<1>4. TypeOK'
    BY <1>1, <1>2, <1>3 DEF TypeOK, people, requests, totals
<1>5. OverdraftIsAccountedFor' /\ DebtIsAccountedFor' /\ ReadingAccountedFor'
        /\ TransferInProgress'
    BY <1>3 DEF people, requests, totals, OverdraftIsAccountedFor, DebtIsAccountedFor,
                ReadingAccountedFor, TransferInProgress
<1> QED
    BY <1>4, <1>5

\* What the entries of a posting credit or debit is a number, and not negative
\* on a customer's wallet.
LEMMA EntriesNumbers ==
    ASSUME TypeOK, NEW p \in Postings
    PROVE  /\ \A w \in Customers \cup Systems : Credits(p)[w] \in Nat /\ Debits(p)[w] \in Int
           /\ \A c \in Customers : Debits(p)[c] \in Nat
<1> USE DEF Zero
<1>1. CASE p \in TopUps
  <2>1. topup[p].amount \in Nat /\ topup[p].debt \in Nat
    BY <1>1 DEF TypeOK, TopUpRequest
  <2>2. Old(p) \in Nat /\ Net(p) \in Nat
    BY <2>1, SettledBounds DEF Old, Net
  <2> QED
    BY <1>1, <2>2 DEF Credits, Debits
<1>2. CASE p \notin TopUps /\ p \in Transfers
  <2>1. transfer[p].amount \in Nat
    BY <1>2 DEF TypeOK, TransferRequest
  <2> QED
    BY <1>2, <2>1 DEF Credits, Debits
<1>3. CASE p \notin TopUps /\ p \notin Transfers
  <2>1. reversal[p].refund \in Nat /\ reversal[p].clawed \in Nat
    BY <1>3 DEF TypeOK, ReversalRequest, Postings
  <2>2. \A c \in Customers : c # "platform" /\ c # "receivable"
    BY WalletAssumption DEF Systems
  <2> QED
    BY <1>3, <2>1, <2>2 DEF Credits, Debits
<1> QED
  BY <1>1, <1>2, <1>3

\* So are the totals of a set of postings.
LEMMA TotalsNumbers ==
    ASSUME TypeOK, NEW ps \in SUBSET Postings
    PROVE  /\ \A w \in Customers \cup Systems :
                 CreditTo(w, ps) \in Nat /\ DebitFrom(w, ps) \in Int
           /\ \A c \in Customers : DebitFrom(c, ps) \in Nat
           /\ SettledShares(ps) \in Nat
<1>1. IsFiniteSet(Postings)
  BY WalletAssumption, FS_Union DEF Postings
<1>2. IsFiniteSet(ps) /\ IsFiniteSet(ps \cap TopUps)
  BY <1>1, FS_Subset
<1>3. ASSUME NEW w \in Customers \cup Systems
      PROVE  CreditTo(w, ps) \in Nat /\ DebitFrom(w, ps) \in Int
  <2> DEFINE f == [p \in ps |-> Credits(p)[w]]
             g == [p \in ps |-> Debits(p)[w]]
  <2>1. \A p \in ps : f[p] \in Nat /\ g[p] \in Int
    BY EntriesNumbers
  <2> HIDE DEF f, g
  <2>2. SumFunctionOnSet(f, ps) \in Nat /\ SumFunctionOnSet(g, ps) \in Int
    BY <1>2, <2>1, SumNat, SumInt
  <2> QED
    BY <2>2 DEF f, g, CreditTo, DebitFrom
<1>4. ASSUME NEW c \in Customers
      PROVE  DebitFrom(c, ps) \in Nat
  <2> DEFINE g == [p \in ps |-> Debits(p)[c]]
  <2>1. \A p \in ps : g[p] \in Nat
    BY EntriesNumbers
  <2> HIDE DEF g
  <2>2. SumFunctionOnSet(g, ps) \in Nat
    BY <1>2, <2>1, SumNat
  <2> QED
    BY <2>2 DEF g, DebitFrom
<1>5. SettledShares(ps) \in Nat
  <2> DEFINE g == [t \in ps \cap TopUps |-> Old(t)]
  <2>1. ASSUME NEW t \in ps \cap TopUps PROVE g[t] \in Nat
    <3>1. topup[t].amount \in Nat /\ topup[t].debt \in Nat
      BY DEF TypeOK, TopUpRequest
    <3> QED
      BY <3>1, SettledBounds DEF Old
  <2> HIDE DEF g
  <2>2. SumFunctionOnSet(g, ps \cap TopUps) \in Nat
    BY <1>2, <2>1, SumNat
  <2> QED
    BY <2>2 DEF g, SettledShares
<1> QED
  BY <1>3, <1>4, <1>5

LEMMA ReverseReadStep ==
    ASSUME IndInv, NEW r \in Reversals, NEW q \in TopUps \cup Transfers, ReverseRead(r, q)
    PROVE  IndInv'
<1> USE DEF IndInv
<1> DEFINE found == {p \in standing : p = q \/ (p \in Reversals /\ reversal[p].of = q)}
<1>1. found \in SUBSET Postings
  BY DEF TypeOK
<1>2. [NoReversal EXCEPT !.phase = "read", !.of = q, !.ids = found] \in ReversalRequest
  BY <1>1 DEF NoReversal, ReversalRequest
<1>3. /\ reversal' = [reversal EXCEPT ![r] =
                        [NoReversal EXCEPT !.phase = "read", !.of = q, !.ids = found]]
      /\ UNCHANGED <<people, system, topup, transfer, standing, totals>>
  BY DEF ReverseRead
<1> HIDE DEF found
<1>4. TypeOK'
  BY <1>2, <1>3 DEF TypeOK, people, totals
<1>5. OverdraftIsAccountedFor' /\ DebtIsAccountedFor' /\ ReadingAccountedFor'
        /\ TransferInProgress'
  BY <1>3 DEF people, totals, OverdraftIsAccountedFor, DebtIsAccountedFor,
              ReadingAccountedFor, TransferInProgress
<1> QED
  BY <1>4, <1>5

\* What a reversal takes back from a customer is counted in reversed, and the
\* balance falls by no more.
LEMMA ReverseCommitStep ==
    ASSUME IndInv, NEW r \in Reversals, NEW payer \in Customers \cup Systems,
           NEW early \in BOOLEAN, ReverseCommit(r, payer, early)
    PROVE  IndInv'
<1> USE DEF IndInv
<1> DEFINE ids    == reversal[r].ids
           live   == ids \cap standing
           refund == SettledShares(ids)
           clawed == PlatformGives(refund)
           given  == [c \in Customers |-> IF c = payer THEN refund ELSE 0]
           back   == [c \in Customers |-> DebitFrom(c, live)]
           taken  == [c \in Customers |-> CreditTo(c, live)]
           low    == [c \in Customers |->
                        LowPoint(balance[c] + given[c], given[c], back[c], taken[c], early)]
<1>1. ids \in SUBSET Postings /\ live \in SUBSET Postings /\ reversal[r] \in ReversalRequest
  BY DEF TypeOK, ReversalRequest
<1>2. refund \in Nat /\ clawed \in Nat
  <2>1. refund \in Nat
    BY <1>1, TotalsNumbers
  <2>2. system["platform"] \in Int
    BY DEF TypeOK, Systems
  <2> HIDE DEF refund
  <2> QED
    BY <2>1, <2>2 DEF PlatformGives
<1>3. /\ given \in [Customers -> Nat]
      /\ back \in [Customers -> Nat]
      /\ taken \in [Customers -> Nat]
  BY <1>1, <1>2, TotalsNumbers
<1>4. /\ balance' = [c \in Customers |-> balance[c] + given[c] + back[c] - taken[c]]
      /\ debt' = [c \in Customers |->
                     IF given[c] + back[c] + taken[c] > 0 THEN Synced(debt[c], low[c])
                     ELSE debt[c]]
      /\ reversal' = [reversal EXCEPT ![r] =
                         [reversal[r] EXCEPT !.phase = "done", !.ids = {},
                                   !.payer = IF refund > 0 THEN payer ELSE None,
                                   !.refund = refund, !.clawed = clawed]]
      /\ standing' = (standing \ ids) \cup (IF refund > 0 THEN {r} ELSE {})
      /\ reversed' = [c \in Customers |-> reversed[c] + taken[c]]
      /\ UNCHANGED <<status, held, topup, transfer, settled, covered>>
  BY DEF ReverseCommit
<1>5. system' \in [Systems -> Int]
  <2>1. /\ \A s \in Systems : system[s] \in Int /\ CreditTo(s, live) \in Int
                                /\ DebitFrom(s, live) \in Int
        /\ system \in [Systems -> Int]
    <3> HIDE DEF live
    <3>1. \A s \in Systems : CreditTo(s, live) \in Nat /\ DebitFrom(s, live) \in Int
      BY <1>1, TotalsNumbers
    <3> QED
      BY <3>1 DEF TypeOK
  <2>2. "bank" \in Systems /\ "platform" \in Systems /\ "receivable" \in Systems
    BY DEF Systems
  <2> DEFINE bank == system["bank"] + (IF payer = "bank" THEN refund ELSE 0)
                       + DebitFrom("bank", live) - CreditTo("bank", live)
             plat == system["platform"] - clawed + DebitFrom("platform", live)
                       - CreditTo("platform", live)
             recv == system["receivable"] - (refund - clawed)
                       + DebitFrom("receivable", live)
  <2>3. system' = [system EXCEPT !["bank"] = bank, !["platform"] = plat,
                                 !["receivable"] = recv]
    BY DEF ReverseCommit
  <2> HIDE DEF live, refund, clawed
  <2>4. bank \in Int /\ plat \in Int /\ recv \in Int
    BY <1>2, <2>1, <2>2
  <2> HIDE DEF bank, plat, recv
  <2> QED
    BY <2>1, <2>3, <2>4
<1> HIDE DEF ids, refund, clawed, live, given, back, taken
\* However the rows are ordered, the trigger never sees a customer lower than where
\* it started less what is taken back.
<1>6. \A c \in Customers :
        /\ low[c] \in Int
        /\ low[c] >= balance[c] - taken[c]
  <2> SUFFICES ASSUME NEW c \in Customers
               PROVE  low[c] \in Int /\ low[c] >= balance[c] - taken[c]
    OBVIOUS
  <2>1. /\ balance[c] \in Int /\ given[c] \in Nat /\ back[c] \in Nat /\ taken[c] \in Nat
        /\ balance[c] + given[c] \in Int
    BY <1>3 DEF TypeOK
  <2>2. low[c] = LowPoint(balance[c] + given[c], given[c], back[c], taken[c], early)
    OBVIOUS
  <2> HIDE DEF low
  <2>3. low[c] \in Int /\ low[c] >= balance[c] + given[c] - taken[c]
    BY <2>1, <2>2 DEF LowPoint, Least
  <2> QED
    BY <2>1, <2>3
<1> HIDE DEF low
<1>7. ASSUME NEW c \in Customers
      PROVE  /\ balance'[c] \in Int /\ debt'[c] \in Nat /\ reversed'[c] \in Nat
             /\ reversed'[c] >= reversed[c]
             /\ balance'[c] + settled[c] + reversed'[c] >= 0
             /\ debt'[c] <= covered[c] + settled[c] + reversed'[c]
  <2>1. /\ balance[c] \in Int /\ debt[c] \in Nat /\ reversed[c] \in Nat
        /\ settled[c] \in Nat /\ covered[c] \in Nat
        /\ given[c] \in Nat /\ back[c] \in Nat /\ taken[c] \in Nat
        /\ low[c] \in Int /\ low[c] >= balance[c] - taken[c]
    BY <1>3, <1>6 DEF TypeOK
  <2>2. /\ balance[c] + settled[c] + reversed[c] >= 0
        /\ debt[c] <= covered[c] + settled[c] + reversed[c]
    BY DEF OverdraftIsAccountedFor, DebtIsAccountedFor
  <2>3. Synced(debt[c], low[c]) \in Nat /\ Synced(debt[c], low[c]) \in {debt[c], -low[c]}
    BY <2>1, SyncedBounds
  <2>4. /\ balance'[c] = balance[c] + given[c] + back[c] - taken[c]
        /\ reversed'[c] = reversed[c] + taken[c]
        /\ debt'[c] \in {debt[c], Synced(debt[c], low[c])}
    BY <1>4
  <2> QED
    BY <2>1, <2>2, <2>3, <2>4
<1>8. TypeOK'
  <2>1. /\ balance' \in [Customers -> Int] /\ debt' \in [Customers -> Nat]
        /\ reversed' \in [Customers -> Nat]
    BY <1>4, <1>7
  <2>2. reversal' \in [Reversals -> ReversalRequest]
    BY <1>1, <1>2, <1>4 DEF TypeOK, ReversalRequest
  <2>3. standing' \subseteq Postings
    BY <1>4 DEF TypeOK, Postings
  <2> QED
    BY <1>4, <1>5, <2>1, <2>2, <2>3 DEF TypeOK
<1>9. OverdraftIsAccountedFor' /\ DebtIsAccountedFor'
  BY <1>4, <1>7 DEF OverdraftIsAccountedFor, DebtIsAccountedFor
<1>10. ReadingAccountedFor'
  <2> SUFFICES ASSUME NEW t \in TopUps, topup[t].phase = "read"
               PROVE  /\ topup[t].who \in Customers
                      /\ topup[t].debt <= covered[topup[t].who] + settled[topup[t].who]
                                            + reversed'[topup[t].who]
    BY <1>4 DEF ReadingAccountedFor
  <2>1. /\ topup[t].who \in Customers
        /\ topup[t].debt <= covered[topup[t].who] + settled[topup[t].who]
                              + reversed[topup[t].who]
        /\ topup[t].debt \in Nat
        /\ covered[topup[t].who] \in Nat /\ settled[topup[t].who] \in Nat
        /\ reversed[topup[t].who] \in Nat
    BY DEF ReadingAccountedFor, TypeOK, TopUpRequest
  <2>2. reversed'[topup[t].who] \in Nat /\ reversed'[topup[t].who] >= reversed[topup[t].who]
    BY <1>7, <2>1
  <2> QED
    BY <2>1, <2>2
<1>11. TransferInProgress'
  BY <1>4 DEF TransferInProgress
<1> QED
  BY <1>8, <1>9, <1>10, <1>11

LEMMA QuietStep ==
    ASSUME IndInv,
           \/ \E c \in Customers, new \in NewStatuses : UpdateWalletStatus(c, new)
           \/ UNCHANGED vars
    PROVE  IndInv'
<1> USE DEF IndInv
<1>1. /\ UNCHANGED <<balance, debt, held, system, requests, totals>>
      /\ status' \in [Customers -> Statuses]
    BY WalletAssumption DEF UpdateWalletStatus, vars, people, TypeOK
<1> QED
    BY <1>1 DEF TypeOK, requests, totals, OverdraftIsAccountedFor, DebtIsAccountedFor,
                ReadingAccountedFor, TransferInProgress

\* Every step keeps the inductive invariant.
LEMMA NextIndInv == IndInv /\ [Next]_vars => IndInv'
<1> SUFFICES ASSUME IndInv, [Next]_vars PROVE IndInv'
    OBVIOUS
<1>1. CASE \E t \in TopUps, c \in Customers, a \in Amounts : TopUpRead(t, c, a)
    BY <1>1, TopUpReadStep
<1>2. CASE \E t \in TopUps : TopUpCommit(t)
    BY <1>2, TopUpCommitStep
<1>3. CASE \E x \in Transfers, from, to \in Customers, a \in Amounts :
              TransferRead(x, from, to, a)
    BY <1>3, TransferReadStep
<1>4. CASE \E x \in Transfers : TransferCommit(x)
    BY <1>4, TransferCommitStep
<1>5. CASE \E c \in Customers, a \in Amounts : Hold(c, a)
    BY <1>5, HoldStep
<1>6. CASE \E c \in Customers : Refund(c)
    BY <1>6, RefundStep
<1>7. CASE \E c \in Customers, d \in Deltas : Complete(c, d)
    BY <1>7, CompleteStep
<1>8. CASE \E a \in Amounts : PayWithdrawal(a)
    BY <1>8, PayWithdrawalStep
<1>10. CASE \E r \in Reversals, q \in TopUps \cup Transfers : ReverseRead(r, q)
    BY <1>10, ReverseReadStep
<1>11. CASE \E r \in Reversals, payer \in Customers \cup Systems, early \in BOOLEAN :
               ReverseCommit(r, payer, early)
    BY <1>11, ReverseCommitStep
<1>9. CASE \/ \E c \in Customers, new \in NewStatuses : UpdateWalletStatus(c, new)
           \/ UNCHANGED vars
    BY <1>9, QuietStep
<1> QED
    BY <1>1, <1>2, <1>3, <1>4, <1>5, <1>6, <1>7, <1>8, <1>9, <1>10, <1>11
       DEF Next

\* The inductive invariant holds in every reachable state.
THEOREM WalletInvariant == Spec => []IndInv
<1> QED
    BY InitIndInv, NextIndInv, PTL DEF Spec

\* Only the settlement of a debt and a reversal take a customer's balance below
\* zero, and by no more than was settled and taken back, with any number of
\* top-ups and reversals in flight.
THEOREM WalletOverdraft == Spec => []OverdraftIsAccountedFor
<1>1. IndInv => OverdraftIsAccountedFor
    BY DEF IndInv
<1> QED
    BY <1>1, WalletInvariant, PTL

\* What a customer owes is bounded by what was covered for it, what it settled
\* and what was taken back, with any number of top-ups that read the debt before
\* it changed.
THEOREM WalletDebt == Spec => []DebtIsAccountedFor
<1>1. IndInv => DebtIsAccountedFor
    BY DEF IndInv
<1> QED
    BY <1>1, WalletInvariant, PTL

-----------------------------------------------------------------------------
\* One customer's hold changes the sum of the holds by what it changes itself.
LEMMA HeldChange ==
    ASSUME TypeOK, NEW c \in Customers, NEW h \in Nat, held' = [held EXCEPT ![c] = h]
    PROVE  /\ SumFunctionOnSet(held, Customers) \in Int
           /\ SumFunctionOnSet(held', Customers)
                = SumFunctionOnSet(held, Customers) - held[c] + h
<1>1. Changes(held, held', Customers, c, h)
  BY WalletAssumption DEF TypeOK, Changes
<1> QED
  BY <1>1, SumChange

LEMMA InitEscrow == Init => EscrowCoversHolds
<1> SUFFICES ASSUME Init PROVE EscrowCoversHolds
  OBVIOUS
<1>1. SumFunctionOnSet(held, Customers) = 0
  BY WalletAssumption, SumZero DEF Init
<1>2. system["escrow"] = 0
  BY DEF Init, Systems
<1> QED
  BY <1>1, <1>2 DEF EscrowCoversHolds

\* Only a booking, a refund and a completion move the escrow, and each moves
\* the hold with it.
LEMMA NextEscrow ==
    ASSUME IndInv, EscrowCoversHolds, [Next]_vars
    PROVE  EscrowCoversHolds'
<1> DEFINE before == SumFunctionOnSet(held, Customers)
           after  == SumFunctionOnSet(held', Customers)
<1>0. /\ TypeOK /\ system["escrow"] \in Int
      /\ system["escrow"] >= before
      /\ "escrow" \in Systems
  BY DEF IndInv, TypeOK, EscrowCoversHolds, Systems
<1>1. CASE \E c \in Customers, a \in Amounts : Hold(c, a)
  <2>1. PICK c \in Customers, a \in Amounts : Hold(c, a)
    BY <1>1
  <2>2. /\ a \in Nat /\ held[c] = 0 /\ held' = [held EXCEPT ![c] = a]
        /\ system'["escrow"] = system["escrow"] + a
    BY <1>0, <2>1, WalletAssumption DEF Hold, TypeOK
  <2>3. before \in Int /\ after = before - held[c] + a
    BY <1>0, <2>2, HeldChange
  <2> HIDE DEF before, after
  <2>4. system'["escrow"] >= after
    BY <1>0, <2>2, <2>3
  <2> QED
    BY <2>4 DEF EscrowCoversHolds, after
<1>2. CASE \E c \in Customers : Refund(c)
  <2>1. PICK c \in Customers : Refund(c)
    BY <1>2
  <2>2. /\ held[c] \in Nat /\ held' = [held EXCEPT ![c] = 0]
        /\ system'["escrow"] = system["escrow"] - held[c]
    BY <1>0, <2>1 DEF Refund, TypeOK
  <2>3. before \in Int /\ after = before - held[c] + 0
    BY <1>0, <2>2, HeldChange
  <2> HIDE DEF before, after
  <2>4. system'["escrow"] >= after
    BY <1>0, <2>2, <2>3
  <2> QED
    BY <2>4 DEF EscrowCoversHolds, after
<1>3. CASE \E c \in Customers, d \in Deltas : Complete(c, d)
  <2>1. PICK c \in Customers, d \in Deltas : Complete(c, d)
    BY <1>3
  <2> DEFINE tk == Taken(c, d)
             sh == Shortfall(c, d)
  <2>2. d \in Int /\ balance[c] \in Int /\ held[c] \in Nat
    BY <1>0, WalletAssumption DEF TypeOK
  <2>3. tk \in Int /\ sh \in Nat /\ tk + sh >= d
    BY <2>2 DEF Taken, Shortfall, FromCustomer, Least
  <2>4. /\ held' = [held EXCEPT ![c] = 0]
        /\ system' = [system EXCEPT
                         !["subsidy"] = system["subsidy"] - sh,
                         !["escrow"] = system["escrow"] + tk + sh - held[c] - d,
                         !["driver"] = system["driver"] + held[c] + d]
    BY <2>1 DEF Complete
  <2> HIDE DEF tk, sh
  <2>5. system'["escrow"] = system["escrow"] + tk + sh - held[c] - d
    BY <1>0, <2>4 DEF TypeOK
  <2>6. before \in Int /\ after = before - held[c] + 0
    BY <1>0, <2>4, HeldChange
  <2> HIDE DEF before, after
  <2>7. system'["escrow"] >= after
    BY <1>0, <2>2, <2>3, <2>5, <2>6
  <2> QED
    BY <2>7 DEF EscrowCoversHolds, after
<1>4. CASE held' = held /\ system'["escrow"] = system["escrow"]
  BY <1>4 DEF EscrowCoversHolds
<1>5. CASE \/ \E t \in TopUps, c \in Customers, a \in Amounts : TopUpRead(t, c, a)
           \/ \E x \in Transfers, from, to \in Customers, a \in Amounts :
                 TransferRead(x, from, to, a)
           \/ \E x \in Transfers : TransferCommit(x)
           \/ \E c \in Customers, new \in NewStatuses : UpdateWalletStatus(c, new)
           \/ UNCHANGED vars
  BY <1>4, <1>5 DEF TopUpRead, TransferRead, TransferCommit, UpdateWalletStatus, vars, people
<1>6. CASE \E t \in TopUps : TopUpCommit(t)
  <2>1. held' = held
    BY <1>6 DEF TopUpCommit
  <2>2. system'["escrow"] = system["escrow"]
    BY <1>0, <1>6 DEF TopUpCommit, TypeOK, Systems
  <2> QED
    BY <1>4, <2>1, <2>2
<1>7. CASE \E a \in Amounts : PayWithdrawal(a)
  <2>1. held' = held
    BY <1>7 DEF PayWithdrawal, people
  <2>2. system'["escrow"] = system["escrow"]
    BY <1>0, <1>7 DEF PayWithdrawal, TypeOK, Systems
  <2> QED
    BY <1>4, <2>1, <2>2
<1>8. CASE \/ \E r \in Reversals, q \in TopUps \cup Transfers : ReverseRead(r, q)
           \/ \E r \in Reversals, payer \in Customers \cup Systems, early \in BOOLEAN :
                 ReverseCommit(r, payer, early)
  <2>1. held' = held
    BY <1>8 DEF ReverseRead, ReverseCommit, people
  <2>2. system'["escrow"] = system["escrow"]
    BY <1>0, <1>8 DEF ReverseRead, ReverseCommit, TypeOK, Systems
  <2> QED
    BY <1>4, <2>1, <2>2
<1> QED
  BY <1>1, <1>2, <1>3, <1>5, <1>6, <1>7, <1>8 DEF Next

\* The hold of every order is in the escrow, whatever the completions of other
\* orders and of customers below zero have taken out of it.
THEOREM WalletEscrow == Spec => []EscrowCoversHolds
BY WalletInvariant, InitEscrow, NextEscrow, PTL DEF Spec

-----------------------------------------------------------------------------
(* The ledger *)

Legs == Seq([wallet : Wallets, amount : Int \ {0}])

\* Totals are sums.
LEMMA TotalInt ==
    ASSUME NEW seq, NEW S \in SUBSET DOMAIN seq, IsFiniteSet(S),
           \A i \in S : seq[i].amount \in Int
    PROVE  Total(seq, S) \in Int
BY SumInt DEF Total

LEMMA TotalSame ==
    ASSUME NEW seq, NEW other, NEW S \in SUBSET (DOMAIN seq \cap DOMAIN other), IsFiniteSet(S),
           \A i \in S : seq[i].amount \in Int /\ seq[i].amount = other[i].amount
    PROVE  Total(seq, S) = Total(other, S)
<1> DEFINE f == [i \in DOMAIN seq |-> seq[i].amount]
           g == [i \in DOMAIN other |-> other[i].amount]
<1>1. \A i \in S : f[i] \in Int /\ f[i] = g[i]
  OBVIOUS
<1>2. SumFunctionOnSet(f, S) = SumFunctionOnSet(g, S)
  <2> HIDE DEF f, g
  <2> QED
    BY <1>1, SumSame
<1> QED
  BY <1>2 DEF Total

LEMMA TotalSplit ==
    ASSUME NEW seq, NEW S \in SUBSET DOMAIN seq, IsFiniteSet(S),
           \A i \in S : seq[i].amount \in Int, NEW T \in SUBSET S
    PROVE  Total(seq, S) = Total(seq, T) + Total(seq, S \ T)
<1> DEFINE f == [i \in DOMAIN seq |-> seq[i].amount]
<1>1. \A i \in S : f[i] \in Int
  OBVIOUS
<1>2. SumFunctionOnSet(f, S) = SumFunctionOnSet(f, T) + SumFunctionOnSet(f, S \ T)
  <2> HIDE DEF f
  <2> QED
    BY <1>1, SumSplit
<1> QED
  BY <1>2 DEF Total

\* Every set of positions is finite.
LEMMA PositionsFinite ==
    ASSUME NEW n \in Nat, NEW S \in SUBSET (1..n)
    PROVE  IsFiniteSet(S)
<1>1. IsFiniteSet(1..n)
  BY FS_Interval
<1> QED
  BY <1>1, FS_Subset

\* Positions behind the first n.
Shift(n, B) == {n + j : j \in B}

LEMMA Shifted ==
    ASSUME NEW n \in Nat, NEW B \in SUBSET Int, NEW i \in Int
    PROVE  i \in Shift(n, B) <=> i - n \in B
<1>1. ASSUME i - n \in B PROVE i \in Shift(n, B)
  <2>1. i = n + (i - n)
    OBVIOUS
  <2> QED
    BY <1>1, <2>1 DEF Shift
<1>2. ASSUME i \in Shift(n, B) PROVE i - n \in B
  <2>1. PICK j \in B : i = n + j
    BY <1>2 DEF Shift
  <2>2. i - n = j
    BY <2>1
  <2> QED
    BY <2>2
<1> QED
  BY <1>1, <1>2

\* all is seq and then the rows of legs under reference r.
Posted(all, seq, r, legs, n, k) ==
    /\ n \in Nat /\ k \in Nat
    /\ DOMAIN seq = 1..n /\ DOMAIN legs = 1..k /\ DOMAIN all = 1..(n + k)
    /\ \A i \in 1..n : all[i] = seq[i] /\ seq[i].amount \in Int
    /\ \A j \in 1..k :
          /\ all[n + j].ref = r
          /\ all[n + j].wallet = legs[j].wallet
          /\ all[n + j].amount = legs[j].amount
          /\ ~all[n + j].reversed
          /\ legs[j].amount \in Int

\* A row of the whole is one of the first n or one of the legs.
LEMMA PostedRow ==
    ASSUME NEW n, NEW k, NEW seq, NEW legs, NEW all, NEW r, Posted(all, seq, r, legs, n, k),
           NEW i \in 1..(n + k)
    PROVE  \/ i \in 1..n /\ all[i] = seq[i]
           \/ /\ i \notin 1..n /\ i - n \in 1..k /\ i = n + (i - n)
              /\ all[i].ref = r
              /\ all[i].wallet = legs[i - n].wallet
              /\ all[i].amount = legs[i - n].amount
              /\ ~all[i].reversed
<1>0. n \in Nat /\ k \in Nat
  BY DEF Posted
<1>1. CASE i \in 1..n
  BY <1>1 DEF Posted
<1>2. CASE i \notin 1..n
  <2>1. i - n \in 1..k /\ i = n + (i - n)
    BY <1>0, <1>2
  <2> DEFINE j == i - n
  <2>2. j \in 1..k /\ i = n + j
    BY <2>1
  <2> HIDE DEF j
  <2>3. /\ all[i].ref = r
        /\ all[i].wallet = legs[j].wallet
        /\ all[i].amount = legs[j].amount
        /\ ~all[i].reversed
    BY <2>2 DEF Posted
  <2> QED
    BY <1>2, <2>1, <2>3 DEF j
<1> QED
  BY <1>1, <1>2

\* The total over an appended sequence is the total over its two parts.
LEMMA TotalAppended ==
    ASSUME NEW n, NEW k, NEW seq, NEW legs, NEW all, NEW r, Posted(all, seq, r, legs, n, k),
           NEW A \in SUBSET (1..n), NEW B \in SUBSET (1..k)
    PROVE  Total(all, A \cup Shift(n, B)) = Total(seq, A) + Total(legs, B)
<1> DEFINE C == Shift(n, B)
           f == [i \in DOMAIN all |-> all[i].amount]
           g == [i \in DOMAIN legs |-> legs[i].amount]
           m == [j \in 1..k |-> n + j]
<1>0. /\ n \in Nat /\ k \in Nat
      /\ DOMAIN seq = 1..n /\ DOMAIN legs = 1..k /\ DOMAIN all = 1..(n + k)
      /\ \A i \in 1..n : seq[i].amount \in Int /\ all[i].amount = seq[i].amount
      /\ \A j \in 1..k : legs[j].amount \in Int /\ all[n + j].amount = legs[j].amount
  BY DEF Posted
<1>1. C \in SUBSET (1..(n + k)) /\ A \in SUBSET (1..(n + k)) /\ A \cap C = {}
  BY <1>0 DEF Shift
<1>2. IsFiniteSet(A) /\ IsFiniteSet(B) /\ IsFiniteSet(A \cup C)
  <2> HIDE DEF C
  <2>0. n + k \in Nat
    BY <1>0
  <2>1. A \cup C \in SUBSET (1..(n + k))
    BY <1>1
  <2> QED
    BY <1>0, <2>0, <2>1, PositionsFinite
<1>3. \A i \in 1..(n + k) : all[i].amount \in Int
  <2> TAKE i \in 1..(n + k)
  <2>1. CASE i \in 1..n
    BY <1>0, <2>1
  <2>2. CASE i \notin 1..n
    <3>1. i - n \in 1..k /\ all[i].amount = legs[i - n].amount
      BY <2>2, PostedRow
    <3> QED
      BY <1>0, <3>1
  <2> QED
    BY <2>1, <2>2
<1>4. Total(all, A \cup C) = Total(all, A) + Total(all, C)
  <2>1. (A \cup C) \ A = C
    BY <1>1
  <2>2. A \cup C \in SUBSET DOMAIN all /\ A \in SUBSET (A \cup C)
    BY <1>0, <1>1
  <2>3. \A i \in A \cup C : all[i].amount \in Int
    BY <1>1, <1>3
  <2> HIDE DEF C
  <2>4. Total(all, A \cup C) = Total(all, A) + Total(all, (A \cup C) \ A)
    BY <1>2, <2>2, <2>3, TotalSplit
  <2> QED
    BY <2>1, <2>4
<1>5. Total(all, A) = Total(seq, A)
  <2>1. A \in SUBSET (DOMAIN all \cap DOMAIN seq)
    BY <1>0, <1>1
  <2>2. \A i \in A : all[i].amount \in Int /\ all[i].amount = seq[i].amount
    BY <1>0
  <2> QED
    BY <1>2, <2>1, <2>2, TotalSame
<1>6. Total(all, C) = Total(legs, B)
  <2>1. C = Places(m, B)
    BY DEF Places, Shift
  <2>2. Renames(m, f, g, B)
    BY <1>0 DEF Renames
  <2>3. SumFunctionOnSet(f, Places(m, B)) = SumFunctionOnSet(g, B)
    <3> HIDE DEF f, g, m
    <3> QED
      BY <1>2, <2>2, SumRename
  <2>4. SumFunctionOnSet(f, C) = SumFunctionOnSet(g, B)
    <3> HIDE DEF f, g, m, C
    <3> QED
      BY <2>1, <2>3
  <2>5. Total(all, C) = SumFunctionOnSet(f, C) /\ Total(legs, B) = SumFunctionOnSet(g, B)
    BY DEF Total
  <2> HIDE DEF f, g, m, C
  <2> QED
    BY <2>4, <2>5
<1> QED
  BY <1>4, <1>5, <1>6

\* The balances follow from the ledger.
Projects(seq, bal) ==
    \A w \in Wallets : bal[w] = Initial[w] + Total(seq, On(seq, w) \cap Standing(seq))

\* W is a set of groups of entries that keep the books: they add up to nothing,
\* as do their unions and differences, and what stands of a reference is one.
Books(seq, W) ==
    /\ W \subseteq SUBSET DOMAIN seq
    /\ {} \in W
    /\ \A S, T \in W : S \cup T \in W /\ S \ T \in W
    /\ \A S \in W : Total(seq, S) = 0
    /\ \A r \in Refs : StandingOf(seq, r) \in W

\* What is in a sequence of entries, and in one of legs.
LEMMA LedgerRows ==
    ASSUME NEW seq \in Seq(Entry)
    PROVE  /\ Len(seq) \in Nat /\ DOMAIN seq = 1..Len(seq)
           /\ \A i \in 1..Len(seq) : /\ seq[i] \in Entry
                                     /\ seq[i].amount \in Int
                                     /\ seq[i].reversed \in BOOLEAN
           /\ \A S \in SUBSET DOMAIN seq : IsFiniteSet(S)
<1>1. Len(seq) \in Nat /\ DOMAIN seq = 1..Len(seq)
  OBVIOUS
<1>2. \A i \in 1..Len(seq) : seq[i] \in Entry
  OBVIOUS
<1>3. \A i \in 1..Len(seq) : seq[i].amount \in Int /\ seq[i].reversed \in BOOLEAN
  BY <1>2 DEF Entry
<1>4. \A S \in SUBSET DOMAIN seq : IsFiniteSet(S)
  BY <1>1, PositionsFinite
<1> QED
  BY <1>1, <1>2, <1>3, <1>4

LEMMA LegRows ==
    ASSUME NEW legs \in Legs
    PROVE  /\ Len(legs) \in Nat /\ DOMAIN legs = 1..Len(legs)
           /\ \A j \in 1..Len(legs) : /\ legs[j].wallet \in Wallets
                                      /\ legs[j].amount \in Int \ {0}
           /\ \A S \in SUBSET DOMAIN legs : IsFiniteSet(S)
<1>1. Len(legs) \in Nat /\ DOMAIN legs = 1..Len(legs)
  BY DEF Legs
<1>2. \A j \in 1..Len(legs) : legs[j] \in [wallet : Wallets, amount : Int \ {0}]
  <2> DEFINE L == [wallet : Wallets, amount : Int \ {0}]
  <2>1. legs \in Seq(L)
    BY DEF Legs
  <2> HIDE DEF L
  <2>2. \A j \in 1..Len(legs) : legs[j] \in L
    BY <2>1
  <2> QED
    BY <2>2 DEF L
<1>3. \A S \in SUBSET DOMAIN legs : IsFiniteSet(S)
  BY <1>1, PositionsFinite
<1> QED
  BY <1>1, <1>2, <1>3

\* The rows of a posting, at the end of the ledger.
LEMMA Appended ==
    ASSUME NEW seq \in Seq(Entry), NEW r \in Refs, NEW legs \in Legs
    PROVE  /\ seq \o Rows(r, legs) \in Seq(Entry)
           /\ Len(seq \o Rows(r, legs)) = Len(seq) + Len(legs)
           /\ Posted(seq \o Rows(r, legs), seq, r, legs, Len(seq), Len(legs))
<1> DEFINE rows == Rows(r, legs)
           Row(j) == [ref |-> r, wallet |-> legs[j].wallet,
                      amount |-> legs[j].amount, reversed |-> FALSE]
<1>0. /\ Len(legs) \in Nat /\ DOMAIN legs = 1..Len(legs)
      /\ \A j \in 1..Len(legs) : legs[j].wallet \in Wallets /\ legs[j].amount \in Int \ {0}
  BY LegRows
<1>1. rows = [j \in 1..Len(legs) |-> Row(j)]
  BY <1>0 DEF Rows
<1>2. \A j \in 1..Len(legs) : Row(j) \in Entry
  BY <1>0 DEF Entry
<1>3. rows \in Seq(Entry) /\ Len(rows) = Len(legs)
  <2>1. rows \in [1..Len(legs) -> Entry]
    BY <1>1, <1>2
  <2> HIDE DEF rows
  <2> QED
    BY <1>0, <2>1
<1>4. /\ seq \o rows \in Seq(Entry)
      /\ Len(seq \o rows) = Len(seq) + Len(rows)
      /\ \A i \in 1..Len(seq) : (seq \o rows)[i] = seq[i]
      /\ \A j \in 1..Len(rows) : (seq \o rows)[Len(seq) + j] = rows[j]
  <2> HIDE DEF rows
  <2> QED
    BY <1>3
<1>5. /\ Len(seq) \in Nat /\ DOMAIN seq = 1..Len(seq)
      /\ \A i \in 1..Len(seq) : seq[i].amount \in Int
  BY LedgerRows
<1>6. DOMAIN (seq \o rows) = 1..(Len(seq) + Len(legs))
  <2> HIDE DEF rows
  <2> QED
    BY <1>3, <1>4
<1>7. \A j \in 1..Len(legs) : (seq \o rows)[Len(seq) + j] = Row(j)
  <2> HIDE DEF Row
  <2>1. \A j \in 1..Len(legs) : rows[j] = Row(j)
    BY <1>1
  <2> HIDE DEF rows
  <2> QED
    BY <1>3, <1>4, <2>1
<1>8. \A j \in 1..Len(legs) : /\ (seq \o rows)[Len(seq) + j].ref = r
                              /\ (seq \o rows)[Len(seq) + j].wallet = legs[j].wallet
                              /\ (seq \o rows)[Len(seq) + j].amount = legs[j].amount
                              /\ ~(seq \o rows)[Len(seq) + j].reversed
  <2> DEFINE all == seq \o rows
  <2>1. \A j \in 1..Len(legs) : all[Len(seq) + j] = Row(j)
    BY <1>7
  <2> HIDE DEF all
  <2>2. \A j \in 1..Len(legs) : /\ all[Len(seq) + j].ref = r
                                /\ all[Len(seq) + j].wallet = legs[j].wallet
                                /\ all[Len(seq) + j].amount = legs[j].amount
                                /\ ~all[Len(seq) + j].reversed
    <3> TAKE j \in 1..Len(legs)
    <3>1. all[Len(seq) + j] = Row(j)
      BY <2>1
    <3> QED
      BY <3>1
  <2> HIDE DEF rows
  <2> QED
    BY <2>2 DEF all
<1>9. Posted(seq \o rows, seq, r, legs, Len(seq), Len(legs))
  <2> HIDE DEF rows
  <2> QED
    BY <1>0, <1>4, <1>5, <1>6, <1>8 DEF Posted
<1> QED
  BY <1>3, <1>4, <1>9

\* A posting moves the balances by what it adds to the ledger.
LEMMA PostProjects ==
    ASSUME NEW seq \in Seq(Entry), NEW bal \in [Wallets -> Int], Projects(seq, bal),
           NEW r \in Refs, NEW legs \in Legs
    PROVE  /\ Credited(bal, legs) \in [Wallets -> Int]
           /\ Projects(seq \o Rows(r, legs), Credited(bal, legs))
<1> DEFINE all == seq \o Rows(r, legs)
           n == Len(seq)
           k == Len(legs)
<1>1. Posted(all, seq, r, legs, n, k)
  BY Appended
<1>2. /\ \A i \in 1..n : seq[i].amount \in Int
      /\ \A j \in 1..k : legs[j].amount \in Int
  BY <1>1 DEF Posted
<1> HIDE DEF all, n, k
<1>3. /\ n \in Nat /\ k \in Nat
      /\ DOMAIN seq = 1..n /\ DOMAIN legs = 1..k /\ DOMAIN all = 1..(n + k)
  BY <1>1 DEF Posted
<1>4. ASSUME NEW w \in Wallets
      PROVE  /\ Total(legs, On(legs, w)) \in Int
             /\ Total(seq, On(seq, w) \cap Standing(seq)) \in Int
             /\ Total(all, On(all, w) \cap Standing(all))
                  = Total(seq, On(seq, w) \cap Standing(seq)) + Total(legs, On(legs, w))
  <2> DEFINE A == On(seq, w) \cap Standing(seq)
             B == On(legs, w)
  <2>1. A \in SUBSET (1..n) /\ B \in SUBSET (1..k) /\ B \in SUBSET Int
    BY <1>3 DEF On, Standing
  <2>2. On(all, w) \cap Standing(all) = A \cup Shift(n, B)
    <3>1. ASSUME NEW i \in 1..(n + k)
          PROVE  i \in On(all, w) \cap Standing(all) <=> i \in A \cup Shift(n, B)
      <4>0. i \in Int /\ (i \in Shift(n, B) <=> i - n \in B)
        <5>1. i \in Int
          BY <1>3
        <5> HIDE DEF B
        <5> QED
          BY <1>3, <2>1, <5>1, Shifted
      <4>1. CASE i \in 1..n /\ all[i] = seq[i]
        <5>1. i - n \notin 1..k
          BY <1>3, <4>1
        <5>2. i \in On(all, w) \cap Standing(all) <=> i \in A
          BY <1>3, <4>1 DEF On, Standing
        <5> QED
          BY <2>1, <4>0, <5>1, <5>2
      <4>2. CASE /\ i \notin 1..n /\ i - n \in 1..k
                 /\ all[i].wallet = legs[i - n].wallet
                 /\ ~all[i].reversed
        <5>1. i \in On(all, w) \cap Standing(all) <=> i - n \in B
          BY <1>3, <4>2 DEF On, Standing
        <5> QED
          BY <2>1, <4>0, <4>2, <5>1
      <4> QED
        BY <1>1, <4>1, <4>2, PostedRow
    <3>2. On(all, w) \cap Standing(all) \subseteq 1..(n + k)
      BY <1>3 DEF On
    <3>3. A \cup Shift(n, B) \subseteq 1..(n + k)
      BY <1>3, <2>1 DEF Shift
    <3> HIDE DEF A, B
    <3> QED
      BY <3>1, <3>2, <3>3
  <2>3. IsFiniteSet(A) /\ IsFiniteSet(B)
    BY <1>3, <2>1, PositionsFinite
  <2> HIDE DEF A, B
  <2>4. Total(legs, B) \in Int
    BY <1>2, <1>3, <2>1, <2>3, TotalInt
  <2>5. Total(seq, A) \in Int
    BY <1>2, <1>3, <2>1, <2>3, TotalInt
  <2>6. Total(all, A \cup Shift(n, B)) = Total(seq, A) + Total(legs, B)
    BY <1>1, <2>1, TotalAppended
  <2> QED
    BY <2>2, <2>4, <2>5, <2>6 DEF A, B
<1>5. Credited(bal, legs) \in [Wallets -> Int]
  <2>1. ASSUME NEW w \in Wallets
        PROVE  bal[w] + Total(legs, On(legs, w)) \in Int
    <3> DEFINE more == Total(legs, On(legs, w))
    <3>1. bal[w] \in Int /\ more \in Int
      BY <1>4
    <3> HIDE DEF more
    <3>2. bal[w] + more \in Int
      BY <3>1
    <3> QED
      BY <3>2 DEF more
  <2> QED
    BY <2>1 DEF Credited
<1>6. ASSUME NEW w \in Wallets
      PROVE  Credited(bal, legs)[w] = Initial[w] + Total(all, On(all, w) \cap Standing(all))
  <2> DEFINE before == Total(seq, On(seq, w) \cap Standing(seq))
             more   == Total(legs, On(legs, w))
             after  == Total(all, On(all, w) \cap Standing(all))
  <2>1. bal[w] = Initial[w] + before
    BY DEF Projects
  <2>2. Credited(bal, legs)[w] = bal[w] + more
    BY DEF Credited
  <2>3. Initial[w] \in Int
    BY LedgerAssumption
  <2>4. before \in Int /\ more \in Int /\ after = before + more
    BY <1>4
  <2> HIDE DEF before, more, after
  <2>5. Credited(bal, legs)[w] = Initial[w] + after
    BY <2>1, <2>2, <2>3, <2>4
  <2> QED
    BY <2>5 DEF after
<1>7. Projects(all, Credited(bal, legs))
  BY <1>6 DEF Projects
<1> QED
  BY <1>5, <1>7 DEF all

\* new is seq with the entries at ids marked.
MarkedAs(new, seq, ids, n) ==
    /\ n \in Nat
    /\ DOMAIN seq = 1..n /\ DOMAIN new = 1..n
    /\ ids \in SUBSET (1..n)
    /\ \A i \in 1..n : /\ new[i].ref = seq[i].ref
                       /\ new[i].wallet = seq[i].wallet
                       /\ new[i].amount = seq[i].amount
                       /\ seq[i].amount \in Int
                       /\ new[i].reversed <=> (seq[i].reversed \/ i \in ids)

LEMMA Marking ==
    ASSUME NEW seq \in Seq(Entry), NEW ids \in SUBSET DOMAIN seq
    PROVE  /\ Marked(seq, ids) \in Seq(Entry)
           /\ Len(Marked(seq, ids)) = Len(seq)
           /\ MarkedAs(Marked(seq, ids), seq, ids, Len(seq))
<1> DEFINE new == Marked(seq, ids)
           n == Len(seq)
<1>1. n \in Nat /\ DOMAIN seq = 1..n /\ \A i \in 1..n : seq[i] \in Entry
  BY LedgerRows
<1>2. /\ DOMAIN new = 1..n
      /\ \A i \in 1..n : new[i] = IF i \in ids THEN [seq[i] EXCEPT !.reversed = TRUE]
                                  ELSE seq[i]
  BY <1>1 DEF Marked
<1>3. \A i \in 1..n : /\ new[i] \in Entry
                      /\ new[i].ref = seq[i].ref
                      /\ new[i].wallet = seq[i].wallet
                      /\ new[i].amount = seq[i].amount
                      /\ seq[i].amount \in Int
                      /\ new[i].reversed <=> (seq[i].reversed \/ i \in ids)
  <2> HIDE DEF new
  <2> TAKE i \in 1..n
  <2>1. seq[i] \in [ref : Refs, wallet : Wallets, amount : Int \ {0}, reversed : BOOLEAN]
    BY <1>1 DEF Entry
  <2>2. CASE i \in ids
    BY <1>2, <2>1, <2>2 DEF Entry
  <2>3. CASE i \notin ids
    BY <1>2, <2>1, <2>3 DEF Entry
  <2> QED
    BY <2>2, <2>3
<1>4. new \in Seq(Entry) /\ Len(new) = n
  <2>1. new \in [1..n -> Entry]
    <3>1. new = [i \in 1..n |-> new[i]]
      BY <1>1 DEF Marked
    <3> HIDE DEF new
    <3> QED
      BY <1>3, <3>1
  <2> HIDE DEF new
  <2> QED
    BY <1>1, <2>1
<1> HIDE DEF new, n
<1>5. MarkedAs(new, seq, ids, n)
  BY <1>1, <1>2, <1>3 DEF MarkedAs
<1> QED
  BY <1>4, <1>5 DEF new, n

\* Marking entries takes from the balances what it takes from the ledger.
LEMMA MarkProjects ==
    ASSUME NEW seq \in Seq(Entry), NEW bal \in [Wallets -> Int], Projects(seq, bal),
           NEW ids \in SUBSET DOMAIN seq
    PROVE  /\ Undone(bal, seq, ids) \in [Wallets -> Int]
           /\ Projects(Marked(seq, ids), Undone(bal, seq, ids))
<1> DEFINE new == Marked(seq, ids)
           n == Len(seq)
<1>1. MarkedAs(new, seq, ids, n)
  BY Marking
<1> HIDE DEF new, n
<1>2. ASSUME NEW w \in Wallets
      PROVE  /\ Total(seq, ids \cap On(seq, w) \cap Standing(seq)) \in Int
             /\ Total(seq, On(seq, w) \cap Standing(seq)) \in Int
             /\ Total(new, On(new, w) \cap Standing(new)) \in Int
             /\ Total(seq, On(seq, w) \cap Standing(seq))
                  = Total(seq, ids \cap On(seq, w) \cap Standing(seq))
                      + Total(new, On(new, w) \cap Standing(new))
  <2> DEFINE S == On(seq, w) \cap Standing(seq)
             T == ids \cap On(seq, w) \cap Standing(seq)
  <2>1. /\ n \in Nat /\ DOMAIN seq = 1..n /\ DOMAIN new = 1..n
        /\ S \in SUBSET (1..n) /\ T \in SUBSET S /\ S \ T \in SUBSET (1..n)
    BY <1>1 DEF MarkedAs, On, Standing
  <2>2. \A i \in 1..n : /\ seq[i].amount \in Int /\ new[i].amount \in Int
                        /\ new[i].amount = seq[i].amount
    BY <1>1 DEF MarkedAs
  <2>3. On(new, w) \cap Standing(new) = S \ T
    BY <1>1 DEF MarkedAs, On, Standing
  <2>4. T \in SUBSET (1..n)
    BY <2>1
  <2>5. IsFiniteSet(S) /\ IsFiniteSet(T) /\ IsFiniteSet(S \ T)
    <3> HIDE DEF S, T
    <3> QED
      BY <2>1, <2>4, PositionsFinite
  <2> HIDE DEF S, T
  <2>6. Total(new, S \ T) = Total(seq, S \ T)
    <3>1. /\ S \ T \in SUBSET (DOMAIN new \cap DOMAIN seq)
          /\ \A i \in S \ T : new[i].amount \in Int /\ new[i].amount = seq[i].amount
      BY <2>1, <2>2
    <3> QED
      BY <2>5, <3>1, TotalSame
  <2>7. Total(seq, S) = Total(seq, T) + Total(seq, S \ T)
    <3>1. S \in SUBSET DOMAIN seq /\ \A i \in S : seq[i].amount \in Int
      BY <2>1, <2>2
    <3> QED
      BY <2>1, <2>5, <3>1, TotalSplit
  <2>8. Total(seq, S) \in Int
    <3>1. S \in SUBSET DOMAIN seq /\ \A i \in S : seq[i].amount \in Int
      BY <2>1, <2>2
    <3> QED
      BY <2>5, <3>1, TotalInt
  <2>9. Total(seq, T) \in Int
    <3>1. T \in SUBSET DOMAIN seq /\ \A i \in T : seq[i].amount \in Int
      BY <2>1, <2>2, <2>4
    <3> QED
      BY <2>5, <3>1, TotalInt
  <2>10. Total(new, S \ T) \in Int
    <3>1. S \ T \in SUBSET DOMAIN new /\ \A i \in S \ T : new[i].amount \in Int
      BY <2>1, <2>2
    <3> QED
      BY <2>5, <3>1, TotalInt
  <2> QED
    BY <2>3, <2>6, <2>7, <2>8, <2>9, <2>10 DEF S, T
<1>3. Undone(bal, seq, ids) \in [Wallets -> Int]
  <2>1. ASSUME NEW w \in Wallets
        PROVE  bal[w] - Total(seq, ids \cap On(seq, w) \cap Standing(seq)) \in Int
    <3> DEFINE less == Total(seq, ids \cap On(seq, w) \cap Standing(seq))
    <3>1. bal[w] \in Int /\ less \in Int
      BY <1>2
    <3> HIDE DEF less
    <3>2. bal[w] - less \in Int
      BY <3>1
    <3> QED
      BY <3>2 DEF less
  <2> QED
    BY <2>1 DEF Undone
<1>4. ASSUME NEW w \in Wallets
      PROVE  Undone(bal, seq, ids)[w] = Initial[w] + Total(new, On(new, w) \cap Standing(new))
  <2> DEFINE before == Total(seq, On(seq, w) \cap Standing(seq))
             less   == Total(seq, ids \cap On(seq, w) \cap Standing(seq))
             after  == Total(new, On(new, w) \cap Standing(new))
  <2>1. bal[w] = Initial[w] + before
    BY DEF Projects
  <2>2. Undone(bal, seq, ids)[w] = bal[w] - less
    BY DEF Undone
  <2>3. Initial[w] \in Int
    BY LedgerAssumption
  <2>4. before \in Int /\ less \in Int /\ after \in Int /\ before = less + after
    BY <1>2
  <2> HIDE DEF before, less, after
  <2>5. Undone(bal, seq, ids)[w] = Initial[w] + after
    BY <2>1, <2>2, <2>3, <2>4
  <2> QED
    BY <2>5 DEF after
<1>5. Projects(new, Undone(bal, seq, ids))
  BY <1>4 DEF Projects
<1> QED
  BY <1>3, <1>5 DEF new

\* A posting in balance keeps the books, and every group it found in them.
LEMMA PostBooks ==
    ASSUME NEW seq \in Seq(Entry), NEW W, Books(seq, W),
           NEW r \in Refs, NEW legs \in Legs, Total(legs, DOMAIN legs) = 0
    PROVE  \E V : W \subseteq V /\ Books(seq \o Rows(r, legs), V)
<1> DEFINE all == seq \o Rows(r, legs)
           n == Len(seq)
           k == Len(legs)
           B == Shift(n, 1..k)
           V == {R \in SUBSET (1..(n + k)) : R \cap (1..n) \in W /\ (B \subseteq R \/ R \cap B = {})}
<1>1. Posted(all, seq, r, legs, n, k)
  BY Appended
<1> HIDE DEF all, n, k
<1>2. /\ n \in Nat /\ k \in Nat
      /\ DOMAIN seq = 1..n /\ DOMAIN legs = 1..k /\ DOMAIN all = 1..(n + k)
      /\ \A i \in 1..n : all[i] = seq[i]
  BY <1>1 DEF Posted
<1>3. /\ B \in SUBSET (1..(n + k)) /\ B \cap (1..n) = {}
      /\ \A i \in 1..(n + k) : i \notin 1..n => i \in B
      /\ \A i \in B : all[i].ref = r /\ ~all[i].reversed
  <2>1. \A j \in 1..k : n + j \in 1..(n + k) /\ n + j \notin 1..n
    BY <1>2
  <2>2. \A j \in 1..k : all[n + j].ref = r /\ ~all[n + j].reversed
    BY <1>1 DEF Posted
  <2>3. ASSUME NEW i \in 1..(n + k), i \notin 1..n
        PROVE  i \in B
    <3>1. i \in Int /\ i - n \in 1..k
      BY <1>2, <2>3
    <3>2. 1..k \in SUBSET Int
      OBVIOUS
    <3> QED
      BY <1>2, <3>1, <3>2, Shifted
  <2> QED
    BY <2>1, <2>2, <2>3 DEF Shift
<1>4. /\ W \subseteq SUBSET (1..n) /\ {} \in W
      /\ \A S, T \in W : S \cup T \in W /\ S \ T \in W
      /\ \A S \in W : Total(seq, S) = 0
      /\ \A q \in Refs : StandingOf(seq, q) \in W
  BY <1>2 DEF Books
<1>5. W \subseteq V
  <2>1. ASSUME NEW S \in W PROVE S \in V
    <3>1. S \in SUBSET (1..n)
      BY <1>4
    <3>2. S \cap (1..n) = S /\ S \in SUBSET (1..(n + k)) /\ S \cap B = {}
      <4>1. 1..n \subseteq 1..(n + k)
        BY <1>2
      <4> HIDE DEF B
      <4> QED
        BY <1>3, <3>1, <4>1
    <3> QED
      BY <3>2
  <2> QED
    BY <2>1
<1>6. V \subseteq SUBSET DOMAIN all /\ {} \in V
  BY <1>2, <1>4, <1>5
<1>7. ASSUME NEW S \in V, NEW T \in V
      PROVE  S \cup T \in V /\ S \ T \in V
  <2> HIDE DEF B
  <2>1. /\ (S \cup T) \cap (1..n) = (S \cap (1..n)) \cup (T \cap (1..n))
        /\ (S \ T) \cap (1..n) = (S \cap (1..n)) \ (T \cap (1..n))
    OBVIOUS
  <2>2. (S \cup T) \cap (1..n) \in W /\ (S \ T) \cap (1..n) \in W
    <3> DEFINE X == S \cap (1..n)
               Y == T \cap (1..n)
    <3>1. X \in W /\ Y \in W
      OBVIOUS
    <3> HIDE DEF X, Y, V
    <3>2. X \cup Y \in W /\ X \ Y \in W
      BY <1>4, <3>1
    <3> QED
      BY <2>1, <3>2 DEF X, Y
  <2>3. /\ B \subseteq S \cup T \/ (S \cup T) \cap B = {}
        /\ B \subseteq S \ T \/ (S \ T) \cap B = {}
    OBVIOUS
  <2> QED
    BY <2>2, <2>3
<1>8. ASSUME NEW S \in V PROVE Total(all, S) = 0
  <2> DEFINE A == S \cap (1..n)
  <2>1. A \in SUBSET (1..n) /\ Total(seq, A) = 0
    BY <1>4
  <2>2. CASE B \subseteq S
    <3>1. S = A \cup B
      <4> HIDE DEF B
      <4> QED
        BY <1>3, <2>2
    <3> DEFINE K == 1..k
    <3>2. K \in SUBSET (1..k)
      OBVIOUS
    <3> HIDE DEF A, V, K
    <3>3. Total(all, A \cup Shift(n, K)) = Total(seq, A) + Total(legs, K)
      BY <1>1, <2>1, <3>2, TotalAppended
    <3>4. Total(legs, K) = 0
      BY <1>2 DEF K
    <3>5. Total(all, S) = Total(all, A \cup Shift(n, K))
      BY <3>1 DEF K
    <3> QED
      BY <2>1, <3>3, <3>4, <3>5
  <2>3. CASE S \cap B = {}
    <3>1. S = A \cup Shift(n, {})
      <4>1. Shift(n, {}) = {}
        BY DEF Shift
      <4> HIDE DEF B
      <4> QED
        BY <1>3, <2>3, <4>1
    <3>2. {} \in SUBSET (1..k)
      OBVIOUS
    <3> HIDE DEF A
    <3>3. Total(all, A \cup Shift(n, {})) = Total(seq, A) + Total(legs, {})
      BY <1>1, <2>1, <3>2, TotalAppended
    <3>4. Total(legs, {}) = 0
      BY SumEmpty DEF Total
    <3> QED
      BY <2>1, <3>1, <3>3, <3>4
  <2> QED
    BY <2>2, <2>3
<1>9. ASSUME NEW q \in Refs PROVE StandingOf(all, q) \in V
  <2>1. StandingOf(all, q) \in SUBSET (1..(n + k))
    BY <1>2 DEF StandingOf, Standing
  <2>2. StandingOf(all, q) \cap (1..n) = StandingOf(seq, q)
    BY <1>2 DEF StandingOf, Standing
  <2>3. CASE q = r
    <3>1. B \subseteq StandingOf(all, q)
      <4> HIDE DEF B
      <4> QED
        BY <1>2, <1>3, <2>3 DEF StandingOf, Standing
    <3> QED
      BY <1>4, <2>1, <2>2, <3>1
  <2>4. CASE q # r
    <3>1. StandingOf(all, q) \cap B = {}
      <4> HIDE DEF B
      <4> QED
        BY <1>3, <2>4 DEF StandingOf, Standing
    <3> QED
      BY <1>4, <2>1, <2>2, <3>1
  <2> QED
    BY <2>3, <2>4
<1>10. Books(all, V)
  <2> HIDE DEF V
  <2> QED
    BY <1>6, <1>7, <1>8, <1>9 DEF Books
<1> QED
  BY <1>5, <1>10 DEF all

\* Marking a group of the books keeps them.
LEMMA MarkBooks ==
    ASSUME NEW seq \in Seq(Entry), NEW W, Books(seq, W), NEW ids \in W
    PROVE  Books(Marked(seq, ids), W)
<1> DEFINE new == Marked(seq, ids)
           n == Len(seq)
<1>1. MarkedAs(new, seq, ids, n)
  BY Marking DEF Books
<1> HIDE DEF new, n
<1>2. /\ n \in Nat /\ DOMAIN seq = 1..n /\ DOMAIN new = 1..n
      /\ \A i \in 1..n : /\ new[i].ref = seq[i].ref
                         /\ seq[i].amount \in Int /\ new[i].amount \in Int
                         /\ new[i].amount = seq[i].amount
                         /\ new[i].reversed <=> (seq[i].reversed \/ i \in ids)
  BY <1>1 DEF MarkedAs
<1>3. /\ W \subseteq SUBSET DOMAIN new /\ {} \in W
      /\ \A S, T \in W : S \cup T \in W /\ S \ T \in W
  BY <1>2 DEF Books
<1>4. ASSUME NEW S \in W PROVE Total(new, S) = 0
  <2>1. S \in SUBSET (DOMAIN new \cap DOMAIN seq) /\ S \in SUBSET (1..n)
    BY <1>2, <1>3
  <2>2. IsFiniteSet(S)
    BY <1>2, <2>1, PositionsFinite
  <2>3. \A i \in S : new[i].amount \in Int /\ new[i].amount = seq[i].amount
    BY <1>2, <2>1
  <2>4. Total(new, S) = Total(seq, S)
    BY <2>1, <2>2, <2>3, TotalSame
  <2>5. Total(seq, S) = 0
    BY DEF Books
  <2> QED
    BY <2>4, <2>5
<1>5. ASSUME NEW q \in Refs PROVE StandingOf(new, q) \in W
  <2>1. StandingOf(new, q) = StandingOf(seq, q) \ ids
    BY <1>2 DEF StandingOf, Standing
  <2>2. StandingOf(seq, q) \in W
    BY DEF Books
  <2> QED
    BY <1>3, <2>1, <2>2
<1>6. Books(new, W)
  BY <1>3, <1>4, <1>5 DEF Books
<1> QED
  BY <1>6 DEF new

-----------------------------------------------------------------------------
\* The compensating legs are legs.
LEMMA Compensates ==
    ASSUME LedgerTypeOK, NEW ids \in SUBSET DOMAIN ledger,
           NEW payer \in Wallets, NEW order \in Givers(ids)
    PROVE  Compensation(ids, payer, order) \in Legs
<1> DEFINE refund == Total(ledger, Shares(ids))
           cb == [i \in ids |-> Clawback(i)]
           given  == SumFunctionOnSet(cb, Shares(ids))
           givers == {i \in Shares(ids) : Clawback(i) > 0}
           L == [wallet : Wallets, amount : Int \ {0}]
           first == IF refund > 0 THEN <<Leg(payer, refund)>> ELSE <<>>
           middle == [j \in DOMAIN order |-> Leg(ledger[order[j]].wallet, -Clawback(order[j]))]
           last == IF given < refund THEN <<Leg("receivable", given - refund)>> ELSE <<>>
<1>1. /\ Len(ledger) \in Nat /\ DOMAIN ledger = 1..Len(ledger)
      /\ \A i \in 1..Len(ledger) : ledger[i] \in Entry /\ ledger[i].amount \in Int
      /\ \A S \in SUBSET DOMAIN ledger : IsFiniteSet(S)
  BY LedgerRows DEF LedgerTypeOK
<1>2. \A i \in ids : /\ ledger[i].wallet \in Wallets /\ ledger[i].amount \in Int
                     /\ Clawback(i) \in Int
  <2> TAKE i \in ids
  <2>1. ledger[i] \in Entry /\ ledger[i].amount \in Int
    BY <1>1
  <2>2. ledger[i].wallet \in Wallets
    BY <2>1 DEF Entry
  <2>3. balances[ledger[i].wallet] \in Int
    BY <2>2 DEF LedgerTypeOK
  <2> QED
    BY <2>1, <2>2, <2>3 DEF Clawback
<1>3. Shares(ids) \in SUBSET ids /\ Shares(ids) \in SUBSET DOMAIN ledger /\ IsFiniteSet(Shares(ids))
  <2>1. Shares(ids) \in SUBSET ids
    BY DEF Shares
  <2> QED
    BY <1>1, <2>1
<1>4. refund \in Int
  <2>1. \A i \in Shares(ids) : ledger[i].amount \in Int
    BY <1>2, <1>3
  <2> QED
    BY <1>3, <2>1, TotalInt
<1>5. given \in Int
  <2>1. \A i \in Shares(ids) : cb[i] \in Int
    BY <1>2, <1>3
  <2> HIDE DEF cb
  <2> QED
    BY <1>3, <2>1, SumInt
<1>6. first \in Seq(L)
  <2> HIDE DEF refund
  <2>1. refund > 0 => Leg(payer, refund) \in L
    BY <1>4 DEF Leg
  <2> HIDE DEF L
  <2> QED
    BY <2>1
<1>7. last \in Seq(L)
  <2> HIDE DEF refund, given
  <2>1. "receivable" \in Wallets
    BY DEF Wallets
  <2>2. given < refund => Leg("receivable", given - refund) \in L
    BY <1>4, <1>5, <2>1 DEF Leg
  <2> HIDE DEF L
  <2> QED
    BY <2>2
<1>8. middle \in Seq(L)
  <2>1. order \in [1..Cardinality(givers) -> givers]
    BY DEF Givers
  <2>2. givers \in SUBSET ids /\ IsFiniteSet(givers) /\ \A i \in givers : Clawback(i) > 0
    BY <1>3, FS_Subset
  <2> HIDE DEF givers
  <2>3. Cardinality(givers) \in Nat
    BY <2>2, FS_CardinalityType
  <2>4. ASSUME NEW j \in 1..Cardinality(givers)
        PROVE  Leg(ledger[order[j]].wallet, -Clawback(order[j])) \in L
    <3>1. order[j] \in givers
      BY <2>1
    <3>2. order[j] \in ids /\ Clawback(order[j]) > 0
      BY <2>2, <3>1
    <3>3. ledger[order[j]].wallet \in Wallets /\ Clawback(order[j]) \in Int
      BY <1>2, <3>2
    <3>4. -Clawback(order[j]) \in Int \ {0}
      BY <3>2, <3>3
    <3> QED
      BY <3>3, <3>4 DEF Leg
  <2>5. middle \in [1..Cardinality(givers) -> L]
    <3>1. DOMAIN order = 1..Cardinality(givers)
      BY <2>1
    <3> HIDE DEF L
    <3> QED
      BY <2>4, <3>1
  <2> HIDE DEF middle, L
  <2> QED
    BY <2>3, <2>5
<1>9. Compensation(ids, payer, order) = first \o middle \o last
  BY DEF Compensation
<1>10. first \o middle \o last \in Seq(L)
  <2> HIDE DEF first, middle, last, L
  <2> QED
    BY <1>6, <1>7, <1>8
<1> QED
  BY <1>9, <1>10 DEF Legs

\* What every reversal has read is a group of entries that keeps the books, and
\* stays one whatever is posted or reversed before it takes the locks.
ReadGroups ==
    \E W : /\ Books(ledger, W)
           /\ \A a \in Admins : reading[a] # NoReading => reading[a].ids \in W

LedgerInv == LedgerTypeOK /\ BalanceIsLedger /\ ReadGroups

LEMMA LedgerStart == LedgerInit => LedgerInv
<1> SUFFICES ASSUME LedgerInit PROVE LedgerInv
  OBVIOUS
<1> USE DEF LedgerInit
<1>1. LedgerTypeOK
  BY LedgerAssumption DEF LedgerTypeOK
<1>2. Total(ledger, {}) = 0
  BY SumEmpty DEF Total
<1>3. BalanceIsLedger
  <2> SUFFICES ASSUME NEW w \in Wallets
               PROVE  balances[w] = Initial[w] + Total(ledger, On(ledger, w) \cap Standing(ledger))
    BY DEF BalanceIsLedger
  <2>1. On(ledger, w) \cap Standing(ledger) = {}
    BY DEF On, Standing
  <2>2. Initial[w] \in Int /\ Initial[w] + 0 = Initial[w]
    BY LedgerAssumption
  <2>3. Total(ledger, On(ledger, w) \cap Standing(ledger)) = 0
    BY <1>2, <2>1
  <2>4. balances[w] = Initial[w]
    OBVIOUS
  <2> QED
    BY <2>2, <2>3, <2>4
<1>4. ReadGroups
  <2> DEFINE W == {{}}
  <2>1. \A q \in Refs : StandingOf(ledger, q) \in W
    BY DEF StandingOf, Standing
  <2>2. /\ W \subseteq SUBSET DOMAIN ledger /\ {} \in W
        /\ \A S, T \in W : S \cup T \in W /\ S \ T \in W
    OBVIOUS
  <2>3. \A S \in W : Total(ledger, S) = 0
    BY <1>2
  <2>4. Books(ledger, W)
    <3> HIDE DEF W
    <3> QED
      BY <2>1, <2>2, <2>3 DEF Books
  <2>5. \A a \in Admins : reading[a] # NoReading => reading[a].ids \in W
    OBVIOUS
  <2> QED
    BY <2>4, <2>5 DEF ReadGroups
<1> QED
  BY <1>1, <1>3, <1>4 DEF LedgerInv

\* A posting keeps the invariant.
LEMMA PostKeeps ==
    ASSUME LedgerInv, NEW r \in Refs, NEW legs \in Legs, Post(r, legs),
           requested' \in [Refs -> Nat]
    PROVE  LedgerInv'
<1> DEFINE all == ledger \o Rows(r, legs)
           bal == Credited(balances, legs)
<1>1. /\ ledger \in Seq(Entry) /\ balances \in [Wallets -> Int]
      /\ reading \in [Admins -> {NoReading} \cup [ref : Refs, ids : SUBSET (1..Len(ledger))]]
      /\ reversals \in [Refs -> Nat]
  BY DEF LedgerInv, LedgerTypeOK
<1>2. /\ ledger' = all /\ balances' = bal /\ reading' = reading /\ reversals' = reversals
      /\ Total(legs, DOMAIN legs) = 0
  BY DEF Post, Postable
<1>3. /\ all \in Seq(Entry) /\ Len(ledger) \in Nat /\ Len(legs) \in Nat
      /\ Len(all) = Len(ledger) + Len(legs)
  BY <1>1, Appended, LedgerRows, LegRows
<1>4. Projects(ledger, balances)
  BY DEF LedgerInv, BalanceIsLedger, Projects
<1>5. bal \in [Wallets -> Int] /\ Projects(all, bal)
  BY <1>1, <1>4, PostProjects
<1>6. PICK W : /\ Books(ledger, W)
               /\ \A a \in Admins : reading[a] # NoReading => reading[a].ids \in W
  BY DEF LedgerInv, ReadGroups
<1>7. PICK V : W \subseteq V /\ Books(all, V)
  BY <1>1, <1>2, <1>6, PostBooks
<1> HIDE DEF all, bal
<1>8. LedgerTypeOK'
  <2>1. 1..Len(ledger) \subseteq 1..Len(all)
    BY <1>3
  <2>2. reading \in [Admins -> {NoReading} \cup [ref : Refs, ids : SUBSET (1..Len(all))]]
    <3>1. ASSUME NEW a \in Admins, reading[a] # NoReading
          PROVE  reading[a] \in [ref : Refs, ids : SUBSET (1..Len(all))]
      <4>1. reading[a] \in [ref : Refs, ids : SUBSET (1..Len(ledger))]
        BY <1>1, <3>1
      <4> QED
        BY <2>1, <4>1
    <3> QED
      BY <1>1, <3>1
  <2> QED
    BY <1>1, <1>2, <1>3, <1>5, <2>2 DEF LedgerTypeOK
<1>9. BalanceIsLedger'
  BY <1>2, <1>5 DEF BalanceIsLedger, Projects
<1>10. ReadGroups'
  <2>1. \A a \in Admins : reading'[a] # NoReading => reading'[a].ids \in V
    BY <1>2, <1>6, <1>7
  <2>2. Books(ledger', V)
    BY <1>2, <1>7
  <2> QED
    BY <2>1, <2>2 DEF ReadGroups
<1> QED
  BY <1>8, <1>9, <1>10 DEF LedgerInv

LEMMA HoldKeeps ==
    ASSUME LedgerInv, NEW r \in Refs, HoldFare(r)
    PROVE  LedgerInv'
<1> DEFINE legs == <<Leg("customer", -Fare), Leg("escrow", Fare)>>
<1>1. legs \in Legs
  <2> DEFINE L == [wallet : Wallets, amount : Int \ {0}]
  <2>1. Leg("customer", -Fare) \in L /\ Leg("escrow", Fare) \in L
    BY LedgerAssumption DEF Leg, Wallets
  <2> HIDE DEF L
  <2>2. legs \in Seq(L)
    BY <2>1
  <2> QED
    BY <2>2 DEF L, Legs
<1>2. Post(r, legs)
  BY DEF HoldFare
<1>3. requested' \in [Refs -> Nat]
  BY DEF HoldFare, LedgerInv, LedgerTypeOK
<1> QED
  BY <1>1, <1>2, <1>3, PostKeeps

LEMMA SettleKeeps ==
    ASSUME LedgerInv, NEW r \in Refs, Settle(r)
    PROVE  LedgerInv'
<1> DEFINE legs == <<Leg("escrow", -Fare), Leg("driver", Fare - Fee), Leg("platform", Fee)>>
<1>1. legs \in Legs
  <2> DEFINE L == [wallet : Wallets, amount : Int \ {0}]
  <2>1. Leg("escrow", -Fare) \in L /\ Leg("driver", Fare - Fee) \in L /\ Leg("platform", Fee) \in L
    BY LedgerAssumption DEF Leg, Wallets
  <2> HIDE DEF L
  <2>2. legs \in Seq(L)
    BY <2>1
  <2> QED
    BY <2>2 DEF L, Legs
<1>2. Post(r, legs)
  BY DEF Settle
<1>3. requested' \in [Refs -> Nat]
  BY DEF Settle, LedgerInv, LedgerTypeOK
<1> QED
  BY <1>1, <1>2, <1>3, PostKeeps

LEMMA ApproveKeeps ==
    ASSUME LedgerInv, NEW r \in Refs, ApproveWithdrawal(r)
    PROVE  LedgerInv'
<1> DEFINE legs == <<Leg("driver", -requested[r]), Leg("bank", requested[r])>>
<1>0. requested \in [Refs -> Nat] /\ requested[r] > 0
  BY DEF LedgerInv, LedgerTypeOK, ApproveWithdrawal
<1>1. legs \in Legs
  <2> DEFINE L == [wallet : Wallets, amount : Int \ {0}]
  <2>1. requested[r] \in Nat
    BY <1>0
  <2>2. Leg("driver", -requested[r]) \in L /\ Leg("bank", requested[r]) \in L
    BY <1>0, <2>1 DEF Leg, Wallets
  <2> HIDE DEF L
  <2>3. legs \in Seq(L)
    BY <2>2
  <2> QED
    BY <2>3 DEF L, Legs
<1>2. Post(r, legs)
  BY DEF ApproveWithdrawal
<1>3. requested' \in [Refs -> Nat]
  BY <1>0 DEF ApproveWithdrawal
<1> QED
  BY <1>1, <1>2, <1>3, PostKeeps

\* Steps that leave the ledger and the balances alone.
LEMMA AsideKeeps ==
    ASSUME LedgerInv, UNCHANGED <<ledger, balances>>,
           requested' \in [Refs -> Nat], reversals' \in [Refs -> Nat],
           reading' \in [Admins -> {NoReading} \cup [ref : Refs, ids : SUBSET (1..Len(ledger))]],
           \A a \in Admins : reading'[a] # NoReading =>
              \/ reading'[a] = reading[a]
              \/ \E r \in Refs : reading'[a].ids = StandingOf(ledger, r)
    PROVE  LedgerInv'
<1>1. LedgerTypeOK'
  BY DEF LedgerInv, LedgerTypeOK
<1>2. BalanceIsLedger'
  BY DEF LedgerInv, BalanceIsLedger
<1>3. ReadGroups'
  <2>1. PICK W : /\ Books(ledger, W)
                 /\ \A a \in Admins : reading[a] # NoReading => reading[a].ids \in W
    BY DEF LedgerInv, ReadGroups
  <2>2. \A r \in Refs : StandingOf(ledger, r) \in W
    BY <2>1 DEF Books
  <2>3. \A a \in Admins : reading'[a] # NoReading => reading'[a].ids \in W
    BY <2>1, <2>2
  <2>4. Books(ledger', W)
    BY <2>1
  <2> QED
    BY <2>3, <2>4 DEF ReadGroups
<1> QED
  BY <1>1, <1>2, <1>3 DEF LedgerInv

LEMMA RequestKeeps ==
    ASSUME LedgerInv, NEW r \in Refs, NEW amount \in Payouts, RequestWithdrawal(r, amount)
    PROVE  LedgerInv'
<1>1. /\ requested \in [Refs -> Nat] /\ reversals \in [Refs -> Nat]
      /\ reading \in [Admins -> {NoReading} \cup [ref : Refs, ids : SUBSET (1..Len(ledger))]]
  BY DEF LedgerInv, LedgerTypeOK
<1>2. UNCHANGED <<ledger, balances>> /\ reading' = reading /\ reversals' = reversals
  BY DEF RequestWithdrawal
<1>3. requested' \in [Refs -> Nat]
  <2>1. amount \in Nat
    BY LedgerAssumption
  <2> QED
    BY <1>1, <2>1 DEF RequestWithdrawal
<1> QED
  BY <1>1, <1>2, <1>3, AsideKeeps

LEMMA RejectKeeps ==
    ASSUME LedgerInv, NEW r \in Refs, RejectWithdrawal(r)
    PROVE  LedgerInv'
<1>1. /\ requested \in [Refs -> Nat] /\ reversals \in [Refs -> Nat]
      /\ reading \in [Admins -> {NoReading} \cup [ref : Refs, ids : SUBSET (1..Len(ledger))]]
  BY DEF LedgerInv, LedgerTypeOK
<1>2. UNCHANGED <<ledger, balances>> /\ reading' = reading /\ reversals' = reversals
  BY DEF RejectWithdrawal
<1>3. requested' \in [Refs -> Nat]
  BY <1>1 DEF RejectWithdrawal
<1> QED
  BY <1>1, <1>2, <1>3, AsideKeeps

LEMMA ReadKeeps ==
    ASSUME LedgerInv, NEW a \in Admins, NEW r \in Refs, ReadEntries(a, r)
    PROVE  LedgerInv'
<1> DEFINE R == [ref : Refs, ids : SUBSET (1..Len(ledger))]
           seen == [ref |-> r, ids |-> StandingOf(ledger, r)]
<1>1. /\ requested \in [Refs -> Nat] /\ reversals \in [Refs -> Nat]
      /\ reading \in [Admins -> {NoReading} \cup R]
      /\ ledger \in Seq(Entry)
  BY DEF LedgerInv, LedgerTypeOK
<1>2. /\ UNCHANGED <<ledger, balances>> /\ requested' = requested /\ reversals' = reversals
      /\ reading' = [reading EXCEPT ![a] = seen]
  BY DEF ReadEntries
<1>3. seen \in R /\ seen.ids = StandingOf(ledger, r)
  <2>1. StandingOf(ledger, r) \in SUBSET (1..Len(ledger))
    BY <1>1, LedgerRows DEF StandingOf, Standing
  <2> QED
    BY <2>1
<1> HIDE DEF R, seen
<1>4. reading' \in [Admins -> {NoReading} \cup R]
  BY <1>1, <1>2, <1>3
<1>5. \A b \in Admins : reading'[b] # NoReading =>
         \/ reading'[b] = reading[b]
         \/ \E q \in Refs : reading'[b].ids = StandingOf(ledger, q)
  BY <1>1, <1>2, <1>3
<1> QED
  BY <1>1, <1>2, <1>4, <1>5, AsideKeeps DEF R

LEMMA AbandonKeeps ==
    ASSUME LedgerInv, NEW a \in Admins, Abandon(a)
    PROVE  LedgerInv'
<1> DEFINE R == [ref : Refs, ids : SUBSET (1..Len(ledger))]
<1>1. /\ requested \in [Refs -> Nat] /\ reversals \in [Refs -> Nat]
      /\ reading \in [Admins -> {NoReading} \cup R]
  BY DEF LedgerInv, LedgerTypeOK
<1>2. /\ UNCHANGED <<ledger, balances>> /\ requested' = requested /\ reversals' = reversals
      /\ reading' = [reading EXCEPT ![a] = NoReading]
  BY DEF Abandon
<1> HIDE DEF R
<1>3. reading' \in [Admins -> {NoReading} \cup R]
  BY <1>1, <1>2
<1>4. \A b \in Admins : reading'[b] # NoReading => reading'[b] = reading[b]
  BY <1>1, <1>2
<1> QED
  BY <1>1, <1>2, <1>3, <1>4, AsideKeeps DEF R

\* A reversal that marks a group of the books, after it has posted or not.
LEMMA MarkKeeps ==
    ASSUME NEW a \in Admins,
           reading \in [Admins -> {NoReading} \cup [ref : Refs, ids : SUBSET (1..Len(ledger))]],
           requested' \in [Refs -> Nat], reversals' \in [Refs -> Nat],
           NEW all \in Seq(Entry), Len(ledger) \in Nat, Len(all) \in Nat, Len(ledger) <= Len(all),
           NEW bal \in [Wallets -> Int], Projects(all, bal),
           NEW V, Books(all, V), NEW ids \in V,
           \A b \in Admins : reading[b] # NoReading => reading[b].ids \in V,
           ledger' = Marked(all, ids), balances' = Undone(bal, all, ids),
           reading' = [reading EXCEPT ![a] = NoReading]
    PROVE  LedgerInv'
<1>1. ids \in SUBSET DOMAIN all
  BY DEF Books
<1>2. ledger' \in Seq(Entry) /\ Len(ledger') = Len(all)
  BY <1>1, Marking
<1>3. balances' \in [Wallets -> Int] /\ Projects(ledger', balances')
  BY <1>1, MarkProjects
<1>4. Books(ledger', V)
  BY MarkBooks
<1>5. reading' \in [Admins -> {NoReading} \cup [ref : Refs, ids : SUBSET (1..Len(ledger'))]]
  <2>1. 1..Len(ledger) \subseteq 1..Len(ledger')
    BY <1>2
  <2>2. ASSUME NEW b \in Admins, reading[b] # NoReading
        PROVE  reading[b] \in [ref : Refs, ids : SUBSET (1..Len(ledger'))]
    <3>1. reading[b] \in [ref : Refs, ids : SUBSET (1..Len(ledger))]
      BY <2>2
    <3> QED
      BY <2>1, <3>1
  <2> DEFINE R == [ref : Refs, ids : SUBSET (1..Len(ledger'))]
  <2>3. \A b \in Admins : reading[b] \in {NoReading} \cup R
    BY <2>2
  <2> HIDE DEF R
  <2>4. reading' \in [Admins -> {NoReading} \cup R]
    BY <2>3
  <2> QED
    BY <2>4 DEF R
<1>6. LedgerTypeOK'
  BY <1>2, <1>3, <1>5 DEF LedgerTypeOK
<1>7. BalanceIsLedger'
  BY <1>3 DEF BalanceIsLedger, Projects
<1>8. ReadGroups'
  <2>1. \A b \in Admins : reading'[b] # NoReading => reading'[b].ids \in V
    OBVIOUS
  <2> QED
    BY <1>4, <2>1 DEF ReadGroups
<1> QED
  BY <1>6, <1>7, <1>8 DEF LedgerInv

LEMMA ReverseLedgerKeeps ==
    ASSUME LedgerInv, NEW a \in Admins, ReverseLedger(a)
    PROVE  LedgerInv'
<1> DEFINE ids == reading[a].ids
<1>1. /\ ledger \in Seq(Entry) /\ Len(ledger) \in Nat /\ balances \in [Wallets -> Int]
      /\ reading \in [Admins -> {NoReading} \cup [ref : Refs, ids : SUBSET (1..Len(ledger))]]
      /\ requested \in [Refs -> Nat] /\ reversals \in [Refs -> Nat]
  BY LedgerRows DEF LedgerInv, LedgerTypeOK
<1>2. Projects(ledger, balances)
  BY DEF LedgerInv, BalanceIsLedger, Projects
<1>3. PICK W : /\ Books(ledger, W)
               /\ \A b \in Admins : reading[b] # NoReading => reading[b].ids \in W
  BY DEF LedgerInv, ReadGroups
<1>4. /\ reading[a] # NoReading
      /\ ledger' = Marked(ledger, ids) /\ balances' = Undone(balances, ledger, ids)
      /\ reading' = [reading EXCEPT ![a] = NoReading]
      /\ requested' = requested /\ reversals' = reversals
  BY DEF ReverseLedger
<1>5. ids \in W
  BY <1>3, <1>4
<1> HIDE DEF ids
<1>6. Len(ledger) <= Len(ledger)
  BY <1>1
<1> QED
  BY <1>1, <1>2, <1>3, <1>4, <1>5, <1>6, MarkKeeps

LEMMA ReverseTransactionKeeps ==
    ASSUME LedgerInv, NEW a \in Admins, ReverseTransaction(a)
    PROVE  LedgerInv'
<1> DEFINE ids == reading[a].ids
           r   == reading[a].ref
<1>1. /\ ledger \in Seq(Entry) /\ Len(ledger) \in Nat /\ balances \in [Wallets -> Int]
      /\ reading \in [Admins -> {NoReading} \cup [ref : Refs, ids : SUBSET (1..Len(ledger))]]
      /\ requested \in [Refs -> Nat] /\ reversals \in [Refs -> Nat]
      /\ DOMAIN ledger = 1..Len(ledger)
  BY LedgerRows DEF LedgerInv, LedgerTypeOK
<1>2. /\ reading[a] # NoReading
      /\ reading' = [reading EXCEPT ![a] = NoReading]
      /\ requested' = requested
  BY DEF ReverseTransaction
<1>3. reading[a] \in [ref : Refs, ids : SUBSET (1..Len(ledger))]
  BY <1>1, <1>2
<1>4. r \in Refs /\ ids \in SUBSET DOMAIN ledger
  BY <1>1, <1>3
<1> HIDE DEF ids, r
<1>5. PICK payer \in Wallets, order \in Givers(ids) :
         LET legs == Compensation(ids, payer, order)
             all  == ledger \o Rows(r, legs)
             bal  == Credited(balances, legs)
         IN  /\ Total(legs, DOMAIN legs) = 0
             /\ ledger' = Marked(all, ids)
             /\ balances' = Undone(bal, all, ids)
             /\ reversals' = [reversals EXCEPT ![r] = @ + 1]
  BY DEF ReverseTransaction, ids, r
<1> DEFINE legs == Compensation(ids, payer, order)
           all  == ledger \o Rows(r, legs)
           bal  == Credited(balances, legs)
<1>6. /\ Total(legs, DOMAIN legs) = 0
      /\ ledger' = Marked(all, ids)
      /\ balances' = Undone(bal, all, ids)
      /\ reversals' = [reversals EXCEPT ![r] = @ + 1]
  BY <1>5
<1>7. legs \in Legs
  BY <1>4, Compensates DEF LedgerInv
<1> HIDE DEF legs
<1>8. Projects(ledger, balances)
  BY DEF LedgerInv, BalanceIsLedger, Projects
<1>9. PICK W : /\ Books(ledger, W)
               /\ \A b \in Admins : reading[b] # NoReading => reading[b].ids \in W
  BY DEF LedgerInv, ReadGroups
<1>10. all \in Seq(Entry) /\ Len(all) \in Nat /\ Len(ledger) <= Len(all)
  <2>1. all \in Seq(Entry) /\ Len(all) = Len(ledger) + Len(legs)
    BY <1>1, <1>4, <1>7, Appended
  <2>2. Len(legs) \in Nat
    BY <1>7, LegRows
  <2> HIDE DEF all
  <2> QED
    BY <1>1, <2>1, <2>2
<1>11. bal \in [Wallets -> Int] /\ Projects(all, bal)
  BY <1>1, <1>4, <1>7, <1>8, PostProjects
<1>12. PICK V : W \subseteq V /\ Books(all, V)
  BY <1>1, <1>4, <1>6, <1>7, <1>9, PostBooks
<1> HIDE DEF all, bal
<1>13. ids \in V /\ \A b \in Admins : reading[b] # NoReading => reading[b].ids \in V
  BY <1>2, <1>9, <1>12 DEF ids
<1>14. requested' \in [Refs -> Nat] /\ reversals' \in [Refs -> Nat]
  BY <1>1, <1>2, <1>4, <1>6
<1> QED
  BY <1>1, <1>2, <1>6, <1>10, <1>11, <1>12, <1>13, <1>14, MarkKeeps

LEMMA LedgerStep == LedgerInv /\ [LedgerNext]_ledgerVars => LedgerInv'
<1> SUFFICES ASSUME LedgerInv, [LedgerNext]_ledgerVars PROVE LedgerInv'
  OBVIOUS
<1>1. CASE \E r \in Refs : HoldFare(r) \/ Settle(r)
  BY <1>1, HoldKeeps, SettleKeeps
<1>2. CASE \E r \in Refs, amount \in Payouts : RequestWithdrawal(r, amount)
  BY <1>2, RequestKeeps
<1>3. CASE \E r \in Refs : ApproveWithdrawal(r) \/ RejectWithdrawal(r)
  BY <1>3, ApproveKeeps, RejectKeeps
<1>4. CASE \E a \in Admins, r \in Refs : ReadEntries(a, r)
  BY <1>4, ReadKeeps
<1>5. CASE \E a \in Admins : ReverseTransaction(a) \/ ReverseLedger(a) \/ Abandon(a)
  BY <1>5, ReverseTransactionKeeps, ReverseLedgerKeeps, AbandonKeeps
<1>6. CASE UNCHANGED ledgerVars
  <2>1. UNCHANGED <<ledger, balances, requested, reading, reversals>>
    BY <1>6 DEF ledgerVars
  <2> QED
    BY <2>1 DEF LedgerInv, LedgerTypeOK, BalanceIsLedger, ReadGroups
<1> QED
  BY <1>1, <1>2, <1>3, <1>4, <1>5, <1>6 DEF LedgerNext

\* The types, the projection and the groups that were read, in every state:
\* for any orders, amounts, opening balances, and any number of reversals at
\* once of the same entries.
THEOREM LedgerInvariant == LedgerSpec => []LedgerInv
BY LedgerStart, LedgerStep, PTL DEF LedgerSpec

\* The type invariant of the ledger (ledger_entries.amount is never zero).
THEOREM LedgerTypes == LedgerSpec => []LedgerTypeOK
<1>1. LedgerInv => LedgerTypeOK
  BY DEF LedgerInv
<1> QED
  BY <1>1, LedgerInvariant, PTL

\* The trigger sync_wallet_balance: every balance is the opening balance and the
\* entries of its wallet that stand, also after two reversals of one reading.
THEOREM LedgerBalance == LedgerSpec => []BalanceIsLedger
<1>1. LedgerInv => BalanceIsLedger
  BY DEF LedgerInv
<1> QED
  BY <1>1, LedgerInvariant, PTL

\* check_ledger_balance and the two reversals: what stands of every reference
\* adds up to nothing, whatever was posted between a reading and its locks.
THEOREM LedgerRefs == LedgerSpec => []RefsBalanced
<1>1. LedgerInv => RefsBalanced
  <2> SUFFICES ASSUME LedgerInv, NEW q \in Refs
               PROVE  Total(ledger, StandingOf(ledger, q)) = 0
    BY DEF RefsBalanced
  <2>1. PICK W : Books(ledger, W)
    BY DEF LedgerInv, ReadGroups
  <2> QED
    BY <2>1 DEF Books
<1> QED
  BY <1>1, LedgerInvariant, PTL

=============================================================================
