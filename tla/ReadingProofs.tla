---------------------------- MODULE ReadingProofs ----------------------------
(***************************************************************************)
(* Proofs about what readers are answered: the frames of an MCP session,    *)
(* the pages of a neighborhood, the records of a federated query, and the   *)
(* paths and pages of a scoped view.                                        *)
(*                                                                         *)
(* Rows are ordered by ranking them, and packets are put together by        *)
(* folding sequences.  Induction over both goes through sets of numbers,    *)
(* so that it is first-order: a set that has the first number and with      *)
(* each number the next one has them all.                                   *)
(***************************************************************************)
EXTENDS McpSession, GraphReading, FederatedReading, ScopedReading, TLAPS, FiniteSetTheorems,
        SequenceTheorems, WellFoundedInduction

-----------------------------------------------------------------------------
(* Numbers, ranks and orders.                                              *)

\* Every set of numbers that is not empty has a least one.
LEMMA LeastNumber ==
  ASSUME NEW S \in SUBSET Nat, S # {}
  PROVE  \E n \in S : \A k \in S : n <= k
<1> DEFINE R == {ss \in Nat \X Nat : ss[1] < ss[2]}
<1>1. IsWellFoundedOn(R, Nat)
  BY NatLessThanWellFounded DEF OpToRel
<1>2. \E x \in S : \A y \in S : ~ (<<y, x>> \in R)
  <2> HIDE DEF R
  <2> QED BY <1>1, WFMin
<1>3. PICK x \in S : \A y \in S : ~ (<<y, x>> \in R)
  BY <1>2
<1>4. \A y \in S : ~ (y < x)
  BY <1>3
<1> QED BY <1>4

\* Induction: a set with zero and every successor has all numbers.
LEMMA AllNumbers ==
  ASSUME NEW S \in SUBSET Nat, 0 \in S, \A n \in S : n + 1 \in S
  PROVE  S = Nat
<1> SUFFICES ASSUME Nat \ S # {} PROVE FALSE
  OBVIOUS
<1>1. PICK n \in Nat \ S : \A k \in Nat \ S : n <= k
  BY LeastNumber
<1>2. n # 0 /\ n - 1 \in Nat
  BY <1>1
<1>3. n - 1 \in S
  BY <1>1, <1>2
<1> QED BY <1>1, <1>2, <1>3
\* B orders S.
Sorts(B, S) ==
  /\ \A x \in S : <<x, x>> \notin B
  /\ \A x, y \in S : x # y => <<x, y>> \in B \/ <<y, x>> \in B
  /\ \A x, y, z \in S : <<x, y>> \in B /\ <<y, z>> \in B => <<x, z>> \in B

Below(x, S, B) == {y \in S : <<y, x>> \in B}
RankedBy(S, B) == [n \in 1 .. Cardinality(S) |-> CHOOSE x \in S : Cardinality(Below(x, S, B)) = n - 1]

\* What is below is fewer.
LEMMA BelowGrows ==
  ASSUME NEW S, IsFiniteSet(S), NEW B, Sorts(B, S), NEW x \in S, NEW y \in S, <<x, y>> \in B
  PROVE  /\ Cardinality(Below(x, S, B)) < Cardinality(Below(y, S, B))
         /\ Cardinality(Below(x, S, B)) \in Nat /\ Cardinality(Below(y, S, B)) \in Nat
<1>1. /\ IsFiniteSet(Below(x, S, B)) /\ IsFiniteSet(Below(y, S, B))
      /\ Cardinality(Below(x, S, B)) \in Nat /\ Cardinality(Below(y, S, B)) \in Nat
  BY FS_Subset, FS_CardinalityType DEF Below
<1>2. Below(x, S, B) \cup {x} \subseteq Below(y, S, B) /\ x \notin Below(x, S, B)
  BY DEF Below, Sorts
<1>3. /\ IsFiniteSet(Below(x, S, B) \cup {x})
      /\ Cardinality(Below(x, S, B) \cup {x}) = Cardinality(Below(x, S, B)) + 1
  BY <1>1, <1>2, FS_AddElement
<1>4. Cardinality(Below(x, S, B) \cup {x}) <= Cardinality(Below(y, S, B))
  BY <1>1, <1>2, FS_Subset
<1> QED BY <1>1, <1>3, <1>4

\* The sequence of the ranks has every element, each at its rank.
LEMMA RankedFacts ==
  ASSUME NEW S, IsFiniteSet(S), NEW B, Sorts(B, S)
  PROVE  LET n == Cardinality(S)
             s == RankedBy(S, B)
         IN  /\ n \in Nat /\ s \in [1 .. n -> S] /\ s \in Seq(S) /\ Len(s) = n
             /\ \A i \in 1 .. n : Cardinality(Below(s[i], S, B)) = i - 1
             /\ \A x \in S : /\ Cardinality(Below(x, S, B)) \in Nat
                             /\ Cardinality(Below(x, S, B)) + 1 \in 1 .. n
                             /\ s[Cardinality(Below(x, S, B)) + 1] = x
             /\ \A i, j \in 1 .. n : i < j <=> <<s[i], s[j]>> \in B
<1> DEFINE n == Cardinality(S)
           s == RankedBy(S, B)
           Rank(x) == Cardinality(Below(x, S, B))
           r == [x \in S |-> Rank(x)]
<1>1. n \in Nat
  BY FS_CardinalityType
<1>2. ASSUME NEW x \in S PROVE Rank(x) \in 0 .. n - 1
  <2>1. Below(x, S, B) \subseteq S \ {x}
    BY DEF Below, Sorts
  <2>2. IsFiniteSet(S \ {x}) /\ Cardinality(S \ {x}) = n - 1
    BY FS_RemoveElement
  <2>3. IsFiniteSet(Below(x, S, B)) /\ Cardinality(Below(x, S, B)) <= n - 1
    BY <2>1, <2>2, FS_Subset
  <2> QED BY <1>1, <2>3, FS_CardinalityType
<1>3. \A x, y \in S : <<x, y>> \in B => Rank(x) < Rank(y)
  BY BelowGrows
<1>4. r \in Injection(S, 0 .. n - 1)
  <2>1. r \in [S -> 0 .. n - 1]
    BY <1>2
  <2>2. ASSUME NEW x \in S, NEW y \in S, r[x] = r[y] PROVE x = y
    <3>1. ~(Rank(x) < Rank(y)) /\ ~(Rank(y) < Rank(x))
      BY <1>1, <1>2, <2>2
    <3> QED BY <1>3, <3>1 DEF Sorts
  <2> HIDE DEF r
  <2> QED BY <2>1, <2>2 DEF Injection, IsInjective
<1>5. IsFiniteSet(0 .. n - 1) /\ Cardinality(0 .. n - 1) = n
  BY <1>1, FS_Interval
<1>6. r \in Surjection(S, 0 .. n - 1)
  <2> HIDE DEF r, n
  <2> QED BY <1>4, <1>5, FS_Injection DEF n
<1>7. \A k \in 0 .. n - 1 : \E x \in S : Rank(x) = k
  BY <1>6 DEF Surjection
<1>8. \A i \in 1 .. n : s[i] \in S /\ Rank(s[i]) = i - 1
  <2> SUFFICES ASSUME NEW i \in 1 .. n PROVE s[i] \in S /\ Rank(s[i]) = i - 1
    OBVIOUS
  <2>1. i - 1 \in 0 .. n - 1
    BY <1>1
  <2>2. \E x \in S : Cardinality(Below(x, S, B)) = i - 1
    BY <1>7, <2>1
  <2>3. s[i] = CHOOSE x \in S : Cardinality(Below(x, S, B)) = i - 1
    BY DEF RankedBy
  <2> QED BY <2>2, <2>3
<1>9. s \in [1 .. n -> S]
  <2>1. s = [i \in 1 .. n |-> s[i]]
    BY DEF RankedBy
  <2> HIDE DEF s
  <2> QED BY <1>8, <2>1
<1>10. s \in Seq(S) /\ Len(s) = n
  BY <1>1, <1>9, IsASeq
<1>11. ASSUME NEW x \in S PROVE Rank(x) + 1 \in 1 .. n /\ s[Rank(x) + 1] = x
  <2>1. Rank(x) + 1 \in 1 .. n
    BY <1>1, <1>2
  <2>2. r[s[Rank(x) + 1]] = r[x]
    BY <1>2, <1>8, <2>1
  <2> HIDE DEF r, s
  <2> QED BY <1>4, <1>8, <2>1, <2>2 DEF Injection, IsInjective
<1>12. ASSUME NEW i \in 1 .. n, NEW j \in 1 .. n PROVE i < j <=> <<s[i], s[j]>> \in B
  <2>1. Rank(s[i]) = i - 1 /\ Rank(s[j]) = j - 1 /\ s[i] \in S /\ s[j] \in S
    BY <1>8
  <2>2. ASSUME <<s[i], s[j]>> \in B PROVE i < j
    <3>1. Rank(s[i]) < Rank(s[j])
      BY <1>3, <2>1, <2>2
    <3> HIDE DEF s, Rank
    <3> QED BY <1>1, <2>1, <3>1
  <2>3. ASSUME i < j PROVE <<s[i], s[j]>> \in B
    <3>1. s[i] # s[j]
      <4> HIDE DEF s, Rank
      <4> QED BY <1>1, <2>1, <2>3
    <3>2. ~(<<s[j], s[i]>> \in B)
      <4> SUFFICES ASSUME <<s[j], s[i]>> \in B PROVE FALSE
        OBVIOUS
      <4>1. Rank(s[j]) < Rank(s[i])
        BY <1>3, <2>1
      <4> HIDE DEF s, Rank
      <4> QED BY <1>1, <2>1, <2>3, <4>1
    <3> QED BY <2>1, <3>1, <3>2 DEF Sorts
  <2> QED BY <2>2, <2>3
<1> HIDE DEF n, s
<1> QED BY <1>1, <1>2, <1>8, <1>9, <1>10, <1>11, <1>12 DEF n, s

\* Numbers in order.
LEMMA RankedNumbers ==
  ASSUME NEW S \in SUBSET Nat, IsFiniteSet(S)
  PROVE  LET s == Ranked(S, <)
         IN  /\ s \in Seq(S) /\ Len(s) = Cardinality(S) /\ Cardinality(S) \in Nat
             /\ \A x \in S : \E i \in 1 .. Len(s) : s[i] = x
             /\ \A i, j \in 1 .. Len(s) : i < j <=> s[i] < s[j]
<1> DEFINE B == {x \in S \X S : x[1] < x[2]}
<1>1. Sorts(B, S)
  BY DEF Sorts
<1>2. Ranked(S, <) = RankedBy(S, B)
  <2>1. ASSUME NEW x \in S PROVE {y \in S : y < x} = Below(x, S, B)
    BY DEF Below
  <2>2. ASSUME NEW k \in 1 .. Cardinality(S)
        PROVE (CHOOSE x \in S : Cardinality({y \in S : y < x}) = k - 1)
                = (CHOOSE x \in S : Cardinality(Below(x, S, B)) = k - 1)
    <3> DEFINE Q(x) == Cardinality({y \in S : y < x}) = k - 1
               T(x) == Cardinality(Below(x, S, B)) = k - 1
    <3>1. \A x \in S : Q(x) <=> T(x)
      BY <2>1
    <3> HIDE DEF Q, T
    <3>2. (CHOOSE x \in S : Q(x)) = (CHOOSE x \in S : T(x))
      BY <3>1
    <3> QED BY <3>2 DEF Q, T
  <2> HIDE DEF B
  <2>3. Ranked(S, <) = [k \in 1 .. Cardinality(S) |-> CHOOSE x \in S : Cardinality({y \in S : y < x}) = k - 1]
    BY DEF Ranked
  <2> QED BY <2>2, <2>3 DEF RankedBy
<1> DEFINE s == RankedBy(S, B)
           m == Cardinality(S)
<1>3. /\ m \in Nat /\ s \in Seq(S) /\ Len(s) = m
      /\ \A x \in S : Cardinality(Below(x, S, B)) + 1 \in 1 .. m /\ s[Cardinality(Below(x, S, B)) + 1] = x
      /\ \A i, j \in 1 .. m : i < j <=> <<s[i], s[j]>> \in B
      /\ \A i \in 1 .. m : s[i] \in S
  <2> HIDE DEF B
  <2> QED BY <1>1, RankedFacts
<1>4. \A i, j \in 1 .. m : i < j <=> s[i] < s[j]
  <2> HIDE DEF s, m
  <2> QED BY <1>3
<1>5. \A x \in S : \E i \in 1 .. m : s[i] = x
  BY <1>3
<1> HIDE DEF B, s
<1> QED BY <1>2, <1>3, <1>4, <1>5 DEF s

-----------------------------------------------------------------------------
(* Folds: FoldLeft goes through the set of its indices.                    *)

\* The greatest number of an interval, and what is left without it.
LEMMA LastIndex ==
  ASSUME NEW k \in Nat \ {0}
  PROVE  Max(1 .. k) = k /\ (1 .. k) \ {k} = 1 .. k - 1 /\ 1 .. k # {}
<1>1. k \in 1 .. k /\ \A y \in 1 .. k : k >= y
  OBVIOUS
<1>2. \A x \in 1 .. k : (\A y \in 1 .. k : x >= y) => x = k
  BY <1>1
<1> QED BY <1>1, <1>2 DEF Max

\* Every set of indices that is not empty has a greatest one.
LEMMA GreatestIndex ==
  ASSUME NEW n \in Nat, NEW s \in SUBSET (1 .. n), s # {}
  PROVE  Max(s) \in s
<1> DEFINE R == {n - i : i \in s}
<1>1. R \in SUBSET Nat /\ R # {}
  <2>1. \A i \in 1 .. n : n - i \in Nat
    OBVIOUS
  <2>2. R # {}
    OBVIOUS
  <2> QED BY <2>1, <2>2
<1>2. PICK m \in R : \A k \in R : m <= k
  <2> HIDE DEF R
  <2> QED BY <1>1, LeastNumber
<1>3. PICK i \in s : m = n - i
  BY <1>2
<1>4. \A j \in s : i >= j
  <2> SUFFICES ASSUME NEW j \in s PROVE i >= j
    OBVIOUS
  <2>1. n - i <= n - j /\ i \in 1 .. n /\ j \in 1 .. n
    BY <1>2, <1>3
  <2> QED BY <2>1
<1> QED BY <1>4 DEF Max

\* One round of a fold whose step is the function G.
Round(f, G, base, s) == IF s = {} THEN base ELSE G[<<f[s \ {Max(s)}], Max(s)>>]

\* What a step makes of a value and an index, and what a fold is made of.
FoldSteps(T, n) == [T \X (1 .. n) -> T]
IsFold(f, G, base, n, T) ==
  f \in [SUBSET (1 .. n) -> T] /\ \A s \in SUBSET (1 .. n) : f[s] = Round(f, G, base, s)

FoldsUpTo(f, G, base, n, T, k) ==
  f \in [SUBSET (1 .. n) -> T] /\ \A s \in SUBSET (1 .. n) : Cardinality(s) <= k => f[s] = Round(f, G, base, s)

\* Whatever the step, there is such a fold.
LEMMA FoldExists ==
  ASSUME NEW n \in Nat, NEW T, NEW base \in T, NEW G \in FoldSteps(T, n)
  PROVE  \E f : IsFold(f, G, base, n, T)
<1> USE DEF FoldSteps
<1> DEFINE P == {k \in Nat : \E f : FoldsUpTo(f, G, base, n, T, k)}
<1>0. \A s \in SUBSET (1 .. n) :
        /\ IsFiniteSet(s) /\ Cardinality(s) \in Nat /\ (s = {} <=> Cardinality(s) = 0)
        /\ Cardinality(s) <= n
        /\ s # {} => /\ Max(s) \in s /\ Max(s) \in 1 .. n /\ s \ {Max(s)} \in SUBSET (1 .. n)
                     /\ Cardinality(s \ {Max(s)}) = Cardinality(s) - 1
  <2> SUFFICES ASSUME NEW s \in SUBSET (1 .. n)
               PROVE  /\ IsFiniteSet(s) /\ Cardinality(s) \in Nat /\ (s = {} <=> Cardinality(s) = 0)
                      /\ Cardinality(s) <= n
                      /\ s # {} => /\ Max(s) \in s /\ Max(s) \in 1 .. n /\ s \ {Max(s)} \in SUBSET (1 .. n)
                                   /\ Cardinality(s \ {Max(s)}) = Cardinality(s) - 1
    OBVIOUS
  <2>1. IsFiniteSet(1 .. n) /\ Cardinality(1 .. n) = n
    BY FS_Interval
  <2>2. IsFiniteSet(s) /\ Cardinality(s) <= n /\ Cardinality(s) \in Nat
    <3> DEFINE I == 1 .. n
    <3>1. IsFiniteSet(I) /\ Cardinality(I) = n /\ s \in SUBSET I
      BY <2>1
    <3> HIDE DEF I
    <3>2. IsFiniteSet(s) /\ Cardinality(s) <= Cardinality(I)
      BY <3>1, FS_Subset
    <3> QED BY <3>1, <3>2, FS_CardinalityType
  <2>3. s = {} <=> Cardinality(s) = 0
    BY <2>2, FS_EmptySet
  <2>4. s # {} => Max(s) \in s
    BY GreatestIndex
  <2>5. s # {} => Cardinality(s \ {Max(s)}) = Cardinality(s) - 1
    BY <2>2, <2>4, FS_RemoveElement
  <2> QED BY <2>2, <2>3, <2>4, <2>5
<1>1. 0 \in P
  <2> DEFINE f == [s \in SUBSET (1 .. n) |-> base]
  <2>1. FoldsUpTo(f, G, base, n, T, 0)
    <3>1. f \in [SUBSET (1 .. n) -> T]
      OBVIOUS
    <3>2. \A s \in SUBSET (1 .. n) : Cardinality(s) <= 0 => f[s] = Round(f, G, base, s)
      <4> SUFFICES ASSUME NEW s \in SUBSET (1 .. n), Cardinality(s) <= 0 PROVE f[s] = Round(f, G, base, s)
        OBVIOUS
      <4>1. Cardinality(s) \in Nat /\ (s = {} <=> Cardinality(s) = 0)
        BY <1>0
      <4>2. s = {}
        BY <4>1
      <4> QED BY <4>2 DEF Round
    <3> QED BY <3>1, <3>2 DEF FoldsUpTo
  <2> QED BY <2>1
<1>2. ASSUME NEW k \in P PROVE k + 1 \in P
  <2>1. PICK f : FoldsUpTo(f, G, base, n, T, k)
    BY <1>2
  <2>2. f \in [SUBSET (1 .. n) -> T]
    BY <2>1 DEF FoldsUpTo
  <2> DEFINE g == [s \in SUBSET (1 .. n) |-> IF Cardinality(s) <= k THEN f[s] ELSE Round(f, G, base, s)]
  <2>3. g \in [SUBSET (1 .. n) -> T]
    <3>1. \A s \in SUBSET (1 .. n) : Round(f, G, base, s) \in T
      BY <1>0, <2>2 DEF Round
    <3> QED BY <2>2, <3>1
  <2>4. ASSUME NEW s \in SUBSET (1 .. n), Cardinality(s) <= k + 1 PROVE g[s] = Round(g, G, base, s)
    <3>1. g[s] = Round(f, G, base, s)
      BY <2>1 DEF FoldsUpTo
    <3>2. CASE s = {}
      BY <3>1, <3>2 DEF Round
    <3>3. CASE s # {}
      <4>1. s \ {Max(s)} \in SUBSET (1 .. n) /\ Cardinality(s \ {Max(s)}) <= k
        BY <1>0, <1>2, <2>4, <3>3
      <4>2. g[s \ {Max(s)}] = f[s \ {Max(s)}]
        BY <4>1
      <4> HIDE DEF g
      <4> QED BY <3>1, <3>3, <4>2 DEF Round
    <3> QED BY <3>2, <3>3
  <2>5. FoldsUpTo(g, G, base, n, T, k + 1)
    <3> HIDE DEF g
    <3> QED BY <2>3, <2>4 DEF FoldsUpTo
  <2> QED BY <1>2, <2>5
<1>3. P = Nat
  <2> HIDE DEF P
  <2>1. P \in SUBSET Nat
    BY DEF P
  <2> QED BY <1>1, <1>2, <2>1, AllNumbers
<1>5. PICK f : FoldsUpTo(f, G, base, n, T, n)
  BY <1>3
<1>6. f \in [SUBSET (1 .. n) -> T] /\ \A s \in SUBSET (1 .. n) : f[s] = Round(f, G, base, s)
  BY <1>0, <1>5 DEF FoldsUpTo
<1> QED BY <1>6 DEF IsFold

\* A fold from left to right: each value is made from the one before.
Chain(h, G, base, n, T) ==
  h \in [0 .. n -> T] /\ h[0] = base /\ \A k \in 1 .. n : h[k] = G[<<h[k - 1], k>>]

FoldFollows(f, G, base, n, T) ==
  /\ f[{}] = base
  /\ \A s \in SUBSET (1 .. n) : s # {} /\ f[s \ {Max(s)}] \in T => f[s] = G[<<f[s \ {Max(s)}], Max(s)>>]

\* The values of a fold at the beginnings of the sequence.
LEMMA FoldChain ==
  ASSUME NEW n \in Nat, NEW T, NEW base \in T, NEW G \in FoldSteps(T, n), NEW f,
         FoldFollows(f, G, base, n, T)
  PROVE  \E h : Chain(h, G, base, n, T) /\ h[n] = f[1 .. n]
<1> USE DEF FoldSteps, FoldFollows
<1> DEFINE h == [k \in 0 .. n |-> f[1 .. k]]
           P == {k \in Nat : k <= n => f[1 .. k] \in T}
<1>1. 1 .. 0 = {}
  OBVIOUS
<1>2. \A k \in 1 .. n : f[1 .. k - 1] \in T => f[1 .. k] = G[<<f[1 .. k - 1], k>>] /\ f[1 .. k] \in T
  <2> SUFFICES ASSUME NEW k \in 1 .. n, f[1 .. k - 1] \in T
               PROVE  f[1 .. k] = G[<<f[1 .. k - 1], k>>] /\ f[1 .. k] \in T
    OBVIOUS
  <2>1. 1 .. k \in SUBSET (1 .. n) /\ k \in Nat \ {0}
    OBVIOUS
  <2>2. Max(1 .. k) = k /\ (1 .. k) \ {k} = 1 .. k - 1 /\ 1 .. k # {}
    BY <2>1, LastIndex
  <2>3. f[1 .. k] = G[<<f[1 .. k - 1], k>>]
    BY <2>1, <2>2
  <2> QED BY <2>3
<1>3. P = Nat
  <2>1. 0 \in P
    BY <1>1
  <2>2. ASSUME NEW k \in P PROVE k + 1 \in P
    <3> SUFFICES ASSUME k + 1 <= n PROVE f[1 .. k + 1] \in T
      OBVIOUS
    <3>1. k + 1 \in 1 .. n /\ (k + 1) - 1 = k /\ f[1 .. k] \in T
      BY <2>2
    <3> QED BY <3>1, <1>2
  <2>3. P \in SUBSET Nat
    OBVIOUS
  <2> HIDE DEF P
  <2> QED BY <2>1, <2>2, <2>3, AllNumbers
<1>4. \A k \in 0 .. n : f[1 .. k] \in T
  BY <1>3
<1>5. h \in [0 .. n -> T]
  BY <1>4
<1>6. h[0] = base
  BY <1>1
<1>7. \A k \in 1 .. n : h[k] = G[<<h[k - 1], k>>]
  <2> SUFFICES ASSUME NEW k \in 1 .. n PROVE h[k] = G[<<h[k - 1], k>>]
    OBVIOUS
  <2>1. k - 1 \in 0 .. n /\ k \in 0 .. n
    OBVIOUS
  <2> QED BY <2>1, <1>2, <1>4
<1>8. h[n] = f[1 .. n]
  OBVIOUS
<1> HIDE DEF h
<1>9. Chain(h, G, base, n, T)
  BY <1>5, <1>6, <1>7 DEF Chain
<1> QED BY <1>8, <1>9

\* A sequence of one element.
LEMMA OneElement ==
  ASSUME NEW T, NEW y \in T
  PROVE  <<y>> \in [1 .. 1 -> T]
<1>1. <<y>> \in Seq(T) /\ Len(<<y>>) = 1
  OBVIOUS
<1> QED BY <1>1

\* A sequence of some is a sequence of more.
LEMMA LargerSeq ==
  ASSUME NEW V, NEW U, V \subseteq U, NEW s \in Seq(V)
  PROVE  s \in Seq(U)
<1>1. Len(s) \in Nat /\ DOMAIN s = 1 .. Len(s) /\ s \in [1 .. Len(s) -> V]
  OBVIOUS
<1>2. s \in [1 .. Len(s) -> U]
  BY <1>1
<1> QED BY <1>1, <1>2, IsASeq

-----------------------------------------------------------------------------
(* MCP sessions.  A frame that calls for a response is one token, wherever *)(* the frame or its response is: among the queued requests, with the call  *)
(* that runs, ready, among the controls, being written, or answered.  Every *)
(* step moves one token, or adds the one of the frame it reads, or closes   *)
(* the session.                                                             *)

McpIds == RequestId \cup {NoId}
Req == [number : Nat, id : McpIds, method : Method \cup {"invalid"}]
Ans == [number : Nat, id : McpIds, body : Bodies]

Elems(s) == {s[i] : i \in DOMAIN s}
DistinctNumbers(s) == \A i, j \in DOMAIN s : s[i].number = s[j].number => i = j

Token(at, x) == [at |-> at, number |-> x.number, id |-> x.id]
Placed(at, S) == {Token(at, x) : x \in S}
Running == {r \in active : calling}
Tokens ==
  Placed("queued", Elems(queued)) \cup Placed("control", Elems(controls)) \cup Placed("ready", ready)
    \cup Placed("writing", writing) \cup Placed("calling", Running) \cup Placed("answered", Elems(answers))

McpTypeInv ==
  /\ frames \in Nat
  /\ queued \in Seq(Req) /\ controls \in Seq(Ans) /\ answers \in Seq(Ans)
  /\ active \subseteq Req /\ ready \subseteq Ans /\ writing \subseteq Ans
  /\ calling \in BOOLEAN /\ finished \in BOOLEAN

DistinctInv == DistinctNumbers(queued) /\ DistinctNumbers(controls) /\ DistinctNumbers(answers)

\* One token for each frame, and no identity waits twice.
TokenInv ==
  /\ \A t \in Tokens : t.number \in 1 .. frames
  /\ \A k \in 1 .. frames : \E t \in Tokens : t.number = k
  /\ \A s, t \in Tokens : s.number = t.number => s = t
  /\ \A s, t \in Tokens :
       s.at # "answered" /\ t.at # "answered" /\ s.id = t.id /\ s.id # NoId => s = t

\* The dispatched request is called, or its response is ready, or being written,
\* or was written.
ExchangeInv ==
  /\ \A a, b \in writing : a = b
  /\ phase = "idle" =>
       active = {} /\ ~ calling /\ ready = {} /\ writing = {} /\ controls = <<>>
  /\ phase = "exchange" =>
       \E r \in Req :
         /\ active = {r}
         /\ \/ calling /\ ready = {} /\ ~ finished
            \/ ~ calling /\ ~ finished /\ \E a \in Ans : ready = {a} /\ a.number = r.number /\ a.id = r.id
            \/ ~ calling /\ ~ finished /\ ready = {} /\ \E a \in writing : a.number = r.number /\ a.id = r.id
            \/ ~ calling /\ finished /\ ready = {}

LiveInv == McpTypeInv /\ DistinctInv /\ TokenInv /\ ExchangeInv

\* The database driver is with a graph call of an initialized session.
DriverInv ==
  graph = "lent" => phase = "exchange" /\ calling /\ initialized /\ \A r \in active : r.method = "graph"

McpInv ==
  /\ phase \in {"idle", "exchange", "closed"}
  /\ DistinctNumbers(answers)
  /\ phase # "closed" => LiveInv
  /\ DriverInv

(* Sequences with a number in each element.                                  *)

LEMMA AppendElem ==
  ASSUME NEW S, NEW s \in Seq(S), NEW x \in S
  PROVE  /\ Append(s, x) \in Seq(S) /\ Elems(Append(s, x)) = Elems(s) \cup {x}
         /\ DistinctNumbers(s) /\ (\A y \in Elems(s) : y.number # x.number) => DistinctNumbers(Append(s, x))
<1>1. /\ Append(s, x) \in Seq(S) /\ Len(Append(s, x)) = Len(s) + 1
      /\ \A i \in 1 .. Len(s) : Append(s, x)[i] = s[i]
      /\ Append(s, x)[Len(s) + 1] = x
  OBVIOUS
<1>2. DOMAIN s = 1 .. Len(s) /\ DOMAIN Append(s, x) = 1 .. Len(s) + 1 /\ Len(s) \in Nat
  BY <1>1, LenProperties
<1> QED BY <1>1, <1>2 DEF Elems, DistinctNumbers

LEMMA TailElem ==
  ASSUME NEW S, NEW s \in Seq(S), s # <<>>
  PROVE  /\ Head(s) \in S /\ Head(s) \in Elems(s) /\ Tail(s) \in Seq(S)
         /\ DistinctNumbers(s) => /\ Elems(Tail(s)) = Elems(s) \ {Head(s)}
                           /\ DistinctNumbers(Tail(s))
                           /\ \A y \in Elems(Tail(s)) : y.number # Head(s).number
<1>1. /\ Tail(s) \in Seq(S) /\ Len(Tail(s)) = Len(s) - 1 /\ Head(s) \in S /\ Head(s) = s[1]
      /\ \A i \in 1 .. Len(Tail(s)) : Tail(s)[i] = s[i + 1]
  BY HeadTailProperties
<1>2. Len(s) \in Nat \ {0} /\ DOMAIN s = 1 .. Len(s) /\ DOMAIN Tail(s) = 1 .. Len(s) - 1
  BY <1>1, LenProperties, EmptySeq
<1>3. Head(s) \in Elems(s)
  BY <1>1, <1>2 DEF Elems
<1>4. ASSUME DistinctNumbers(s)
      PROVE  /\ \A y \in Elems(Tail(s)) : y \in Elems(s) /\ y.number # Head(s).number
             /\ DistinctNumbers(Tail(s))
  BY <1>1, <1>2, <1>4 DEF Elems, DistinctNumbers
<1>5. ASSUME NEW y \in Elems(s), y # Head(s)
      PROVE  y \in Elems(Tail(s))
  <2>1. PICK i \in 1 .. Len(s) : y = s[i]
    BY <1>2 DEF Elems
  <2>2. i - 1 \in 1 .. Len(s) - 1 /\ Tail(s)[i - 1] = s[i]
    BY <1>1, <1>2, <1>5, <2>1
  <2> QED BY <1>2, <2>1, <2>2 DEF Elems
<1> QED BY <1>1, <1>3, <1>4, <1>5

LEMMA RemoveElem ==
  ASSUME NEW S, NEW s \in Seq(S), NEW i \in 1 .. Len(s)
  PROVE  LET t == SubSeq(s, 1, i - 1) \o SubSeq(s, i + 1, Len(s)) IN
         /\ s[i] \in S /\ s[i] \in Elems(s) /\ t \in Seq(S)
         /\ DistinctNumbers(s) => /\ Elems(t) = Elems(s) \ {s[i]}
                           /\ DistinctNumbers(t)
<1> DEFINE a == SubSeq(s, 1, i - 1)
           b == SubSeq(s, i + 1, Len(s))
           t == a \o b
<1>1. Len(s) \in Nat /\ DOMAIN s = 1 .. Len(s) /\ \A j \in 1 .. Len(s) : s[j] \in S
  BY LenProperties, ElementOfSeq
<1>2. a \in Seq(S) /\ Len(a) = i - 1 /\ \A j \in 1 .. i - 1 : a[j] = s[j]
  <2>1. 1 \in Int /\ i - 1 \in Int /\ \A j \in 1 .. i - 1 : s[j] \in S
    BY <1>1
  <2>2. /\ a \in Seq(S) /\ Len(a) = IF 1 <= i - 1 THEN (i - 1) - 1 + 1 ELSE 0
        /\ \A j \in 1 .. (i - 1) - 1 + 1 : a[j] = s[1 + j - 1]
    BY <2>1, SubSeqProperties
  <2> QED BY <1>1, <2>2
<1>3. b \in Seq(S) /\ Len(b) = Len(s) - i /\ \A j \in 1 .. Len(s) - i : b[j] = s[i + j]
  <2>1. i + 1 \in Int /\ Len(s) \in Int /\ \A j \in i + 1 .. Len(s) : s[j] \in S
    BY <1>1
  <2>2. /\ b \in Seq(S) /\ Len(b) = IF i + 1 <= Len(s) THEN Len(s) - (i + 1) + 1 ELSE 0
        /\ \A j \in 1 .. Len(s) - (i + 1) + 1 : b[j] = s[(i + 1) + j - 1]
    BY <2>1, SubSeqProperties
  <2> HIDE DEF b
  <2>3. Len(b) = Len(s) - i /\ Len(s) - (i + 1) + 1 = Len(s) - i
    <3>1. Len(s) \in Int /\ i \in Int /\ i <= Len(s)
      BY <1>1
    <3>2. Len(b) = IF i + 1 <= Len(s) THEN Len(s) - (i + 1) + 1 ELSE 0
      BY <2>2
    <3> QED BY <3>1, <3>2
  <2>4. \A j \in 1 .. Len(s) - i : (i + 1) + j - 1 = i + j
    BY <1>1
  <2> QED BY <2>2, <2>3, <2>4
<1> HIDE DEF a, b
<1>4. /\ t \in Seq(S) /\ Len(t) = Len(a) + Len(b)
      /\ \A j \in 1 .. Len(a) + Len(b) : t[j] = IF j <= Len(a) THEN a[j] ELSE b[j - Len(a)]
  BY <1>2, <1>3, ConcatProperties
<1> HIDE DEF t
<1>4a. Len(a) + Len(b) = Len(s) - 1 /\ Len(a) = i - 1
  BY <1>1, <1>2, <1>3
<1>5. ASSUME NEW j \in 1 .. Len(s) - 1
      PROVE  t[j] = IF j < i THEN s[j] ELSE s[j + 1]
  <2>1. t[j] = IF j <= i - 1 THEN a[j] ELSE b[j - (i - 1)]
    BY <1>4, <1>4a
  <2>2. CASE j < i
    BY <1>1, <1>2, <2>1, <2>2
  <2>3. CASE j >= i
    <3>1. j - (i - 1) \in 1 .. Len(s) - i /\ i + (j - (i - 1)) = j + 1
      BY <1>1, <2>3
    <3> QED BY <1>1, <1>3, <2>1, <2>3, <3>1
  <2> QED BY <1>1, <2>2, <2>3
<1>6. DOMAIN t = 1 .. Len(s) - 1
  BY <1>4, <1>4a, LenProperties
<1>7. ASSUME DistinctNumbers(s)
      PROVE  DistinctNumbers(t) /\ \A y \in Elems(t) : y \in Elems(s) /\ y # s[i]
  <2>1. ASSUME NEW j \in 1 .. Len(s) - 1
        PROVE  \E k \in 1 .. Len(s) : k # i /\ t[j] = s[k] /\ ((k = j /\ j < i) \/ (k = j + 1 /\ j >= i))
    <3>1. CASE j < i
      <4>1. j \in 1 .. Len(s) /\ j # i /\ t[j] = s[j]
        BY <1>1, <1>5, <3>1
      <4>2. j # i /\ t[j] = s[j] /\ ((j = j /\ j < i) \/ (j = j + 1 /\ j >= i))
        BY <3>1, <4>1
      <4> HIDE DEF Elems
      <4> QED BY <4>1, <4>2
    <3>2. CASE j >= i
      <4>1. j + 1 \in 1 .. Len(s) /\ j + 1 # i /\ ~ (j < i)
        BY <1>1, <3>2
      <4>2. t[j] = s[j + 1]
        BY <1>5, <4>1
      <4> QED BY <3>2, <4>1, <4>2
    <3> QED BY <3>1, <3>2
  <2>2. ASSUME NEW j \in 1 .. Len(s) - 1, NEW k \in 1 .. Len(s) - 1, t[j].number = t[k].number
        PROVE  j = k
    <3>1. PICK x \in 1 .. Len(s) : t[j] = s[x] /\ ((x = j /\ j < i) \/ (x = j + 1 /\ j >= i))
      BY <2>1
    <3>2. PICK z \in 1 .. Len(s) : t[k] = s[z] /\ ((z = k /\ k < i) \/ (z = k + 1 /\ k >= i))
      BY <2>1
    <3>3. x = z
      BY <1>1, <1>7, <2>2, <3>1, <3>2 DEF DistinctNumbers
    <3> QED BY <1>1, <3>1, <3>2, <3>3
  <2>3. ASSUME NEW j \in 1 .. Len(s) - 1
        PROVE  t[j] \in Elems(s) /\ t[j] # s[i]
    <3>1. PICK k \in 1 .. Len(s) : k # i /\ t[j] = s[k]
      BY <2>1
    <3> QED BY <1>1, <1>7, <3>1 DEF DistinctNumbers, Elems
  <2> QED BY <1>6, <2>2, <2>3 DEF DistinctNumbers, Elems
<1>8. ASSUME NEW y \in Elems(s), y # s[i]
      PROVE  y \in Elems(t)
  <2>1. PICK j \in 1 .. Len(s) : y = s[j]
    BY <1>1 DEF Elems
  <2>2. CASE j < i
    BY <1>1, <1>5, <1>6, <2>1, <2>2 DEF Elems
  <2>3. CASE j > i
    <3>1. j - 1 \in 1 .. Len(s) - 1 /\ t[j - 1] = s[j]
      BY <1>1, <1>5, <2>1, <2>3
    <3> QED BY <1>6, <2>1, <3>1 DEF Elems
  <2> QED BY <1>1, <1>8, <2>1, <2>2, <2>3
<1>9. /\ s[i] \in S /\ s[i] \in Elems(s) /\ t \in Seq(S)
      /\ DistinctNumbers(s) => Elems(t) = Elems(s) \ {s[i]} /\ DistinctNumbers(t)
  BY <1>1, <1>4, <1>7, <1>8 DEF Elems
<1> QED BY <1>9 DEF t, a, b

(* Tokens.                                                                   *)

LEMMA AtFacts ==
  ASSUME NEW at, NEW S
  PROVE  /\ \A t \in Placed(at, S) : t.at = at
         /\ Placed(at, {}) = {}
         /\ \A x : Placed(at, S \cup {x}) = Placed(at, S) \cup {Token(at, x)}
         /\ \A x : Placed(at, {x}) = {Token(at, x)}
         /\ \A x \in S : (\A y \in S \ {x} : y.number # x.number)
                         => Placed(at, S \ {x}) = Placed(at, S) \ {Token(at, x)}
         /\ \A x \in S : Token(at, x) \in Placed(at, S)
         /\ \A t \in Placed(at, S) : \E x \in S : t = Token(at, x)
BY DEF Placed, Token

LEMMA MoveToken ==
  ASSUME TokenInv, NEW t \in Tokens, t.at # "answered", NEW u,
         u.number = t.number, u.id = t.id,
         Tokens' = (Tokens \ {t}) \cup {u}, frames' = frames
  PROVE  TokenInv'
BY DEF TokenInv

LEMMA AddToken ==
  ASSUME TokenInv, frames \in Nat, NEW u, u.number = frames + 1,
         u.id = NoId \/ \A t \in Tokens : t.at # "answered" => t.id # u.id,
         Tokens' = Tokens \cup {u}, frames' = frames + 1
  PROVE  TokenInv'
<1>1. \A t \in Tokens : t.number # u.number
  BY DEF TokenInv
<1>2. \A k \in 1 .. frames + 1 : k \in 1 .. frames \/ k = frames + 1
  OBVIOUS
<1> HIDE DEF Tokens
<1>3. \A t \in Tokens' : t.number \in 1 .. frames'
  BY DEF TokenInv
<1>4. \A k \in 1 .. frames' : \E t \in Tokens' : t.number = k
  BY <1>2 DEF TokenInv
<1>5. \A s, t \in Tokens' : s.number = t.number => s = t
  BY <1>1 DEF TokenInv
<1>6. \A s, t \in Tokens' :
        s.at # "answered" /\ t.at # "answered" /\ s.id = t.id /\ s.id # NoId => s = t
  BY DEF TokenInv
<1> QED BY <1>3, <1>4, <1>5, <1>6 DEF TokenInv

\* Which part a token belongs to.
LEMMA TokenParts ==
  /\ \A x \in Elems(queued) : Token("queued", x) \in Tokens
  /\ \A x \in Elems(controls) : Token("control", x) \in Tokens
  /\ \A x \in ready : Token("ready", x) \in Tokens
  /\ \A x \in writing : Token("writing", x) \in Tokens
  /\ \A x \in Running : Token("calling", x) \in Tokens
  /\ \A x \in Elems(answers) : Token("answered", x) \in Tokens
  /\ \A t \in Tokens :
       \/ t.at = "queued" /\ \E x \in Elems(queued) : t = Token("queued", x)
       \/ t.at = "control" /\ \E x \in Elems(controls) : t = Token("control", x)
       \/ t.at = "ready" /\ \E x \in ready : t = Token("ready", x)
       \/ t.at = "writing" /\ \E x \in writing : t = Token("writing", x)
       \/ t.at = "calling" /\ \E x \in Running : t = Token("calling", x)
       \/ t.at = "answered" /\ \E x \in Elems(answers) : t = Token("answered", x)
BY AtFacts DEF Tokens

LEMMA TokenFields ==
  \A at, x : Token(at, x).at = at /\ Token(at, x).number = x.number /\ Token(at, x).id = x.id
BY DEF Token

\* Two frames that are in different places have different numbers.
LEMMA Apart ==
  ASSUME TokenInv, NEW a, NEW b, NEW x, NEW y, a # b,
         Token(a, x) \in Tokens, Token(b, y) \in Tokens
  PROVE  x.number # y.number
<1>1. /\ Token(a, x).number = x.number /\ Token(b, y).number = y.number
      /\ Token(a, x).at = a /\ Token(b, y).at = b
  BY TokenFields
<1>2. ASSUME x.number = y.number
      PROVE  FALSE
  <2>1. Token(a, x) = Token(b, y)
    <3> HIDE DEF Tokens
    <3> QED BY <1>1, <1>2 DEF TokenInv
  <2> QED BY <1>1, <2>1
<1> QED BY <1>2

\* A frame that is still to be answered is not numbered like the next one.
LEMMA NotNext ==
  ASSUME TokenInv, frames \in Nat, NEW a, NEW x, Token(a, x) \in Tokens
  PROVE  x.number \in 1 .. frames /\ x.number # Number
<1>1. Token(a, x).number \in 1 .. frames
  <2> HIDE DEF Tokens
  <2> QED BY DEF TokenInv
<1> QED BY <1>1, TokenFields DEF Number

(* The call that runs.                                                       *)

LEMMA CallReturns ==
  ASSUME LiveInv, phase = "exchange", calling, NEW body \in Bodies, Completes(body),
         UNCHANGED <<phase, frames, queued, active, finished, controls, writing, answers>>
  PROVE  LiveInv'
<1>1. PICK r \in Req : active = {r} /\ ready = {} /\ ~ finished
  BY DEF LiveInv, ExchangeInv
<1> DEFINE a == Answer(r.number, r.id, body)
<1>2. calling' = FALSE /\ ready' = {a}
  BY <1>1 DEF Completes
<1>3. a \in Ans /\ a.number = r.number /\ a.id = r.id
  BY <1>1 DEF Answer, Ans, Req
<1>4. Running = {r} /\ Running' = {}
  BY <1>1, <1>2 DEF Running
<1>5. /\ Placed("calling", Running) = {Token("calling", r)} /\ Placed("calling", Running') = {}
      /\ Placed("ready", ready) = {} /\ Placed("ready", ready') = {Token("ready", a)}
  BY <1>1, <1>2, <1>4, AtFacts
<1>6. Token("calling", r) \in Tokens
  BY <1>4, TokenParts
<1>7. Tokens' = (Tokens \ {Token("calling", r)}) \cup {Token("ready", a)}
  <2>1. /\ Token("calling", r) \notin Placed("queued", Elems(queued))
        /\ Token("calling", r) \notin Placed("control", Elems(controls))
        /\ Token("calling", r) \notin Placed("writing", writing)
        /\ Token("calling", r) \notin Placed("answered", Elems(answers))
    BY AtFacts, TokenFields
  <2>2. /\ Placed("queued", Elems(queued))' = Placed("queued", Elems(queued))
        /\ Placed("control", Elems(controls))' = Placed("control", Elems(controls))
        /\ Placed("writing", writing)' = Placed("writing", writing)
        /\ Placed("answered", Elems(answers))' = Placed("answered", Elems(answers))
        /\ Placed("ready", ready)' = Placed("ready", ready')
        /\ Placed("calling", Running)' = Placed("calling", Running')
    BY DEF Placed, Elems
  <2> QED BY <1>5, <2>1, <2>2 DEF Tokens
<1>8. TokenInv'
  <2>1. Token("ready", a).number = Token("calling", r).number
        /\ Token("ready", a).id = Token("calling", r).id /\ Token("calling", r).at # "answered"
    BY <1>3, TokenFields
  <2> HIDE DEF Tokens, a
  <2> QED BY <1>6, <1>7, <2>1, MoveToken DEF LiveInv
<1>9. McpTypeInv' /\ DistinctInv'
  BY <1>1, <1>2, <1>3 DEF LiveInv, McpTypeInv, DistinctInv, DistinctNumbers
<1>10. ExchangeInv'
  <2> HIDE DEF a
  <2> QED BY <1>1, <1>2, <1>3 DEF LiveInv, ExchangeInv
<1> QED BY <1>8, <1>9, <1>10 DEF LiveInv

(* Writing.                                                                  *)

LEMMA ControlIsWritten ==
  ASSUME LiveInv, phase = "exchange", writing = {}, controls # <<>>,
         writing' = {Head(controls)}, controls' = Tail(controls),
         UNCHANGED <<phase, frames, queued, active, calling, ready, finished, answers>>
  PROVE  LiveInv'
<1> DEFINE a == Head(controls)
<1>1. /\ a \in Ans /\ a \in Elems(controls) /\ Tail(controls) \in Seq(Ans)
      /\ Elems(Tail(controls)) = Elems(controls) \ {a} /\ DistinctNumbers(Tail(controls))
      /\ \A y \in Elems(controls) \ {a} : y.number # a.number
  BY TailElem DEF LiveInv, McpTypeInv, DistinctInv
<1>2. Placed("control", Elems(Tail(controls))) = Placed("control", Elems(controls)) \ {Token("control", a)}
  BY <1>1, AtFacts
<1>3. Placed("writing", writing) = {} /\ Placed("writing", writing') = {Token("writing", a)}
  BY AtFacts
<1>4. Token("control", a) \in Tokens
  BY <1>1, TokenParts
<1>5. Tokens' = (Tokens \ {Token("control", a)}) \cup {Token("writing", a)}
  <2>1. /\ Token("control", a) \notin Placed("queued", Elems(queued))
        /\ Token("control", a) \notin Placed("ready", ready)
        /\ Token("control", a) \notin Placed("calling", Running)
        /\ Token("control", a) \notin Placed("answered", Elems(answers))
    BY AtFacts, TokenFields
  <2>2. /\ Placed("queued", Elems(queued))' = Placed("queued", Elems(queued))
        /\ Placed("control", Elems(controls))' = Placed("control", Elems(Tail(controls)))
        /\ Placed("ready", ready)' = Placed("ready", ready)
        /\ Placed("writing", writing)' = Placed("writing", writing')
        /\ Placed("calling", Running)' = Placed("calling", Running)
        /\ Placed("answered", Elems(answers))' = Placed("answered", Elems(answers))
    BY DEF Placed, Elems, Running
  <2> HIDE DEF a
  <2> QED BY <1>2, <1>3, <2>1, <2>2 DEF Tokens
<1>6. TokenInv'
  <2>1. Token("writing", a).number = Token("control", a).number
        /\ Token("writing", a).id = Token("control", a).id /\ Token("control", a).at # "answered"
    BY TokenFields
  <2> HIDE DEF Tokens, a
  <2> QED BY <1>4, <1>5, <2>1, MoveToken DEF LiveInv
<1>7. McpTypeInv' /\ DistinctInv'
  BY <1>1 DEF LiveInv, McpTypeInv, DistinctInv, DistinctNumbers
<1>8. ExchangeInv'
  <2> HIDE DEF a
  <2>1. writing' = {a}
    BY DEF a
  <2> QED BY <2>1 DEF LiveInv, ExchangeInv
<1> QED BY <1>6, <1>7, <1>8 DEF LiveInv

LEMMA ResponseIsWritten ==
  ASSUME LiveInv, phase = "exchange", writing = {}, ready # {},
         writing' = ready, ready' = {},
         UNCHANGED <<phase, frames, queued, active, calling, controls, finished, answers>>
  PROVE  LiveInv'
<1>1. PICK r \in Req : active = {r} /\ ~ calling /\ ~ finished
                       /\ \E b \in Ans : ready = {b} /\ b.number = r.number /\ b.id = r.id
  BY DEF LiveInv, ExchangeInv
<1>2. PICK a \in Ans : ready = {a} /\ a.number = r.number /\ a.id = r.id
  BY <1>1
<1>3. /\ Placed("writing", writing) = {} /\ Placed("writing", writing') = {Token("writing", a)}
      /\ Placed("ready", ready) = {Token("ready", a)} /\ Placed("ready", ready') = {}
  BY <1>2, AtFacts
<1>4. Token("ready", a) \in Tokens
  BY <1>2, TokenParts
<1>5. Tokens' = (Tokens \ {Token("ready", a)}) \cup {Token("writing", a)}
  <2>1. /\ Token("ready", a) \notin Placed("queued", Elems(queued))
        /\ Token("ready", a) \notin Placed("control", Elems(controls))
        /\ Token("ready", a) \notin Placed("calling", Running)
        /\ Token("ready", a) \notin Placed("answered", Elems(answers))
    BY AtFacts, TokenFields
  <2>2. /\ Placed("queued", Elems(queued))' = Placed("queued", Elems(queued))
        /\ Placed("control", Elems(controls))' = Placed("control", Elems(controls))
        /\ Placed("ready", ready)' = Placed("ready", ready')
        /\ Placed("writing", writing)' = Placed("writing", writing')
        /\ Placed("calling", Running)' = Placed("calling", Running)
        /\ Placed("answered", Elems(answers))' = Placed("answered", Elems(answers))
    BY DEF Placed, Elems, Running
  <2> QED BY <1>3, <2>1, <2>2 DEF Tokens
<1>6. TokenInv'
  <2>1. Token("writing", a).number = Token("ready", a).number
        /\ Token("writing", a).id = Token("ready", a).id /\ Token("ready", a).at # "answered"
    BY TokenFields
  <2> HIDE DEF Tokens
  <2> QED BY <1>4, <1>5, <2>1, MoveToken DEF LiveInv
<1>7. McpTypeInv' /\ DistinctInv'
  BY DEF LiveInv, McpTypeInv, DistinctInv, DistinctNumbers
<1>8. ExchangeInv'
  BY <1>1, <1>2 DEF LiveInv, ExchangeInv
<1> QED BY <1>6, <1>7, <1>8 DEF LiveInv

LEMMA FinishWritingKeeps ==
  ASSUME LiveInv, FinishWriting
  PROVE  LiveInv'
<1>1. PICK a \in writing, r \in active :
        answers' = Append(answers, a) /\ finished' = (finished \/ a.number = r.number)
  BY DEF FinishWriting
<1>2. writing = {a} /\ a \in Ans /\ active = {r} /\ writing' = {}
  BY <1>1 DEF LiveInv, ExchangeInv, McpTypeInv, FinishWriting
<1>3. Token("writing", a) \in Tokens
  BY <1>1, TokenParts
<1>4. \A y \in Elems(answers) : y.number # a.number
  BY <1>3, TokenParts, Apart DEF LiveInv
<1>5. /\ Append(answers, a) \in Seq(Ans) /\ Elems(Append(answers, a)) = Elems(answers) \cup {a}
      /\ DistinctNumbers(Append(answers, a))
  BY <1>2, <1>4, AppendElem DEF LiveInv, McpTypeInv, DistinctInv
<1>6. /\ Placed("writing", writing) = {Token("writing", a)} /\ Placed("writing", writing') = {}
      /\ Placed("answered", Elems(Append(answers, a)))
           = Placed("answered", Elems(answers)) \cup {Token("answered", a)}
  BY <1>2, <1>5, AtFacts
<1>7. Tokens' = (Tokens \ {Token("writing", a)}) \cup {Token("answered", a)}
  <2>1. /\ Token("writing", a) \notin Placed("queued", Elems(queued))
        /\ Token("writing", a) \notin Placed("control", Elems(controls))
        /\ Token("writing", a) \notin Placed("ready", ready)
        /\ Token("writing", a) \notin Placed("calling", Running)
        /\ Token("writing", a) \notin Placed("answered", Elems(answers))
    BY AtFacts, TokenFields
  <2>2. /\ Placed("queued", Elems(queued))' = Placed("queued", Elems(queued))
        /\ Placed("control", Elems(controls))' = Placed("control", Elems(controls))
        /\ Placed("ready", ready)' = Placed("ready", ready)
        /\ Placed("writing", writing)' = Placed("writing", writing')
        /\ Placed("calling", Running)' = Placed("calling", Running)
        /\ Placed("answered", Elems(answers))' = Placed("answered", Elems(Append(answers, a)))
    BY <1>1 DEF Placed, Elems, Running, FinishWriting
  <2> QED BY <1>6, <2>1, <2>2 DEF Tokens
<1>8. TokenInv'
  <2>1. /\ Token("answered", a).number = Token("writing", a).number
        /\ Token("answered", a).id = Token("writing", a).id /\ Token("writing", a).at # "answered"
        /\ frames' = frames
    BY TokenFields DEF FinishWriting
  <2> HIDE DEF Tokens
  <2> QED BY <1>3, <1>7, <2>1, MoveToken DEF LiveInv
<1>9. McpTypeInv' /\ DistinctInv'
  BY <1>1, <1>2, <1>5 DEF LiveInv, McpTypeInv, DistinctInv, DistinctNumbers, FinishWriting
<1>10. ExchangeInv'
  <2>1. r \in Req /\ phase = "exchange" /\ phase' = "exchange"
    BY <1>1 DEF FinishWriting, LiveInv, McpTypeInv
  <2>2. UNCHANGED <<active, calling, ready>>
    BY DEF FinishWriting
  <2>3. CASE calling /\ ready = {} /\ ~ finished
    <3>1. Token("calling", r) \in Tokens
      BY <1>2, <2>3, TokenParts DEF Running
    <3>2. a.number # r.number
      BY <1>3, <3>1, Apart DEF LiveInv
    <3> QED BY <1>1, <1>2, <2>1, <2>2, <2>3, <3>2 DEF ExchangeInv
  <2>4. ASSUME ~ calling, ~ finished, NEW b \in Ans, ready = {b}, b.number = r.number, b.id = r.id
        PROVE  ExchangeInv'
    <3>1. Token("ready", b) \in Tokens
      BY <2>4, TokenParts
    <3>2. a.number # r.number
      BY <1>3, <2>4, <3>1, Apart DEF LiveInv
    <3> QED BY <1>1, <1>2, <2>1, <2>2, <2>4, <3>2 DEF ExchangeInv
  <2>5. CASE ~ calling /\ ~ finished /\ ready = {} /\ a.number = r.number
    BY <1>1, <1>2, <2>1, <2>2, <2>5 DEF ExchangeInv
  <2>6. CASE ~ calling /\ finished /\ ready = {}
    BY <1>1, <1>2, <2>1, <2>2, <2>6 DEF ExchangeInv
  <2> QED BY <1>2, <2>1, <2>3, <2>4, <2>5, <2>6 DEF LiveInv, ExchangeInv
<1> QED BY <1>8, <1>9, <1>10 DEF LiveInv

\* Only the place of the frames counts, not the phase they are in.
LEMMA SameTokens ==
  ASSUME LiveInv, UNCHANGED <<frames, queued, ready, controls, writing, answers>>,
         Running' = Running
  PROVE  TokenInv' /\ DistinctInv'
<1>1. Tokens' = Tokens
  <2>1. /\ Placed("queued", Elems(queued))' = Placed("queued", Elems(queued))
        /\ Placed("control", Elems(controls))' = Placed("control", Elems(controls))
        /\ Placed("ready", ready)' = Placed("ready", ready)
        /\ Placed("writing", writing)' = Placed("writing", writing)
        /\ Placed("calling", Running)' = Placed("calling", Running)
        /\ Placed("answered", Elems(answers))' = Placed("answered", Elems(answers))
    BY DEF Placed, Elems
  <2> QED BY <2>1 DEF Tokens
<1>2. TokenInv'
  <2> HIDE DEF Tokens
  <2> QED BY <1>1 DEF LiveInv, TokenInv
<1>3. DistinctInv'
  BY DEF LiveInv, DistinctInv, DistinctNumbers
<1> QED BY <1>2, <1>3

LEMMA ReturnKeeps ==
  ASSUME LiveInv, ReturnToIdle
  PROVE  LiveInv'
<1>1. ready = {} /\ controls = <<>> /\ writing = {} /\ ~ calling
  BY DEF ReturnToIdle, NextToWrite, LiveInv, ExchangeInv
<1>2. Running' = Running
  BY <1>1 DEF Running, ReturnToIdle
<1>3. TokenInv' /\ DistinctInv'
  BY <1>2, SameTokens DEF ReturnToIdle
<1>4. McpTypeInv' /\ ExchangeInv'
  BY <1>1 DEF LiveInv, McpTypeInv, ExchangeInv, ReturnToIdle
<1> QED BY <1>3, <1>4 DEF LiveInv

LEMMA WritesKeep ==
  ASSUME LiveInv, Writes
  PROVE  LiveInv' /\ phase # "closed" /\ phase' # "closed"
<1>1. CASE StartWriting
  <2>1. CASE controls # <<>>
    BY <1>1, <2>1, ControlIsWritten DEF StartWriting, NextToWrite
  <2>2. CASE controls = <<>>
    BY <1>1, <2>2, ResponseIsWritten DEF StartWriting, NextToWrite
  <2> QED BY <1>1, <2>1, <2>2 DEF StartWriting
<1>2. CASE FinishWriting
  BY <1>2, FinishWritingKeeps DEF FinishWriting
<1>3. CASE ReturnToIdle
  BY <1>3, ReturnKeeps DEF ReturnToIdle
<1> QED BY <1>1, <1>2, <1>3 DEF Writes

(* Reading.                                                                  *)

\* What Taken looks at is every frame that is still to be answered.
LEMMA NotTaken ==
  ASSUME LiveInv, phase = "exchange", NEW id, ~ Taken(id)
  PROVE  \A t \in Tokens : t.at # "answered" => t.id # id
<1> SUFFICES ASSUME NEW t \in Tokens, t.at # "answered"
             PROVE  t.id # id
  OBVIOUS
<1>1. CASE \E x \in Elems(queued) : t = Token("queued", x)
  BY <1>1, TokenFields DEF Elems, Taken
<1>2. CASE \E x \in Elems(controls) : t = Token("control", x)
  BY <1>2, TokenFields DEF Elems, Taken
<1>3. CASE \E x \in ready : t = Token("ready", x)
  BY <1>3, TokenFields DEF Taken, LiveInv, ExchangeInv
<1>4. CASE \E x \in writing : t = Token("writing", x)
  BY <1>4, TokenFields DEF Taken
<1>5. CASE \E x \in Running : t = Token("calling", x)
  BY <1>5, TokenFields DEF Taken, LiveInv, ExchangeInv, Running
<1> QED BY <1>1, <1>2, <1>3, <1>4, <1>5, TokenParts

LEMMA NewControl ==
  ASSUME LiveInv, phase = "exchange", NEW id \in McpIds, NEW body \in Bodies,
         id = NoId \/ ~ Taken(id),
         frames' = Number, controls' = Append(controls, Answer(Number, id, body)),
         UNCHANGED <<phase, queued, active, calling, ready, finished, writing, answers>>
  PROVE  LiveInv'
<1> DEFINE a == Answer(Number, id, body)
<1>1. a \in Ans /\ a.number = Number /\ a.id = id /\ frames \in Nat /\ Number \in Nat
  BY DEF Answer, Ans, Number, LiveInv, McpTypeInv
<1> HIDE DEF a
<1>2. \A y \in Elems(controls) : y.number # a.number
  BY <1>1, TokenParts, NotNext DEF LiveInv
<1>3. controls' = Append(controls, a)
  BY DEF a
<1>4. /\ controls' \in Seq(Ans) /\ Elems(controls)' = Elems(controls) \cup {a}
      /\ DistinctNumbers(controls)'
  <2>1. /\ Append(controls, a) \in Seq(Ans) /\ Elems(Append(controls, a)) = Elems(controls) \cup {a}
        /\ DistinctNumbers(Append(controls, a))
    BY <1>1, <1>2, AppendElem DEF LiveInv, McpTypeInv, DistinctInv
  <2> QED BY <1>3, <2>1 DEF Elems, DistinctNumbers
<1>5. Tokens' = Tokens \cup {Token("control", a)}
  <2>1. /\ Placed("queued", Elems(queued))' = Placed("queued", Elems(queued))
        /\ Placed("control", Elems(controls))' = Placed("control", Elems(controls)')
        /\ Placed("ready", ready)' = Placed("ready", ready)
        /\ Placed("writing", writing)' = Placed("writing", writing)
        /\ Placed("calling", Running)' = Placed("calling", Running)
        /\ Placed("answered", Elems(answers))' = Placed("answered", Elems(answers))
    BY DEF Placed, Elems, Running
  <2>2. Placed("control", Elems(controls)') = Placed("control", Elems(controls)) \cup {Token("control", a)}
    BY <1>4, AtFacts
  <2> QED BY <2>1, <2>2 DEF Tokens
<1>6. TokenInv'
  <2>1. id = NoId \/ \A t \in Tokens : t.at # "answered" => t.id # id
    BY NotTaken
  <2>2. Token("control", a).number = frames + 1 /\ Token("control", a).id = id
    BY <1>1, TokenFields DEF Number
  <2> HIDE DEF Tokens
  <2> QED BY <1>1, <1>5, <2>1, <2>2, AddToken DEF LiveInv, Number
<1>7. McpTypeInv' /\ DistinctInv'
  BY <1>1, <1>4 DEF LiveInv, McpTypeInv, DistinctInv, DistinctNumbers
<1>8. ExchangeInv'
  BY DEF LiveInv, ExchangeInv
<1> QED BY <1>6, <1>7, <1>8 DEF LiveInv

LEMMA NewQueued ==
  ASSUME LiveInv, phase = "exchange", NEW id \in RequestId, NEW m \in Method, ~ Taken(id),
         frames' = Number, queued' = Append(queued, [number |-> Number, id |-> id, method |-> m]),
         UNCHANGED <<phase, active, calling, ready, finished, controls, writing, answers>>
  PROVE  LiveInv'
<1> DEFINE r == [number |-> Number, id |-> id, method |-> m]
<1>1. r \in Req /\ r.number = Number /\ r.id = id /\ frames \in Nat /\ Number \in Nat
  BY DEF Req, McpIds, Number, LiveInv, McpTypeInv
<1>2. queued' = Append(queued, r)
  OBVIOUS
<1> HIDE DEF r
<1>3. \A y \in Elems(queued) : y.number # r.number
  BY <1>1, TokenParts, NotNext DEF LiveInv
<1>4. /\ queued' \in Seq(Req) /\ Elems(queued)' = Elems(queued) \cup {r}
      /\ DistinctNumbers(queued)'
  <2>1. /\ Append(queued, r) \in Seq(Req) /\ Elems(Append(queued, r)) = Elems(queued) \cup {r}
        /\ DistinctNumbers(Append(queued, r))
    <3>1. queued \in Seq(Req) /\ DistinctNumbers(queued)
      BY DEF LiveInv, McpTypeInv, DistinctInv
    <3> QED BY <1>1, <1>3, <3>1, AppendElem
  <2> QED BY <1>2, <2>1 DEF Elems, DistinctNumbers
<1>5. Tokens' = Tokens \cup {Token("queued", r)}
  <2>1. /\ Placed("queued", Elems(queued))' = Placed("queued", Elems(queued)')
        /\ Placed("control", Elems(controls))' = Placed("control", Elems(controls))
        /\ Placed("ready", ready)' = Placed("ready", ready)
        /\ Placed("writing", writing)' = Placed("writing", writing)
        /\ Placed("calling", Running)' = Placed("calling", Running)
        /\ Placed("answered", Elems(answers))' = Placed("answered", Elems(answers))
    BY DEF Placed, Elems, Running
  <2>2. Placed("queued", Elems(queued)') = Placed("queued", Elems(queued)) \cup {Token("queued", r)}
    BY <1>4, AtFacts
  <2> QED BY <2>1, <2>2 DEF Tokens
<1>6. TokenInv'
  <2>1. \A t \in Tokens : t.at # "answered" => t.id # id
    BY NotTaken
  <2>2. Token("queued", r).number = frames + 1 /\ Token("queued", r).id = id
    BY <1>1, TokenFields DEF Number
  <2> HIDE DEF Tokens
  <2> QED BY <1>1, <1>5, <2>1, <2>2, AddToken DEF LiveInv, Number
<1>7. McpTypeInv' /\ DistinctInv'
  BY <1>1, <1>4 DEF LiveInv, McpTypeInv, DistinctInv, DistinctNumbers
<1>8. ExchangeInv'
  BY DEF LiveInv, ExchangeInv
<1> QED BY <1>6, <1>7, <1>8 DEF LiveInv

\* A request leaves the queue, and its response joins the controls.
LEMMA QueuedIsAnswered ==
  ASSUME LiveInv, phase = "exchange", NEW r \in Elems(queued), NEW q \in Seq(Req), NEW body \in Bodies,
         Elems(q) = Elems(queued) \ {r}, DistinctNumbers(q), queued' = q,
         controls' = Append(controls, Answer(r.number, r.id, body)),
         UNCHANGED <<phase, frames, active, calling, ready, finished, writing, answers>>
  PROVE  LiveInv'
<1> DEFINE a == Answer(r.number, r.id, body)
<1>1. r \in Req /\ \A y \in Elems(queued) \ {r} : y.number # r.number
  <2>1. queued \in Seq(Req) /\ DistinctNumbers(queued)
    BY DEF LiveInv, McpTypeInv, DistinctInv
  <2>2. \A i \in DOMAIN queued : queued[i] \in Req
    BY <2>1, LenProperties, ElementOfSeq
  <2> QED BY <2>1, <2>2 DEF Elems, DistinctNumbers
<1>2. a \in Ans /\ a.number = r.number /\ a.id = r.id
  BY <1>1 DEF Answer, Ans, Req
<1>3. controls' = Append(controls, a)
  OBVIOUS
<1> HIDE DEF a
<1>4. Token("queued", r) \in Tokens
  BY TokenParts
<1>5. \A y \in Elems(controls) : y.number # a.number
  BY <1>2, <1>4, TokenParts, Apart DEF LiveInv
<1>6. /\ controls' \in Seq(Ans) /\ Elems(controls)' = Elems(controls) \cup {a}
      /\ DistinctNumbers(controls)'
  <2>1. /\ Append(controls, a) \in Seq(Ans) /\ Elems(Append(controls, a)) = Elems(controls) \cup {a}
        /\ DistinctNumbers(Append(controls, a))
    BY <1>2, <1>5, AppendElem DEF LiveInv, McpTypeInv, DistinctInv
  <2> QED BY <1>3, <2>1 DEF Elems, DistinctNumbers
<1>7. Elems(queued)' = Elems(queued) \ {r}
  BY DEF Elems
<1>8. Tokens' = (Tokens \ {Token("queued", r)}) \cup {Token("control", a)}
  <2>1. /\ Token("queued", r) \notin Placed("control", Elems(controls))
        /\ Token("queued", r) \notin Placed("ready", ready)
        /\ Token("queued", r) \notin Placed("writing", writing)
        /\ Token("queued", r) \notin Placed("calling", Running)
        /\ Token("queued", r) \notin Placed("answered", Elems(answers))
    BY AtFacts, TokenFields
  <2>2. /\ Placed("queued", Elems(queued))' = Placed("queued", Elems(queued)')
        /\ Placed("control", Elems(controls))' = Placed("control", Elems(controls)')
        /\ Placed("ready", ready)' = Placed("ready", ready)
        /\ Placed("writing", writing)' = Placed("writing", writing)
        /\ Placed("calling", Running)' = Placed("calling", Running)
        /\ Placed("answered", Elems(answers))' = Placed("answered", Elems(answers))
    BY DEF Placed, Elems, Running
  <2>3. Placed("control", Elems(controls)') = Placed("control", Elems(controls)) \cup {Token("control", a)}
    BY <1>6, AtFacts
  <2>4. Placed("queued", Elems(queued)') = Placed("queued", Elems(queued)) \ {Token("queued", r)}
    <3>1. Placed("queued", Elems(queued) \ {r}) = Placed("queued", Elems(queued)) \ {Token("queued", r)}
      BY <1>1, AtFacts
    <3> QED BY <1>7, <3>1
  <2> QED BY <2>1, <2>2, <2>3, <2>4 DEF Tokens
<1>9. TokenInv'
  <2>1. /\ Token("control", a).number = Token("queued", r).number
        /\ Token("control", a).id = Token("queued", r).id /\ Token("queued", r).at # "answered"
    BY <1>2, TokenFields
  <2> HIDE DEF Tokens
  <2> QED BY <1>4, <1>8, <2>1, MoveToken DEF LiveInv
<1>10. McpTypeInv' /\ DistinctInv'
  BY <1>6 DEF LiveInv, McpTypeInv, DistinctInv, DistinctNumbers
<1>11. ExchangeInv'
  BY DEF LiveInv, ExchangeInv
<1> QED BY <1>9, <1>10, <1>11 DEF LiveInv

(* The next request.                                                         *)

\* Nothing but queued requests waits between two exchanges.
LEMMA IdleTokens ==
  ASSUME LiveInv, phase = "idle"
  PROVE  /\ active = {} /\ ~ calling /\ ready = {} /\ writing = {} /\ controls = <<>>
         /\ Running = {} /\ Elems(controls) = {}
         /\ \A t \in Tokens : t.at = "queued" \/ t.at = "answered"
<1>1. active = {} /\ ~ calling /\ ready = {} /\ writing = {} /\ controls = <<>>
  BY DEF LiveInv, ExchangeInv
<1>2. Elems(controls) = {} /\ Running = {}
  BY <1>1 DEF Elems, Running
<1> QED BY <1>1, <1>2, TokenParts

LEMMA DispatchQueuedKeeps ==
  ASSUME LiveInv, DispatchQueued
  PROVE  LiveInv'
<1> DEFINE r == Head(queued)
           a == Answer(r.number, r.id, "expired")
<1>1. /\ phase = "idle" /\ phase' = "exchange" /\ queued # <<>> /\ queued' = Tail(queued)
      /\ active' = {r} /\ finished' = FALSE
      /\ UNCHANGED <<frames, controls, writing, answers>>
      /\ \/ calling' = TRUE /\ ready' = {}
         \/ calling' = FALSE /\ ready' = {a}
  BY DEF DispatchQueued, Dispatch
<1>2. /\ r \in Req /\ r \in Elems(queued) /\ Tail(queued) \in Seq(Req)
      /\ Elems(Tail(queued)) = Elems(queued) \ {r} /\ DistinctNumbers(Tail(queued))
      /\ \A y \in Elems(queued) \ {r} : y.number # r.number
  BY <1>1, TailElem DEF LiveInv, McpTypeInv, DistinctInv
<1>3. a \in Ans /\ a.number = r.number /\ a.id = r.id
  BY <1>2 DEF Answer, Ans, Req, Bodies
<1>4. /\ active = {} /\ ~ calling /\ ready = {} /\ writing = {} /\ controls = <<>>
      /\ Running = {}
  BY <1>1, IdleTokens
<1>5. Token("queued", r) \in Tokens
  BY <1>2, TokenParts
<1> HIDE DEF r, a
<1>6. /\ Placed("queued", Elems(queued))' = Placed("queued", Elems(queued)) \ {Token("queued", r)}
      /\ Placed("control", Elems(controls))' = Placed("control", Elems(controls))
      /\ Placed("writing", writing)' = Placed("writing", writing)
      /\ Placed("answered", Elems(answers))' = Placed("answered", Elems(answers))
      /\ Placed("ready", ready) = {} /\ Placed("calling", Running) = {}
      /\ Placed("ready", ready)' = Placed("ready", ready') /\ Placed("calling", Running)' = Placed("calling", Running')
  <2>1. Placed("queued", Elems(queued) \ {r}) = Placed("queued", Elems(queued)) \ {Token("queued", r)}
    BY <1>2, AtFacts
  <2>2. Elems(queued)' = Elems(queued) \ {r}
    BY <1>1, <1>2 DEF Elems
  <2>3. Placed("queued", Elems(queued))' = Placed("queued", Elems(queued)')
    BY DEF Placed
  <2>4. /\ Placed("control", Elems(controls))' = Placed("control", Elems(controls))
        /\ Placed("writing", writing)' = Placed("writing", writing)
        /\ Placed("answered", Elems(answers))' = Placed("answered", Elems(answers))
        /\ Placed("ready", ready)' = Placed("ready", ready') /\ Placed("calling", Running)' = Placed("calling", Running')
    BY <1>1 DEF Placed, Elems
  <2>5. Placed("ready", ready) = {} /\ Placed("calling", Running) = {}
    BY <1>4, AtFacts
  <2> QED BY <2>1, <2>2, <2>3, <2>4, <2>5
<1>7. /\ Token("queued", r) \notin Placed("control", Elems(controls))
      /\ Token("queued", r) \notin Placed("writing", writing)
      /\ Token("queued", r) \notin Placed("answered", Elems(answers))
  BY AtFacts, TokenFields
<1>8. ASSUME NEW u, u.number = r.number, u.id = r.id,
             Tokens' = (Tokens \ {Token("queued", r)}) \cup {u}
      PROVE  TokenInv'
  <2>1. /\ Token("queued", r).number = r.number /\ Token("queued", r).id = r.id
        /\ Token("queued", r).at # "answered" /\ frames' = frames
    BY <1>1, TokenFields
  <2> HIDE DEF Tokens
  <2> QED BY <1>5, <1>8, <2>1, MoveToken DEF LiveInv
<1>9. TokenInv'
  <2>1. CASE calling' = TRUE /\ ready' = {}
    <3>1. Running' = {r}
      BY <1>1, <2>1 DEF Running
    <3>2. Placed("calling", Running') = {Token("calling", r)} /\ Placed("ready", ready') = {}
      BY <2>1, <3>1, AtFacts
    <3>3. Tokens' = (Tokens \ {Token("queued", r)}) \cup {Token("calling", r)}
      BY <1>6, <1>7, <3>2 DEF Tokens
    <3> HIDE DEF Tokens
    <3> QED BY <1>8, <3>3, TokenFields
  <2>2. CASE calling' = FALSE /\ ready' = {a}
    <3>1. Running' = {}
      BY <2>2 DEF Running
    <3>2. Placed("calling", Running') = {} /\ Placed("ready", ready') = {Token("ready", a)}
      BY <2>2, <3>1, AtFacts
    <3>3. Tokens' = (Tokens \ {Token("queued", r)}) \cup {Token("ready", a)}
      BY <1>6, <1>7, <3>2 DEF Tokens
    <3> HIDE DEF Tokens
    <3> QED BY <1>3, <1>8, <3>3, TokenFields
  <2> QED BY <1>1, <2>1, <2>2
<1>10. McpTypeInv' /\ DistinctInv'
  BY <1>1, <1>2, <1>3 DEF LiveInv, McpTypeInv, DistinctInv, DistinctNumbers
<1>11. ExchangeInv'
  BY <1>1, <1>2, <1>3, <1>4 DEF LiveInv, ExchangeInv
<1> QED BY <1>9, <1>10, <1>11 DEF LiveInv

\* A frame read while the server is idle is dispatched, or refused.
LEMMA NewDispatched ==
  ASSUME LiveInv, phase = "idle", queued = <<>>, frames' = Number,
         NEW r \in Req, r.number = Number,
         \/ Dispatch(r, TRUE, {})
         \/ \E body \in Bodies : Dispatch(r, FALSE, {Answer(r.number, r.id, body)}),
         UNCHANGED <<queued, controls, writing, answers>>
  PROVE  LiveInv'
<1>1. PICK body \in Bodies :
        /\ phase' = "exchange" /\ active' = {r} /\ finished' = FALSE
        /\ \/ calling' = TRUE /\ ready' = {}
           \/ calling' = FALSE /\ ready' = {Answer(r.number, r.id, body)}
  BY DEF Dispatch, Bodies
<1> DEFINE a == Answer(r.number, r.id, body)
<1>2. a \in Ans /\ a.number = r.number /\ a.id = r.id
  BY DEF Answer, Ans, Req
<1>3. /\ active = {} /\ ~ calling /\ ready = {} /\ writing = {} /\ controls = <<>>
      /\ Running = {} /\ \A t \in Tokens : t.at = "queued" \/ t.at = "answered"
  BY IdleTokens
<1>4. \A t \in Tokens : t.at = "answered"
  BY <1>3, TokenParts DEF Elems
<1>5. ready' = {} \/ ready' = {a}
  BY <1>1
<1> HIDE DEF a
<1>6. /\ Placed("queued", Elems(queued))' = Placed("queued", Elems(queued))
      /\ Placed("control", Elems(controls))' = Placed("control", Elems(controls))
      /\ Placed("writing", writing)' = Placed("writing", writing)
      /\ Placed("answered", Elems(answers))' = Placed("answered", Elems(answers))
      /\ Placed("ready", ready) = {} /\ Placed("calling", Running) = {}
      /\ Placed("ready", ready)' = Placed("ready", ready') /\ Placed("calling", Running)' = Placed("calling", Running')
  BY <1>3, AtFacts DEF Placed, Elems
<1>7. ASSUME NEW u, u.number = Number, Tokens' = Tokens \cup {u}
      PROVE  TokenInv'
  <2>1. u.number = frames + 1 /\ frames' = frames + 1 /\ frames \in Nat
    BY <1>7 DEF Number, LiveInv, McpTypeInv
  <2> HIDE DEF Tokens
  <2> QED BY <1>4, <1>7, <2>1, AddToken DEF LiveInv
<1>8. TokenInv'
  <2>1. CASE calling' = TRUE /\ ready' = {}
    <3>1. Running' = {r}
      BY <1>1, <2>1 DEF Running
    <3>2. Placed("calling", Running') = {Token("calling", r)} /\ Placed("ready", ready') = {}
      BY <2>1, <3>1, AtFacts
    <3>3. Tokens' = Tokens \cup {Token("calling", r)}
      BY <1>6, <3>2 DEF Tokens
    <3> HIDE DEF Tokens
    <3> QED BY <1>7, <3>3, TokenFields
  <2>2. CASE calling' = FALSE /\ ready' = {a}
    <3>1. Running' = {}
      BY <2>2 DEF Running
    <3>2. Placed("calling", Running') = {} /\ Placed("ready", ready') = {Token("ready", a)}
      BY <2>2, <3>1, AtFacts
    <3>3. Tokens' = Tokens \cup {Token("ready", a)}
      BY <1>6, <3>2 DEF Tokens
    <3> HIDE DEF Tokens
    <3> QED BY <1>2, <1>7, <3>3, TokenFields
  <2> QED BY <1>1, <2>1, <2>2 DEF a
<1>9. McpTypeInv' /\ DistinctInv'
  <2>1. Number \in Nat
    BY DEF Number, LiveInv, McpTypeInv
  <2> QED BY <1>1, <1>2, <1>5, <2>1 DEF LiveInv, McpTypeInv, DistinctInv, DistinctNumbers
<1>10. ExchangeInv'
  <2>1. \/ calling' = TRUE /\ ready' = {}
        \/ calling' = FALSE /\ ready' = {a}
    BY <1>1 DEF a
  <2> QED BY <1>1, <1>2, <1>3, <2>1 DEF LiveInv, ExchangeInv
<1> QED BY <1>8, <1>9, <1>10 DEF LiveInv

(* Every step.                                                               *)

LEMMA InvInit == McpInit => McpInv
<1> SUFFICES ASSUME McpInit PROVE McpInv
  OBVIOUS
<1>1. /\ Elems(queued) = {} /\ Elems(controls) = {} /\ Elems(answers) = {} /\ Running = {}
      /\ ready = {} /\ writing = {}
  BY DEF McpInit, Elems, Running
<1>2. \A t : t \notin Tokens
  BY <1>1, TokenParts
<1>3. TokenInv
  <2> HIDE DEF Tokens
  <2> QED BY <1>2 DEF TokenInv, McpInit
<1>4. McpTypeInv
  BY EmptySeq DEF McpInit, McpTypeInv
<1>5. DistinctInv /\ ExchangeInv
  BY DEF McpInit, DistinctInv, DistinctNumbers, ExchangeInv
<1> QED BY <1>3, <1>4, <1>5 DEF McpInv, LiveInv, DriverInv, DistinctInv, McpInit

\* What each step has to keep.
Kept ==
  /\ phase' \in {"idle", "exchange", "closed"}
  /\ DistinctNumbers(answers)'
  /\ phase' # "closed" => LiveInv'
  /\ DriverInv'

LEMMA LiveKept ==
  ASSUME LiveInv', phase' \in {"idle", "exchange"}, DriverInv'
  PROVE  Kept
BY DEF Kept, LiveInv, DistinctInv

LEMMA ClosedKept ==
  ASSUME LiveInv, phase' = "closed", graph' = "none", answers' = answers
  PROVE  Kept
BY DEF Kept, LiveInv, DistinctInv, DistinctNumbers, DriverInv

LEMMA DispatchQueuedStep ==
  ASSUME LiveInv, DriverInv, DispatchQueued
  PROVE  Kept
<1>1. LiveInv'
  BY DispatchQueuedKeeps
<1>2. DriverInv' /\ phase' = "exchange"
  BY DEF DriverInv, DispatchQueued, Dispatch
<1> QED BY <1>1, <1>2, LiveKept

LEMMA CallsStep ==
  ASSUME LiveInv, DriverInv, Calls
  PROVE  Kept
<1>1. CASE Initialize
  <2>1. LiveInv' /\ phase' = "exchange"
    BY <1>1, CallReturns DEF Initialize, Called, Bodies
  <2>2. DriverInv'
    BY <1>1 DEF Initialize, Called, DriverInv
  <2> QED BY <2>1, <2>2, LiveKept
<1>2. CASE ListTools
  <2>1. LiveInv' /\ phase' = "exchange"
    BY <1>2, CallReturns DEF ListTools, Called, Bodies
  <2>2. DriverInv'
    BY <1>2 DEF ListTools, Called, DriverInv
  <2> QED BY <2>1, <2>2, LiveKept
<1>3. CASE NotInitialized
  <2>1. LiveInv' /\ phase' = "exchange"
    BY <1>3, CallReturns DEF NotInitialized, Called, Bodies
  <2>2. DriverInv'
    BY <1>3 DEF NotInitialized, Called, DriverInv
  <2> QED BY <2>1, <2>2, LiveKept
<1>4. CASE TakeDriver
  <2>1. Running' = Running
    BY <1>4 DEF TakeDriver, exchanged, Running
  <2>2. TokenInv' /\ DistinctInv'
    BY <1>4, <2>1, SameTokens DEF TakeDriver, exchanged
  <2>3. McpTypeInv' /\ ExchangeInv'
    BY <1>4 DEF TakeDriver, exchanged, LiveInv, McpTypeInv, ExchangeInv
  <2>4. DriverInv' /\ phase' = "exchange"
    <3>1. PICK r \in Req : active = {r}
      BY <1>4 DEF TakeDriver, Called, LiveInv, ExchangeInv
    <3> QED BY <1>4, <3>1 DEF TakeDriver, exchanged, Called, DriverInv
  <2> QED BY <2>2, <2>3, <2>4, LiveKept DEF LiveInv
<1>5. CASE GraphAnswers
  <2>1. PICK ok \in BOOLEAN : /\ Completes(IF ok THEN "result" ELSE "error")
                              /\ graph' = IF ok THEN "cached" ELSE "none"
    BY <1>5 DEF GraphAnswers
  <2>2. LiveInv' /\ phase' = "exchange"
    BY <1>5, <2>1, CallReturns DEF GraphAnswers, Called, Bodies
  <2>3. DriverInv'
    BY <2>1 DEF DriverInv
  <2> QED BY <2>2, <2>3, LiveKept
<1>6. CASE KnowledgeAnswers
  <2>1. PICK body \in {"result", "error"} : Completes(body)
    BY <1>6 DEF KnowledgeAnswers
  <2>2. LiveInv' /\ phase' = "exchange"
    BY <1>6, <2>1, CallReturns DEF KnowledgeAnswers, Called, Bodies
  <2>3. DriverInv'
    BY <1>6 DEF KnowledgeAnswers, DriverInv
  <2> QED BY <2>2, <2>3, LiveKept
<1> QED BY <1>1, <1>2, <1>3, <1>4, <1>5, <1>6 DEF Calls

LEMMA WritesStep ==
  ASSUME LiveInv, DriverInv, phase \in {"idle", "exchange", "closed"}, Writes
  PROVE  Kept
<1>1. LiveInv' /\ phase' # "closed"
  BY WritesKeep
<1>2. CASE StartWriting
  <2>1. DriverInv' /\ phase' = "exchange"
    BY <1>2 DEF StartWriting, DriverInv
  <2> QED BY <1>1, <2>1, LiveKept
<1>3. CASE FinishWriting
  <2>1. DriverInv' /\ phase' = "exchange"
    BY <1>3 DEF FinishWriting, DriverInv
  <2> QED BY <1>1, <2>1, LiveKept
<1>4. CASE ReturnToIdle
  <2>1. ~ calling
    BY <1>4 DEF ReturnToIdle, LiveInv, ExchangeInv
  <2>2. DriverInv' /\ phase' = "idle"
    BY <1>4, <2>1 DEF ReturnToIdle, DriverInv
  <2> QED BY <1>1, <2>2, LiveKept
<1> QED BY <1>2, <1>3, <1>4 DEF Writes

LEMMA ReadKept ==
  ASSUME LiveInv, DriverInv, phase = "exchange", LiveInv', UNCHANGED <<phase, graph, calling, initialized, active>>
  PROVE  Kept
<1>1. DriverInv'
  BY DEF DriverInv
<1> QED BY <1>1, LiveKept

\* The frame asks for a response among the controls, for which there may be no room.
LEMMA ControlStep ==
  ASSUME LiveInv, DriverInv, phase = "exchange", NEW id \in McpIds, NEW body \in Bodies,
         id = NoId \/ ~ Taken(id),
         frames' = Number, Controls(Answer(Number, id, body)),
         UNCHANGED <<queued, active, calling, ready, finished, writing, initialized, answers>>
  PROVE  Kept
<1>1. CASE Len(controls) = MaxPending
  BY <1>1, ClosedKept DEF Controls
<1>2. CASE Len(controls) # MaxPending
  <2>1. controls' = Append(controls, Answer(Number, id, body)) /\ UNCHANGED <<phase, graph>>
    BY <1>2 DEF Controls
  <2>2. LiveInv'
    BY <2>1, NewControl
  <2> QED BY <2>1, <2>2, ReadKept
<1> QED BY <1>1, <1>2

LEMMA ReadRequestStep ==
  ASSUME LiveInv, DriverInv, NEW id \in RequestId, NEW m \in Method, ReadRequest(id, m)
  PROVE  Kept
<1>1. /\ phase = "exchange" /\ ~ Taken(id) /\ frames' = Number
      /\ UNCHANGED <<active, calling, ready, finished, writing, initialized, answers>>
  BY DEF ReadRequest, Reads, exchanged
<1>2. CASE /\ queued' = Append(queued, [number |-> Number, id |-> id, method |-> m])
           /\ UNCHANGED <<phase, graph, controls>>
  <2>1. LiveInv'
    BY <1>1, <1>2, NewQueued
  <2> QED BY <1>1, <1>2, <2>1, ReadKept
<1>3. CASE Controls(Answer(Number, id, "full")) /\ UNCHANGED queued
  <2>1. id \in McpIds /\ "full" \in Bodies
    BY DEF McpIds, Bodies
  <2> QED BY <1>1, <1>3, <2>1, ControlStep
<1> QED BY <1>2, <1>3 DEF ReadRequest

LEMMA CancelQueuedStep ==
  ASSUME LiveInv, DriverInv, NEW i, CancelQueued(i)
  PROVE  Kept
<1> DEFINE q == SubSeq(queued, 1, i - 1) \o SubSeq(queued, i + 1, Len(queued))
           r == queued[i]
<1>1. /\ phase = "exchange" /\ queued' = q /\ Controls(Answer(r.number, r.id, "cancelled"))
      /\ UNCHANGED <<frames, active, calling, ready, finished, writing, initialized, answers>>
  BY DEF CancelQueued, exchanged
<1>2. queued \in Seq(Req) /\ DistinctNumbers(queued) /\ i \in 1 .. Len(queued)
  BY LenProperties DEF LiveInv, McpTypeInv, DistinctInv, CancelQueued
<1>3. /\ r \in Elems(queued) /\ q \in Seq(Req)
      /\ Elems(q) = Elems(queued) \ {r} /\ DistinctNumbers(q)
  BY <1>2, RemoveElem
<1> HIDE DEF q, r
<1>4. CASE Len(controls) = MaxPending
  BY <1>1, <1>4, ClosedKept DEF Controls
<1>5. CASE Len(controls) # MaxPending
  <2>1. controls' = Append(controls, Answer(r.number, r.id, "cancelled")) /\ UNCHANGED <<phase, graph>>
    BY <1>1, <1>5 DEF Controls
  <2>2. LiveInv'
    BY <1>1, <1>3, <2>1, QueuedIsAnswered DEF Bodies
  <2> QED BY <1>1, <2>1, <2>2, ReadKept
<1> QED BY <1>4, <1>5

LEMMA AdmissionStep ==
  ASSUME LiveInv, DriverInv, AdmissionExpires
  PROVE  Kept
<1>1. /\ phase = "exchange" /\ queued # <<>>
      /\ UNCHANGED <<frames, active, calling, ready, finished, writing, initialized, answers>>
  BY DEF AdmissionExpires, exchanged
<1>2. CASE Len(controls) = MaxPending
  BY <1>1, <1>2, ClosedKept DEF AdmissionExpires
<1>3. CASE Len(controls) # MaxPending
  <2> DEFINE r == Head(queued)
  <2>1. /\ queued' = Tail(queued) /\ UNCHANGED <<phase, graph>>
        /\ controls' = Append(controls, Answer(r.number, r.id, "expired"))
    BY <1>3 DEF AdmissionExpires
  <2>2. /\ r \in Elems(queued) /\ Tail(queued) \in Seq(Req)
        /\ Elems(Tail(queued)) = Elems(queued) \ {r} /\ DistinctNumbers(Tail(queued))
    BY <1>1, TailElem DEF LiveInv, McpTypeInv, DistinctInv
  <2> HIDE DEF r
  <2>3. LiveInv'
    BY <1>1, <2>1, <2>2, QueuedIsAnswered DEF Bodies
  <2> QED BY <1>1, <2>1, <2>3, ReadKept
<1> QED BY <1>2, <1>3

LEMMA ClientStep ==
  ASSUME LiveInv, DriverInv, Client
  PROVE  Kept
<1>0. frames \in Nat /\ Number \in Nat /\ NoId \in McpIds /\ RequestId \subseteq McpIds
  BY DEF LiveInv, McpTypeInv, Number, McpIds
<1>1. CASE RefuseNext
  <2> DEFINE r == [number |-> Number, id |-> NoId, method |-> "invalid"]
  <2>1. r \in Req /\ r.number = Number /\ r.id = NoId
    BY <1>0 DEF Req
  <2>2. /\ phase = "idle" /\ queued = <<>> /\ frames' = Number
        /\ Dispatch(r, FALSE, {Answer(Number, NoId, "invalid")})
        /\ UNCHANGED <<queued, controls, writing, answers, graph>>
    BY <1>1 DEF RefuseNext
  <2> HIDE DEF r
  <2>3. LiveInv'
    BY <2>1, <2>2, NewDispatched DEF Bodies
  <2>4. DriverInv' /\ phase' = "exchange"
    BY <2>2 DEF DriverInv, Dispatch
  <2> QED BY <2>3, <2>4, LiveKept
<1>2. ASSUME NEW id \in RequestId, NEW m \in Method, DispatchNext(id, m)
      PROVE  Kept
  <2> DEFINE r == [number |-> Number, id |-> id, method |-> m]
  <2>1. r \in Req /\ r.number = Number
    BY <1>0 DEF Req
  <2>2. /\ phase = "idle" /\ queued = <<>> /\ frames' = Number
        /\ Dispatch(r, TRUE, {}) /\ UNCHANGED <<queued, controls, writing, answers, graph>>
    BY <1>2 DEF DispatchNext
  <2> HIDE DEF r
  <2>3. LiveInv'
    BY <2>1, <2>2, NewDispatched
  <2>4. DriverInv' /\ phase' = "exchange"
    BY <2>2 DEF DriverInv, Dispatch
  <2> QED BY <2>3, <2>4, LiveKept
<1>3. CASE ReadInvalid
  BY <1>0, <1>3, ControlStep DEF ReadInvalid, Reads, exchanged, Bodies
<1>4. ASSUME NEW id \in RequestId, ReadDuplicate(id)
      PROVE  Kept
  BY <1>0, <1>4, ControlStep DEF ReadDuplicate, Reads, exchanged, Bodies
<1>5. ASSUME NEW id \in RequestId, ReadPing(id)
      PROVE  Kept
  BY <1>0, <1>5, ControlStep DEF ReadPing, Reads, exchanged, Bodies
<1>6. ASSUME NEW id \in RequestId, NEW m \in Method, ReadRequest(id, m)
      PROVE  Kept
  BY <1>6, ReadRequestStep
<1>7. CASE CancelActive
  <2>1. LiveInv' /\ phase' = "exchange"
    BY <1>7, CallReturns DEF CancelActive, Bodies
  <2>2. DriverInv'
    BY <1>7 DEF CancelActive, DriverInv
  <2> QED BY <2>1, <2>2, LiveKept
<1>8. ASSUME NEW i \in 1 .. MaxPending, CancelQueued(i)
      PROVE  Kept
  BY <1>8, CancelQueuedStep
<1>9. CASE InputEnds
  BY <1>9, ClosedKept DEF InputEnds, SessionEnds
<1> QED BY <1>1, <1>2, <1>3, <1>4, <1>5, <1>6, <1>7, <1>8, <1>9 DEF Client

LEMMA TimersStep ==
  ASSUME LiveInv, DriverInv, Timers
  PROVE  Kept
<1>1. CASE DriverExpires
  <2>1. Running' = Running
    BY <1>1 DEF DriverExpires, exchanged, Running
  <2>2. TokenInv' /\ DistinctInv'
    BY <1>1, <2>1, SameTokens DEF DriverExpires, exchanged
  <2>3. McpTypeInv' /\ ExchangeInv'
    BY <1>1 DEF DriverExpires, exchanged, LiveInv, McpTypeInv, ExchangeInv
  <2>4. DriverInv' /\ phase' = "idle"
    BY <1>1 DEF DriverExpires, DriverInv
  <2> QED BY <2>2, <2>3, <2>4, LiveKept DEF LiveInv
<1>2. CASE AdmissionExpires
  BY <1>2, AdmissionStep
<1>3. CASE OutputTimesOut
  BY <1>3, ClosedKept DEF OutputTimesOut, SessionEnds
<1> QED BY <1>1, <1>2, <1>3 DEF Timers

\* A session that has ended takes no step.
LEMMA ClosedStops ==
  ASSUME phase = "closed"
  PROVE  ~ McpNext
BY DEF McpNext, DispatchQueued, Calls, Initialize, ListTools, NotInitialized, TakeDriver, GraphAnswers,
       KnowledgeAnswers, Called, Writes, StartWriting, FinishWriting, ReturnToIdle,
       Client, RefuseNext, ReadInvalid, ReadDuplicate, ReadPing, DispatchNext, ReadRequest, Reads,
       CancelActive, CancelQueued, InputEnds, Timers, DriverExpires, AdmissionExpires, OutputTimesOut

LEMMA InvStep == McpInv /\ [McpNext]_mcpVars => McpInv'
<1> SUFFICES ASSUME McpInv, [McpNext]_mcpVars PROVE McpInv'
  OBVIOUS
<1>1. CASE McpNext
  <2>1. LiveInv /\ DriverInv /\ phase \in {"idle", "exchange", "closed"}
    BY <1>1, ClosedStops DEF McpInv
  <2>2. Kept
    BY <1>1, <2>1, DispatchQueuedStep, CallsStep, WritesStep, ClientStep, TimersStep DEF McpNext
  <2> QED BY <2>2 DEF Kept, McpInv
<1>2. CASE UNCHANGED mcpVars
  BY <1>2 DEF mcpVars, McpInv, LiveInv, McpTypeInv, DistinctInv, DistinctNumbers, TokenInv, Tokens, Placed, Token, Elems,
              Running, ExchangeInv, DriverInv
<1> QED BY <1>1, <1>2

(* What the invariant says of responses.                                     *)

\* A frame has one place.
LEMMA OnePlace ==
  ASSUME LiveInv, NEW k \in 1 .. frames
  PROVE  \E t \in Tokens : t.number = k /\ \A s \in Tokens : s.number = k => s = t
<1> HIDE DEF Tokens
<1> QED BY DEF LiveInv, TokenInv

LEMMA AnsweredIsToken ==
  ASSUME LiveInv, NEW k
  PROVE  /\ Answered(k) <=> \E t \in Tokens : t.number = k /\ t.at = "answered"
         /\ Unanswered(k) <=> \E t \in Tokens : t.number = k /\ t.at # "answered"
<1>1. /\ Answered(k) <=> \E x \in Elems(answers) : x.number = k
      /\ k \in Numbers(queued) <=> \E x \in Elems(queued) : x.number = k
      /\ k \in Numbers(controls) <=> \E x \in Elems(controls) : x.number = k
  BY DEF Answered, Numbers, Elems
<1>2. (calling /\ \E r \in active : r.number = k) <=> \E x \in Running : x.number = k
  BY DEF Running
<1>3. Unanswered(k) <=> \/ \E x \in Elems(queued) : x.number = k
                        \/ \E x \in Elems(controls) : x.number = k
                        \/ \E x \in ready : x.number = k
                        \/ \E x \in writing : x.number = k
                        \/ \E x \in Running : x.number = k
  BY <1>1, <1>2 DEF Unanswered
<1>4. (\E t \in Tokens : t.number = k /\ t.at = "answered") <=> \E x \in Elems(answers) : x.number = k
  BY TokenParts, TokenFields
<1>5. Unanswered(k) => \E t \in Tokens : t.number = k /\ t.at # "answered"
  BY <1>3, TokenParts, TokenFields
<1>6. (\E t \in Tokens : t.number = k /\ t.at # "answered") => Unanswered(k)
  BY <1>3, TokenParts, TokenFields
<1> QED BY <1>1, <1>4, <1>5, <1>6

LEMMA AtMostOne ==
  ASSUME NEW S, \A x, y \in S : x = y
  PROVE  Cardinality(S) \in {0, 1} /\ (Cardinality(S) = 1 => \E x \in S : TRUE)
<1>1. CASE S = {}
  BY <1>1, FS_EmptySet
<1>2. CASE S # {}
  <2>1. PICK x : S = {x}
    BY <1>2
  <2> QED BY <2>1, FS_Singleton
<1> QED BY <1>1, <1>2

\* One response per frame among those that wait.
LEMMA OneWaits ==
  ASSUME LiveInv, phase # "closed", phase \in {"idle", "exchange", "closed"}, NEW k \in 1 .. frames
  PROVE  Cardinality({i \in DOMAIN queued : queued[i].number = k})
           + Cardinality({i \in DOMAIN controls : controls[i].number = k})
           + Cardinality({a \in writing \cup ready : a.number = k})
           + Cardinality({r \in active : r.number = k /\ calling}) <= 1
<1> DEFINE Q == {i \in DOMAIN queued : queued[i].number = k}
           C == {i \in DOMAIN controls : controls[i].number = k}
           W == {a \in writing \cup ready : a.number = k}
           R == {r \in active : r.number = k /\ calling}
<1>1. PICK t \in Tokens : t.number = k /\ \A s \in Tokens : s.number = k => s = t
  BY OnePlace
<1>2. (\E i \in Q : TRUE) => t.at = "queued"
  <2>1. ASSUME NEW i \in Q PROVE t.at = "queued"
    <3>1. queued[i] \in Elems(queued) /\ queued[i].number = k
      BY <2>1 DEF Elems
    <3> QED BY <1>1, <3>1, TokenParts, TokenFields
  <2> QED BY <2>1
<1>3. (\E i \in C : TRUE) => t.at = "control"
  <2>1. ASSUME NEW i \in C PROVE t.at = "control"
    <3>1. controls[i] \in Elems(controls) /\ controls[i].number = k
      BY <2>1 DEF Elems
    <3> QED BY <1>1, <3>1, TokenParts, TokenFields
  <2> QED BY <2>1
<1>4. ASSUME NEW x \in W
      PROVE  (x \in writing /\ t.at = "writing") \/ (x \in ready /\ t.at = "ready")
  <2>1. x.number = k /\ (x \in writing \/ x \in ready)
    OBVIOUS
  <2> QED BY <1>1, <2>1, TokenParts, TokenFields
<1>5. ASSUME NEW x \in R
      PROVE  t.at = "calling"
  <2>1. x \in Running /\ x.number = k
    BY DEF Running
  <2> QED BY <1>1, <2>1, TokenParts, TokenFields
<1>6. (\A i, j \in Q : i = j) /\ (\A i, j \in C : i = j)
  BY DEF LiveInv, DistinctInv, DistinctNumbers
<1>7. /\ \A x, y \in writing : x = y
      /\ \A x, y \in ready : x = y
      /\ \A x, y \in active : x = y
  BY DEF LiveInv, ExchangeInv
<1>8. (\A x, y \in W : x = y) /\ (\A x, y \in R : x = y)
  <2>1. \A x, y \in W : x = y
    BY <1>4, <1>7
  <2> QED BY <1>7, <2>1
<1>9. (\E x \in W : TRUE) => t.at \in {"writing", "ready"}
  BY <1>4
<1> HIDE DEF Q, C, W, R
<1>10. /\ Cardinality(Q) \in {0, 1} /\ Cardinality(C) \in {0, 1}
       /\ Cardinality(W) \in {0, 1} /\ Cardinality(R) \in {0, 1}
       /\ Cardinality(Q) = 1 => t.at = "queued"
       /\ Cardinality(C) = 1 => t.at = "control"
       /\ Cardinality(W) = 1 => t.at \in {"writing", "ready"}
       /\ Cardinality(R) = 1 => t.at = "calling"
  BY <1>2, <1>3, <1>5, <1>6, <1>8, <1>9, AtMostOne
<1>11. Cardinality(Q) + Cardinality(C) + Cardinality(W) + Cardinality(R) <= 1
  BY <1>10
<1> QED BY <1>11 DEF Q, C, W, R

LEMMA WaiterIsToken ==
  ASSUME NEW w \in Waiters
  PROVE  \E t \in Tokens : t.at # "answered" /\ w = <<t.number, t.id>>
<1>1. ASSUME NEW at \in {"queued", "control", "ready", "writing", "calling"}, NEW x,
             Token(at, x) \in Tokens, w = <<x.number, x.id>>
      PROVE  \E t \in Tokens : t.at # "answered" /\ w = <<t.number, t.id>>
  BY <1>1, TokenFields
<1>2. CASE w \in {<<queued[i].number, queued[i].id>> : i \in DOMAIN queued}
  <2>1. PICK x \in Elems(queued) : w = <<x.number, x.id>>
    BY <1>2 DEF Elems
  <2> QED BY <1>1, <2>1, TokenParts
<1>3. CASE w \in {<<controls[i].number, controls[i].id>> : i \in DOMAIN controls}
  <2>1. PICK x \in Elems(controls) : w = <<x.number, x.id>>
    BY <1>3 DEF Elems
  <2> QED BY <1>1, <2>1, TokenParts
<1>4. CASE w \in {<<a.number, a.id>> : a \in writing \cup ready}
  BY <1>1, <1>4, TokenParts
<1>5. CASE w \in {<<r.number, r.id>> : r \in {x \in active : calling}}
  BY <1>1, <1>5, TokenParts DEF Running
<1> QED BY <1>2, <1>3, <1>4, <1>5 DEF Waiters

LEMMA InvAnswers == McpInv => AnsweredExactlyOnce
<1> SUFFICES ASSUME McpInv PROVE AnsweredExactlyOnce
  OBVIOUS
<1>1. \A i, j \in DOMAIN answers : answers[i].number = answers[j].number => i = j
  BY DEF McpInv, DistinctNumbers
<1>2. ASSUME phase # "closed", NEW k \in 1 .. frames
      PROVE  Answered(k) # Unanswered(k)
  <2>1. LiveInv
    BY <1>2 DEF McpInv
  <2>2. PICK t \in Tokens : t.number = k /\ \A s \in Tokens : s.number = k => s = t
    BY <2>1, OnePlace
  <2>3. /\ Answered(k) <=> t.at = "answered"
        /\ Unanswered(k) <=> t.at # "answered"
    <3> HIDE DEF Tokens
    <3> QED BY <2>1, <2>2, AnsweredIsToken
  <2>4. Answered(k) \in BOOLEAN /\ Unanswered(k) \in BOOLEAN
    BY DEF Answered, Unanswered
  <2> QED BY <2>3, <2>4
<1>3. ASSUME phase # "closed", NEW x \in Waiters, NEW y \in Waiters, x[2] = y[2], x[2] # NoId
      PROVE  x = y
  <2>1. LiveInv
    BY <1>3 DEF McpInv
  <2>2. PICK s \in Tokens : s.at # "answered" /\ x = <<s.number, s.id>>
    BY WaiterIsToken
  <2>3. PICK t \in Tokens : t.at # "answered" /\ y = <<t.number, t.id>>
    BY WaiterIsToken
  <2>4. s.id = t.id /\ s.id # NoId
    BY <1>3, <2>2, <2>3
  <2>5. s = t
    <3> HIDE DEF Tokens
    <3> QED BY <2>1, <2>2, <2>3, <2>4 DEF LiveInv, TokenInv
  <2> QED BY <2>2, <2>3, <2>5
<1>4. graph = "lent" => phase = "exchange" /\ calling
  BY DEF McpInv, DriverInv
<1>5. ASSUME phase # "closed", NEW k \in 1 .. frames
      PROVE  Cardinality({i \in DOMAIN queued : queued[i].number = k})
               + Cardinality({i \in DOMAIN controls : controls[i].number = k})
               + Cardinality({a \in writing \cup ready : a.number = k})
               + Cardinality({r \in active : r.number = k /\ calling}) <= 1
  BY <1>5, OneWaits DEF McpInv
<1> QED BY <1>1, <1>2, <1>3, <1>4, <1>5 DEF AnsweredExactlyOnce

\* Every frame that calls for a response has exactly one, written or still to
\* come, however calls, cancellations, deadlines and full queues follow on each
\* other (serve_mcp, exchange), for any ids, methods, bounds and lengths of a session.
THEOREM EveryFrameAnsweredOnce == McpSpec => []AnsweredExactlyOnce
<1>1. McpInit => McpInv
  BY InvInit
<1>2. McpInv /\ [McpNext]_mcpVars => McpInv'
  BY InvStep
<1>3. McpInv => AnsweredExactlyOnce
  BY InvAnswers
<1> QED BY <1>1, <1>2, <1>3, PTL DEF McpSpec

-----------------------------------------------------------------------------
(* Pages of a neighborhood.                                                *)

NumberedRows(rows) ==
  /\ IsFiniteSet(rows)
  /\ \A r \in rows : r.id \in Nat \ {0}
  /\ \A r, s \in rows : r.id = s.id => r = s

\* s has every element of S, in the order of the identifiers.
IsInOrder(s, S) ==
  /\ s \in Seq(S)
  /\ \A x \in S : \E i \in 1 .. Len(s) : s[i] = x
  /\ \A i, j \in 1 .. Len(s) : i < j <=> s[i].id < s[j].id

\* What InOrder returns is in order.
LEMMA InOrderIsInOrder ==
  ASSUME NEW S, NumberedRows(S)
  PROVE  IsInOrder(InOrder(S), S)
<1> DEFINE B == {p \in S \X S : p[1].id < p[2].id}
<1>1. Sorts(B, S)
  BY DEF Sorts, NumberedRows
<1>2. InOrder(S) = RankedBy(S, B)
  <2>1. ASSUME NEW x \in S PROVE {y \in S : y.id < x.id} = Below(x, S, B)
    BY DEF Below
  <2>2. ASSUME NEW n \in 1 .. Cardinality(S)
        PROVE (CHOOSE x \in S : Cardinality({y \in S : y.id < x.id}) = n - 1)
                = (CHOOSE x \in S : Cardinality(Below(x, S, B)) = n - 1)
    <3> DEFINE Q(x) == Cardinality({y \in S : y.id < x.id}) = n - 1
               T(x) == Cardinality(Below(x, S, B)) = n - 1
    <3>1. \A x \in S : Q(x) <=> T(x)
      BY <2>1
    <3>2. {x \in S : Q(x)} = {x \in S : T(x)}
      BY <3>1
    <3> HIDE DEF Q, T
    <3>3. (CHOOSE x \in S : Q(x)) = (CHOOSE x \in S : T(x))
      BY <3>1
    <3> QED BY <3>3 DEF Q, T
  <2> HIDE DEF B
  <2>3. InOrder(S) = [n \in 1 .. Cardinality(S) |-> CHOOSE x \in S : Cardinality({y \in S : y.id < x.id}) = n - 1]
    BY DEF InOrder, Ranked
  <2> QED BY <2>2, <2>3 DEF RankedBy
<1>3. IsFiniteSet(S)
  BY DEF NumberedRows
<1> DEFINE s == RankedBy(S, B)
           n == Cardinality(S)
<1>4. /\ n \in Nat /\ s \in Seq(S) /\ Len(s) = n
      /\ \A x \in S : Cardinality(Below(x, S, B)) + 1 \in 1 .. n /\ s[Cardinality(Below(x, S, B)) + 1] = x
      /\ \A i \in 1 .. n : s[i] \in S
      /\ \A i, j \in 1 .. n : i < j <=> <<s[i], s[j]>> \in B
  <2> HIDE DEF B
  <2> QED BY <1>1, <1>3, RankedFacts
<1>5. \A i, j \in 1 .. n : i < j <=> s[i].id < s[j].id
  <2> HIDE DEF s, n
  <2> QED BY <1>4
<1> HIDE DEF s, B, n
<1>6. \A x \in S : \E i \in 1 .. Len(s) : s[i] = x
  BY <1>4
<1> QED BY <1>2, <1>4, <1>5, <1>6 DEF IsInOrder, s

\* Two sequences of the same elements in order are the same.
LEMMA OneOrder ==
  ASSUME NEW S, NumberedRows(S), NEW s, NEW t, IsInOrder(s, S), IsInOrder(t, S)
  PROVE  s = t
<1> DEFINE m == Len(s)
           n == Len(t)
<1>1. /\ m \in Nat /\ n \in Nat
      /\ \A i \in 1 .. m : s[i] \in S /\ s[i].id \in Nat
      /\ \A i \in 1 .. n : t[i] \in S /\ t[i].id \in Nat
  <2>1. s \in Seq(S) /\ t \in Seq(S) /\ \A x \in S : x.id \in Nat
    BY DEF IsInOrder, NumberedRows
  <2>2. /\ m \in Nat /\ n \in Nat
        /\ \A i \in 1 .. m : s[i] \in S
        /\ \A i \in 1 .. n : t[i] \in S
    BY <2>1
  <2> QED BY <2>1, <2>2
<1>2. /\ \A x \in S : \E i \in 1 .. m : s[i] = x
      /\ \A x \in S : \E i \in 1 .. n : t[i] = x
      /\ \A i, j \in 1 .. m : i < j <=> s[i].id < s[j].id
      /\ \A i, j \in 1 .. n : i < j <=> t[i].id < t[j].id
  BY DEF IsInOrder
<1> HIDE DEF m, n
<1>3. ASSUME NEW k \in Nat, \A i \in 1 .. k : i \in 1 .. m /\ i \in 1 .. n /\ s[i] = t[i],
             k + 1 \in 1 .. m
      PROVE  k + 1 \in 1 .. n /\ s[k + 1] = t[k + 1]
  <2>1. PICK j \in 1 .. n : t[j] = s[k + 1]
    BY <1>1, <1>2, <1>3
  <2>2. ~(j \in 1 .. k)
    <3> SUFFICES ASSUME j \in 1 .. k PROVE FALSE
      OBVIOUS
    <3>1. s[j] = s[k + 1] /\ j \in 1 .. m /\ j < k + 1
      BY <2>1, <1>3
    <3>2. s[j].id < s[k + 1].id
      BY <3>1, <1>2, <1>3
    <3> QED BY <3>1, <3>2, <1>1
  <2>3. k + 1 \in 1 .. n /\ j >= k + 1
    BY <2>2, <1>1, <1>3
  <2>4. PICK i \in 1 .. m : s[i] = t[k + 1]
    BY <1>1, <1>2, <2>3
  <2>5. ~(i \in 1 .. k)
    <3> SUFFICES ASSUME i \in 1 .. k PROVE FALSE
      OBVIOUS
    <3>1. t[i] = t[k + 1] /\ i \in 1 .. n /\ i < k + 1
      BY <2>4, <1>3
    <3>2. t[i].id < t[k + 1].id
      BY <3>1, <1>2, <2>3
    <3> QED BY <3>1, <3>2, <1>1, <2>3
  <2>6. i >= k + 1
    BY <2>5, <1>1, <1>3
  <2>7. ~(j > k + 1)
    <3> SUFFICES ASSUME j > k + 1 PROVE FALSE
      OBVIOUS
    <3>1. t[k + 1].id < t[j].id
      BY <1>2, <2>3
    <3>2. s[i].id < s[k + 1].id
      BY <3>1, <2>1, <2>4
    <3>3. i < k + 1
      BY <3>2, <1>2, <1>3
    <3> QED BY <3>3, <2>6, <1>1
  <2>8. j = k + 1
    BY <2>7, <2>3, <1>1
  <2> QED BY <2>8, <2>3, <2>1
<1>4. ASSUME NEW k \in Nat, \A i \in 1 .. k : i \in 1 .. m /\ i \in 1 .. n /\ s[i] = t[i],
             k + 1 \in 1 .. n
      PROVE  k + 1 \in 1 .. m
  <2>1. PICK i \in 1 .. m : s[i] = t[k + 1]
    BY <1>1, <1>2, <1>4
  <2>2. ~(i \in 1 .. k)
    <3> SUFFICES ASSUME i \in 1 .. k PROVE FALSE
      OBVIOUS
    <3>1. t[i] = t[k + 1] /\ i \in 1 .. n /\ i < k + 1
      BY <2>1, <1>4
    <3>2. t[i].id < t[k + 1].id
      BY <3>1, <1>2, <1>4
    <3> QED BY <3>1, <3>2, <1>1, <1>4
  <2> QED BY <2>2, <1>1
<1> DEFINE W == {k \in Nat : \A i \in 1 .. k : /\ i \in 1 .. m <=> i \in 1 .. n
                                               /\ i \in 1 .. m => s[i] = t[i]}
<1>5. W = Nat
  <2>1. 0 \in W
    OBVIOUS
  <2>2. ASSUME NEW k \in W PROVE k + 1 \in W
    <3>1. CASE k <= m /\ k <= n
      <4>1. \A i \in 1 .. k : i \in 1 .. m /\ i \in 1 .. n /\ s[i] = t[i]
        BY <3>1, <1>1
      <4>2. k + 1 \in 1 .. m <=> k + 1 \in 1 .. n
        BY <4>1, <1>3, <1>4
      <4>3. k + 1 \in 1 .. m => s[k + 1] = t[k + 1]
        BY <4>1, <1>3
      <4> QED BY <4>1, <4>2, <4>3, <1>1
    <3>2. CASE k > m \/ k > n
      BY <3>2, <1>1
    <3> QED BY <3>1, <3>2, <1>1
  <2>3. W \in SUBSET Nat
    OBVIOUS
  <2> HIDE DEF W
  <2> QED BY <2>1, <2>2, <2>3, AllNumbers
<1>6. \A i \in Nat \ {0} : (i \in 1 .. m <=> i \in 1 .. n) /\ (i \in 1 .. m => s[i] = t[i])
  <2> SUFFICES ASSUME NEW i \in Nat \ {0}
               PROVE  (i \in 1 .. m <=> i \in 1 .. n) /\ (i \in 1 .. m => s[i] = t[i])
    OBVIOUS
  <2>1. i \in W /\ i \in 1 .. i
    BY <1>5
  <2> QED BY <2>1
<1>7. m = n
  <2>1. ~(m < n) /\ ~(n < m)
    BY <1>6, <1>1
  <2> QED BY <2>1, <1>1
<1>8. s = [i \in 1 .. m |-> s[i]] /\ t = [i \in 1 .. n |-> t[i]]
  BY DEF IsInOrder, m, n
<1> QED BY <1>1, <1>6, <1>7, <1>8

\* What comes after a row of the order is the rest of the order.
LEMMA RestInOrder ==
  ASSUME NEW S, NumberedRows(S), NEW k \in Nat, NEW p \in 0 .. Len(InOrder(S)),
         k = IF p = 0 THEN 0 ELSE InOrder(S)[p].id
  PROVE  InOrder({r \in S : r.id > k}) = SubSeq(InOrder(S), p + 1, Len(InOrder(S)))
<1> DEFINE s == InOrder(S)
           R == {r \in S : r.id > k}
           n == Len(s)
           t == SubSeq(s, p + 1, n)
<1>1. /\ s \in Seq(S) /\ n \in Nat
      /\ \A x \in S : \E i \in 1 .. n : s[i] = x
      /\ \A i, j \in 1 .. n : i < j <=> s[i].id < s[j].id
      /\ \A i \in 1 .. n : s[i] \in S
  BY InOrderIsInOrder DEF IsInOrder
<1>2. NumberedRows(R)
  <2>1. IsFiniteSet(R)
    BY FS_Subset DEF NumberedRows
  <2> QED BY <2>1 DEF NumberedRows
<1>3. IsInOrder(InOrder(R), R)
  <2> HIDE DEF R
  <2> QED BY <1>2, InOrderIsInOrder
<1>4. p \in 0 .. n /\ k = IF p = 0 THEN 0 ELSE s[p].id
  OBVIOUS
<1>9. \A r \in S : r.id \in Nat \ {0}
  BY DEF NumberedRows
<1> HIDE DEF s, n
<1>5. Len(t) = n - p /\ \A i \in 1 .. n - p : t[i] = s[p + i]
  BY <1>1, <1>4
<1>6. \A i \in 1 .. n : s[i].id > k <=> i > p
  <2> SUFFICES ASSUME NEW i \in 1 .. n PROVE s[i].id > k <=> i > p
    OBVIOUS
  <2>1. s[i].id \in Nat \ {0}
    BY <1>1, <1>9
  <2>2. CASE p = 0
    BY <2>1, <2>2, <1>4
  <2>3. CASE p # 0
    <3>1. p \in 1 .. n /\ k = s[p].id
      BY <2>3, <1>4
    <3>2. p < i <=> s[p].id < s[i].id
      BY <3>1, <1>1
    <3> QED BY <3>1, <3>2, <2>1
  <2> QED BY <2>2, <2>3
<1>7. IsInOrder(t, R)
  <2>1. t \in Seq(R)
    <3>1. \A i \in 1 .. Len(t) : t[i] \in R
      <4> SUFFICES ASSUME NEW i \in 1 .. Len(t) PROVE t[i] \in R
        OBVIOUS
      <4>1. t[i] = s[p + i] /\ p + i \in 1 .. n /\ p + i > p
        BY <1>1, <1>4, <1>5
      <4> QED BY <4>1, <1>1, <1>6
    <3>2. t \in Seq(S)
      BY <1>1, <1>4
    <3> HIDE DEF t, R
    <3> QED BY <3>1, <3>2
  <2>2. ASSUME NEW x \in R PROVE \E i \in 1 .. Len(t) : t[i] = x
    <3>1. PICK i \in 1 .. n : s[i] = x
      BY <1>1
    <3>2. i > p
      BY <3>1, <1>6
    <3>3. i - p \in 1 .. n - p /\ p + (i - p) = i
      BY <3>2, <1>1, <1>4
    <3> QED BY <3>1, <3>3, <1>5
  <2>3. ASSUME NEW i \in 1 .. Len(t), NEW j \in 1 .. Len(t) PROVE i < j <=> t[i].id < t[j].id
    <3>1. /\ t[i] = s[p + i] /\ p + i \in 1 .. n
          /\ t[j] = s[p + j] /\ p + j \in 1 .. n /\ (i < j <=> p + i < p + j)
      BY <1>1, <1>4, <1>5
    <3> HIDE DEF t
    <3> QED BY <3>1, <1>1
  <2> HIDE DEF t, R
  <2> QED BY <2>1, <2>2, <2>3 DEF IsInOrder
<1> HIDE DEF t, R
<1>8. InOrder(R) = t
  BY <1>2, <1>3, <1>7, OneOrder
<1> QED BY <1>8 DEF t, R, s, n

\* got is what comes before the position.
Delivered(whole, got, at) ==
  \E p \in 0 .. Len(whole) :
    /\ got = SubSeq(whole, 1, p)
    /\ IF at = {} THEN p = Len(whole) ELSE at = {IF p = 0 THEN 0 ELSE whole[p].id}

\* One page more.
LEMMA OnePage ==
  ASSUME NEW S, NumberedRows(S), NEW limit \in Nat \ {0}, NEW got, NEW k,
         Delivered(InOrder(S), got, {k})
  PROVE  LET rows == FirstRows({r \in S : r.id > k}, limit + 1)
         IN  Delivered(InOrder(S), got \o SubSeq(rows, 1, IF Len(rows) < limit THEN Len(rows) ELSE limit),
                       PageEnd(rows, limit))
<1> DEFINE s == InOrder(S)
           n == Len(s)
           rows == FirstRows({r \in S : r.id > k}, limit + 1)
           m == IF Len(rows) < limit THEN Len(rows) ELSE limit
<1>1. PICK p \in 0 .. n : got = SubSeq(s, 1, p) /\ k = IF p = 0 THEN 0 ELSE s[p].id
  BY DEF Delivered
<1>2. /\ s \in Seq(S) /\ n \in Nat /\ \A i \in 1 .. n : s[i] \in S
  BY InOrderIsInOrder DEF IsInOrder
<1>3. k \in Nat
  BY <1>1, <1>2 DEF NumberedRows
<1>4. InOrder({r \in S : r.id > k}) = SubSeq(s, p + 1, n)
  BY <1>1, <1>3, RestInOrder
<1> DEFINE rest == SubSeq(s, p + 1, n)
<1>5. rows = SubSeq(rest, 1, IF Len(rest) < limit + 1 THEN Len(rest) ELSE limit + 1)
  BY <1>4 DEF FirstRows
<1> HIDE DEF s, rows, n
<1>6. rest \in Seq(S) /\ Len(rest) = n - p /\ \A i \in 1 .. n - p : rest[i] = s[p + i]
  BY <1>1, <1>2
<1> HIDE DEF rest
<1>7. /\ Len(rows) = IF n - p < limit + 1 THEN n - p ELSE limit + 1
      /\ rows \in Seq(S)
      /\ \A i \in 1 .. Len(rows) : rows[i] = s[p + i]
  BY <1>1, <1>2, <1>5, <1>6
<1>8. m \in Nat /\ m <= Len(rows) /\ p + m \in 0 .. n
  BY <1>1, <1>2, <1>7
<1>9. got \o SubSeq(rows, 1, m) = SubSeq(s, 1, p + m)
  <2>1. got \in Seq(S) /\ Len(got) = p /\ \A i \in 1 .. p : got[i] = s[i]
    BY <1>1, <1>2
  <2> DEFINE page == SubSeq(rows, 1, m)
  <2>2. page \in Seq(S) /\ Len(page) = m /\ \A i \in 1 .. m : page[i] = s[p + i]
    BY <1>7, <1>8
  <2> HIDE DEF page, m
  <2>3. /\ got \o page \in Seq(S) /\ Len(got \o page) = p + m
        /\ \A i \in 1 .. p + m : (got \o page)[i] = IF i <= p THEN got[i] ELSE page[i - p]
    BY <2>1, <2>2, <1>8
  <2>4. \A i \in 1 .. p + m : (got \o page)[i] = s[i]
    <3> SUFFICES ASSUME NEW i \in 1 .. p + m PROVE (got \o page)[i] = s[i]
      OBVIOUS
    <3>1. CASE i <= p
      BY <3>1, <2>1, <2>3
    <3>2. CASE i > p
      <4>1. i - p \in 1 .. m /\ p + (i - p) = i
        BY <3>2, <1>1, <1>8
      <4>2. page[i - p] = s[i]
        BY <4>1, <2>2
      <4> QED BY <3>2, <4>2, <2>3, <1>1
    <3>3. i <= p \/ i > p
      BY <1>1, <1>2, <1>8
    <3> QED BY <3>1, <3>2, <3>3
  <2>5. SubSeq(s, 1, p + m) \in Seq(S) /\ Len(SubSeq(s, 1, p + m)) = p + m
        /\ \A i \in 1 .. p + m : SubSeq(s, 1, p + m)[i] = s[i]
    BY <1>2, <1>8
  <2> DEFINE a == got \o page
             b == SubSeq(s, 1, p + m)
  <2>6. a \in Seq(S) /\ b \in Seq(S) /\ Len(a) = Len(b) /\ \A i \in 1 .. Len(a) : a[i] = b[i]
    BY <2>3, <2>4, <2>5
  <2> HIDE DEF a, b
  <2>7. a = b
    BY <2>6, SeqEqual
  <2> QED BY <2>7 DEF a, b, page
<1>10. IF PageEnd(rows, limit) = {} THEN p + m = n
       ELSE PageEnd(rows, limit) = {IF p + m = 0 THEN 0 ELSE s[p + m].id}
  <2>1. CASE Len(rows) > limit
    <3>1. PageEnd(rows, limit) = {rows[limit].id} /\ m = limit /\ rows[limit] = s[p + limit] /\ p + m # 0
      BY <2>1, <1>1, <1>7, <1>8 DEF PageEnd
    <3> QED BY <3>1
  <2>2. CASE ~(Len(rows) > limit)
    <3>1. PageEnd(rows, limit) = {}
      BY <2>2 DEF PageEnd
    <3>2. m = n - p
      BY <2>2, <1>1, <1>2, <1>7, <1>8
    <3> QED BY <3>1, <3>2, <1>1, <1>2
  <2> QED BY <2>1, <2>2
<1>11. Delivered(s, got \o SubSeq(rows, 1, m), PageEnd(rows, limit))
  <2> HIDE DEF m
  <2> QED BY <1>8, <1>9, <1>10 DEF Delivered, n
<1> QED BY <1>11 DEF s, rows

Directions == {"outgoing", "incoming"}

PagesType == [at : [outgoing : SUBSET Nat, incoming : SUBSET Nat],
              got : [outgoing : Seq(RowType), incoming : Seq(RowType)], first : SUBSET Build]

\* What the rest of the reader's state looks like, as far as pages need it.
Readable ==
  /\ content \in Contents /\ published \subseteq Build /\ pointer \subseteq published
  /\ DOMAIN read = {"pc", "query", "build", "pages", "search", "context", "answer"}
  /\ read.query = {} \/ \E q \in Query : read.query = {q}
  /\ read.build \subseteq published
  /\ read.pages \in PagesType

Whole(q, d) == InOrder(Neighbors(PinnedGraph, q.anchor, d, q.types))

PageInv ==
  \A q \in read.query : q.kind = "page" =>
    /\ IF read.build = {} THEN read.pages = NoPages
       ELSE /\ read.build = read.pages.first
            /\ \A d \in q.mode : Delivered(Whole(q, d), read.pages.got[d], read.pages.at[d])
    /\ read.pc \in {"outgoing", "incoming", "returned", "cursor", "done"} => read.build # {}
    /\ read.pc = "done" => read.pages.at = NoPosition

ReaderInv == Readable /\ PageInv

\* A reader has one query.
LEMMA OneQuery ==
  ASSUME Readable, NEW pc, NEW kind, At(pc, kind)
  PROVE  /\ read.pc = pc /\ read.query = {Asked} /\ Asked.kind = kind /\ Asked \in Query
         /\ \A q \in read.query : q = Asked
BY DEF Readable, At, Asked

\* A query of pages, as it is asked.
LEMMA PageQueries ==
  ASSUME NEW q \in Query, q.kind = "page"
  PROVE  /\ q.anchor \in Vertex /\ q.types \subseteq RelType /\ q.mode \subseteq Directions
         /\ q.limit \in Nat \ {0}
BY ReadingAssumption DEF QueryType, Directions

\* The rows of a published build are rows, and told apart by their number.
LEMMA PublishedRows ==
  ASSUME NEW c \in Contents, NEW b \in Build
  PROVE  NumberedRows(c[b].rows) /\ c[b].rows \subseteq RowType /\ c[b] \in GraphType
<1>1. c \in [Build -> GraphType] /\ c[b] \in GraphType
  BY ReadingAssumption
<1>2. c[b].rows \subseteq RowType
  BY <1>1 DEF GraphType
<1>3. /\ \A r, s \in c[b].rows : r.id = s.id => r = s
      /\ IsFiniteSet(c[b].rows)
  BY ReadingAssumption
<1>4. \A r \in c[b].rows : r.id \in Nat \ {0}
  BY <1>2 DEF RowType
<1> QED BY <1>1, <1>2, <1>3, <1>4 DEF NumberedRows

\* So are those of a part of them.
LEMMA FewerAreNumbered ==
  ASSUME NEW S, NEW T, S \subseteq T, NumberedRows(T)
  PROVE  NumberedRows(S)
<1>1. IsFiniteSet(S)
  BY FS_Subset DEF NumberedRows
<1> QED BY <1>1 DEF NumberedRows

\* And those of a neighborhood.
LEMMA NeighborsNumbered ==
  ASSUME NEW c \in Contents, NEW b \in Build, NEW v, NEW d, NEW types
  PROVE  NumberedRows(Neighbors(c[b], v, d, types))
<1>1. Neighbors(c[b], v, d, types) \subseteq c[b].rows
  BY DEF Neighbors
<1> QED BY <1>1, PublishedRows, FewerAreNumbered

\* The reader begins with nothing delivered.
LEMMA ReaderBegins == ReadingInit => ReaderInv
<1> SUFFICES ASSUME ReadingInit PROVE ReaderInv
  OBVIOUS
<1>1. read = NoRead /\ content \in Contents /\ published = {} /\ pointer = {}
  BY DEF ReadingInit
<1>2. NoPages \in PagesType
  BY DEF NoPages, NoPosition, PagesType
<1>3. Readable
  BY <1>1, <1>2 DEF Readable, NoRead
<1>4. PageInv
  BY <1>1 DEF PageInv, NoRead
<1> QED BY <1>3, <1>4 DEF ReaderInv

\* FoldSteps that leave the reader's query, pin and pages alone.
LEMMA PagesStay ==
  ASSUME ReaderInv, Readable', read'.query = read.query, read'.build = read.build, read'.pages = read.pages,
         content' = content,
         \A q \in read.query : q.kind = "page" =>
            read'.pc \notin {"outgoing", "incoming", "returned", "cursor", "done"} \/ read'.pc = read.pc
  PROVE  PageInv'
<1>1. PinnedGraph' = PinnedGraph
  BY DEF PinnedGraph
<1>2. \A q, d : Whole(q, d)' = Whole(q, d)
  BY <1>1 DEF Whole
<1> QED BY <1>2 DEF ReaderInv, PageInv

PagePcs == {"outgoing", "incoming", "returned", "cursor", "done"}

\* A step of the reader alone that leaves its query, pin and pages alone.
Elsewhere ==
  /\ DOMAIN read' = DOMAIN read
  /\ read'.query = read.query /\ read'.build = read.build /\ read'.pages = read.pages
  /\ UNCHANGED <<content, published, pointer>>
  /\ \A q \in read.query : q.kind = "page" => read'.pc \notin PagePcs

\* Nothing is delivered by a step of another kind of read.
LEMMA ElsewhereStays ==
  ASSUME ReaderInv, Elsewhere
  PROVE  ReaderInv'
<1>1. Readable'
  BY DEF ReaderInv, Readable, Elsewhere
<1>2. PageInv'
  BY <1>1, PagesStay DEF Elsewhere, PagePcs
<1> QED BY <1>1, <1>2 DEF ReaderInv

\* What is not at a page has no page to keep.
LEMMA NotPages ==
  ASSUME ReaderInv, NEW pc, NEW kind, kind # "page", At(pc, kind)
  PROVE  \A q \in read.query : q.kind # "page"
BY DEF ReaderInv, Readable, At

\* The steps of paths, contexts, exports and diffs.
LEMMA OtherSteps ==
  ASSUME ReaderInv, ResolveName \/ Paths \/ Contexts \/ Export \/ Diff
  PROVE  ReaderInv'
<1>1. DOMAIN read = {"pc", "query", "build", "pages", "search", "context", "answer"}
  BY DEF ReaderInv, Readable
<1>3. CASE ResolveName
  <2>1. \A q \in read.query : q.kind # "page"
    BY <1>3, NotPages DEF ResolveName
  <2>2. Elsewhere
    BY <1>1, <1>3, <2>1 DEF ResolveName, Elsewhere
  <2> QED BY <2>2, ElsewhereStays
<1>4. CASE FindEndpoint("from", From, "to") \/ FindEndpoint("to", {Asked.to}, "search")
  <2>1. \A q \in read.query : q.kind # "page"
    BY <1>4, NotPages DEF FindEndpoint
  <2>2. Elsewhere
    BY <1>1, <1>4, <2>1 DEF FindEndpoint, Elsewhere, Exhausts, ReturnsPath
  <2> QED BY <2>2, ElsewhereStays
<1>5. CASE NextVertex
  <2>1. \A q \in read.query : q.kind # "page"
    BY <1>5, NotPages DEF NextVertex
  <2>2. Elsewhere
    BY <1>1, <1>5, <2>1 DEF NextVertex, Elsewhere, ReturnsPath
  <2> QED BY <2>2, ElsewhereStays
<1>6. CASE ReadPathPage
  <2>1. \A q \in read.query : q.kind # "page"
    BY <1>6, NotPages DEF ReadPathPage
  <2>2. PICK at \in read.search.at :
       LET limit == IF PageSize < read.search.rows + 1 THEN PageSize ELSE read.search.rows + 1
           rows == NeighborPage(PinnedGraph, at.vertex, at.direction, RelType, at.after, limit)
           s == FoldLeft(LAMBDA t, r : Visit(t, Other(r, at.direction), at),
                         [seen |-> read.search.seen, parents |-> read.search.parents,
                          queue |-> read.search.queue, verdict |-> "open"], rows)
           next == IF Len(rows) = limit THEN {[at EXCEPT !.after = Last(rows).id]}
                   ELSE IF at.direction = "outgoing"
                     THEN {[at EXCEPT !.direction = "incoming", !.after = 0]} ELSE {}
       IN  IF ~ Spend \/ Len(rows) > read.search.rows \/ s.verdict = "exhausted" THEN Exhausts
           ELSE IF s.verdict = "found" THEN ReturnsPath(PathTo(Asked.to, s.parents))
           ELSE read' = [read EXCEPT !.search.seen = s.seen, !.search.parents = s.parents,
                           !.search.queue = s.queue, !.search.at = next,
                           !.search.rows = @ - Len(rows), !.search.queries = @ - 1]
    BY <1>6 DEF ReadPathPage
  <2> DEFINE limit == IF PageSize < read.search.rows + 1 THEN PageSize ELSE read.search.rows + 1
             rows == NeighborPage(PinnedGraph, at.vertex, at.direction, RelType, at.after, limit)
             s == FoldLeft(LAMBDA t, r : Visit(t, Other(r, at.direction), at),
                         [seen |-> read.search.seen, parents |-> read.search.parents,
                          queue |-> read.search.queue, verdict |-> "open"], rows)
             next == IF Len(rows) = limit THEN {[at EXCEPT !.after = Last(rows).id]}
                   ELSE IF at.direction = "outgoing"
                     THEN {[at EXCEPT !.direction = "incoming", !.after = 0]} ELSE {}
  <2>3. IF ~ Spend \/ Len(rows) > read.search.rows \/ s.verdict = "exhausted" THEN Exhausts
           ELSE IF s.verdict = "found" THEN ReturnsPath(PathTo(Asked.to, s.parents))
           ELSE read' = [read EXCEPT !.search.seen = s.seen, !.search.parents = s.parents,
                           !.search.queue = s.queue, !.search.at = next,
                           !.search.rows = @ - Len(rows), !.search.queries = @ - 1]
    BY <2>2
  <2> HIDE DEF limit, rows, s, next
  <2>4. \/ Exhausts \/ ReturnsPath(PathTo(Asked.to, s.parents))
        \/ read' = [read EXCEPT !.search.seen = s.seen, !.search.parents = s.parents,
                           !.search.queue = s.queue, !.search.at = next,
                           !.search.rows = @ - Len(rows), !.search.queries = @ - 1]
    BY <2>3
  <2>5. /\ DOMAIN read' = DOMAIN read /\ read'.query = read.query /\ read'.build = read.build
        /\ read'.pages = read.pages
    <3>1. CASE Exhausts
      BY <1>1, <3>1 DEF Exhausts
    <3>2. CASE ReturnsPath(PathTo(Asked.to, s.parents))
      BY <1>1, <3>2 DEF ReturnsPath
    <3>3. CASE read' = [read EXCEPT !.search.seen = s.seen, !.search.parents = s.parents,
                           !.search.queue = s.queue, !.search.at = next,
                           !.search.rows = @ - Len(rows), !.search.queries = @ - 1]
      BY <1>1, <3>3
    <3> QED BY <2>4, <3>1, <3>2, <3>3
  <2>6. UNCHANGED <<content, published, pointer>>
    BY <1>6 DEF ReadPathPage
  <2>7. Elsewhere
    BY <2>1, <2>5, <2>6 DEF Elsewhere
  <2> QED BY <2>7, ElsewhereStays
<1>7. CASE PathFails
  <2>1. read'.pc = "exhausted"
    BY <1>1, <1>7 DEF PathFails, Exhausts
  <2>2. Elsewhere
    BY <1>1, <1>7, <2>1 DEF PathFails, Elsewhere, Exhausts, PagePcs
  <2> QED BY <2>2, ElsewhereStays
<1>8. CASE Seed
  <2>1. \A q \in read.query : q.kind # "page"
    BY <1>8, NotPages DEF Seed
  <2>2. Elsewhere
    BY <1>1, <1>8, <2>1 DEF Seed, Elsewhere
  <2> QED BY <2>2, ElsewhereStays
<1>9. CASE Expand
  <2>1. \A q \in read.query : q.kind # "page"
    BY <1>9, NotPages DEF Expand
  <2>2. Elsewhere
    BY <1>1, <1>9, <2>1 DEF Expand, Elsewhere
  <2> QED BY <2>2, ElsewhereStays
<1>10. CASE Shorten
  <2>1. \A q \in read.query : q.kind # "page"
    BY <1>10, NotPages DEF Shorten
  <2>2. Elsewhere
    BY <1>1, <1>10, <2>1 DEF Shorten, Elsewhere
  <2> QED BY <2>2, ElsewhereStays
<1>11. CASE ReturnContext
  <2>1. \A q \in read.query : q.kind # "page"
    BY <1>11, NotPages DEF ReturnContext
  <2>2. Elsewhere
    BY <1>1, <1>11, <2>1 DEF ReturnContext, Elsewhere
  <2> QED BY <2>2, ElsewhereStays
<1>12. CASE Export
  <2>1. \A q \in read.query : q.kind # "page"
    BY <1>12, NotPages DEF Export
  <2>2. Elsewhere
    BY <1>1, <1>12, <2>1 DEF Export, Elsewhere
  <2> QED BY <2>2, ElsewhereStays
<1>13. CASE Diff
  <2>1. \A q \in read.query : q.kind # "page"
    BY <1>13, NotPages DEF Diff
  <2>2. Elsewhere
    BY <1>1, <1>13, <2>1 DEF Diff, Elsewhere
  <2> QED BY <2>2, ElsewhereStays
<1> QED BY <1>3, <1>4, <1>5, <1>6, <1>7, <1>8, <1>9, <1>10, <1>11, <1>12, <1>13 DEF Paths, Contexts

\* Publication changes no build that is published.
LEMMA PointerMoves ==
  ASSUME ReaderInv, NEW b \in Build, MovePointer(b)
  PROVE  ReaderInv'
<1>1. Readable'
  BY DEF ReaderInv, Readable, MovePointer
<1>2. PageInv'
  BY <1>1, PagesStay DEF MovePointer
<1> QED BY <1>1, <1>2 DEF ReaderInv

\* A read begins and ends with no page.
LEMMA BeginsAndEnds ==
  ASSUME ReaderInv, (\E q \in Query : Ask(q)) \/ Finish
  PROVE  ReaderInv'
<1>1. CASE Finish
  <2>1. read' = NoRead /\ UNCHANGED <<content, published, pointer>>
    BY <1>1 DEF Finish
  <2>2. NoPages \in PagesType
    BY DEF NoPages, NoPosition, PagesType
  <2>3. Readable'
    BY <2>1, <2>2 DEF Readable, ReaderInv, NoRead
  <2>4. PageInv'
    BY <2>1 DEF PageInv, NoRead
  <2> QED BY <2>3, <2>4 DEF ReaderInv
<1>2. CASE \E q \in Query : Ask(q)
  <2>1. PICK q \in Query : Ask(q)
    BY <1>2
  <2>2. /\ read' = [NoRead EXCEPT !.query = {q}, !.pc = IF q.kind = "path" /\ q.named THEN "name" ELSE "pin"]
        /\ UNCHANGED <<content, published, pointer>>
    BY <2>1 DEF Ask
  <2>3. /\ read'.query = {q} /\ read'.build = {} /\ read'.pages = NoPages /\ read'.pc \in {"name", "pin"}
        /\ DOMAIN read' = {"pc", "query", "build", "pages", "search", "context", "answer"}
    BY <2>2 DEF NoRead
  <2>4. NoPages \in PagesType
    BY DEF NoPages, NoPosition, PagesType
  <2>5. Readable'
    BY <2>2, <2>3, <2>4 DEF Readable, ReaderInv
  <2>6. PageInv'
    BY <2>3 DEF PageInv
  <2> QED BY <2>5, <2>6 DEF ReaderInv
<1> QED BY <1>1, <1>2

\* A first page pins a build; a continuation pins the same one.
LEMMA Pinned ==
  ASSUME ReaderInv, PinBuild
  PROVE  ReaderInv'
<1>1. /\ Readable /\ PageInv /\ read.pc = "pin" /\ UNCHANGED <<content, published, pointer>>
      /\ DOMAIN read = {"pc", "query", "build", "pages", "search", "context", "answer"}
      /\ read.pages \in PagesType
  BY DEF ReaderInv, Readable, PinBuild
<1>2. PICK q \in read.query :
        IF PinOf(q) = {} THEN read' = [read EXCEPT !.pc = "refused"]
        ELSE read' = [read EXCEPT !.pc = Starts(q), !.build = PinOf(q),
                       !.pages.first = IF @ = {} THEN PinOf(q) ELSE @,
                       !.pages.at = IF q.kind = "page" /\ read.build = {} THEN Opening(q) ELSE @,
                       !.search.queries = IF q.kind = "path" THEN @ - 2 ELSE @]
  BY DEF PinBuild
<1>3. q \in Query /\ read.query = {q}
  BY <1>1 DEF Readable
<1>4. CASE PinOf(q) = {}
  <2>1. Elsewhere
    BY <1>1, <1>2, <1>4 DEF Elsewhere, PagePcs
  <2> QED BY <2>1, ElsewhereStays
<1>5. CASE PinOf(q) # {}
  <2> DEFINE b == PinOf(q)
  <2>1. b \subseteq published /\ (read.build # {} => b = read.build)
    BY <1>1, <1>5 DEF PinOf, Selected, Readable
  <2>2. Opening(q) \in [outgoing : SUBSET Nat, incoming : SUBSET Nat]
    BY DEF Opening
  <2>3. /\ read'.query = {q} /\ read'.build = b /\ read'.pc = Starts(q)
        /\ DOMAIN read' = DOMAIN read
        /\ read'.pages = [at |-> IF q.kind = "page" /\ read.build = {} THEN Opening(q) ELSE read.pages.at,
                          got |-> read.pages.got,
                          first |-> IF read.pages.first = {} THEN b ELSE read.pages.first]
    <3> HIDE DEF b
    <3>1. read' = [read EXCEPT !.pc = Starts(q), !.build = b,
                       !.pages.first = IF @ = {} THEN b ELSE @,
                       !.pages.at = IF q.kind = "page" /\ read.build = {} THEN Opening(q) ELSE @,
                       !.search.queries = IF q.kind = "path" THEN @ - 2 ELSE @]
      BY <1>2, <1>5 DEF b
    <3> QED BY <1>1, <1>3, <3>1 DEF PagesType
  <2>4. Readable'
    <3>1. read'.pages \in PagesType
      BY <1>1, <2>1, <2>2, <2>3 DEF PagesType, Readable
    <3> QED BY <1>1, <1>3, <2>1, <2>3, <3>1 DEF Readable
  <2>5. PageInv'
    <3> SUFFICES ASSUME q.kind = "page"
                 PROVE  /\ b = read'.pages.first
                        /\ \A d \in q.mode : Delivered(Whole(q, d)', read'.pages.got[d], read'.pages.at[d])
                        /\ read'.pc # "done"
      <4>1. Starts(q) = "outgoing" \/ q.kind # "page"
        BY DEF Starts
      <4> QED BY <2>1, <2>3, <1>5 DEF PageInv
    <3>0. Starts(q) = "outgoing"
      BY DEF Starts
    <3>1. CASE read.build = {}
      <4>1. read.pages = NoPages
        BY <1>1, <1>3, <3>1 DEF PageInv
      <4>2. \A d \in q.mode : read'.pages.got[d] = <<>> /\ read'.pages.at[d] = {0}
        BY <4>1, <3>1, <2>3, <1>3, PageQueries DEF NoPages, Opening, Directions
      <4>3. \A d \in q.mode : Delivered(Whole(q, d)', <<>>, {0})
        <5> SUFFICES ASSUME NEW d \in q.mode PROVE Delivered(Whole(q, d)', <<>>, {0})
          OBVIOUS
        <5>1. NumberedRows(Neighbors(PinnedGraph, q.anchor, d, q.types))'
          <6> DEFINE o == CHOOSE o \in read'.build : TRUE
          <6>1. o \in Build /\ content' \in Contents
            BY <2>3, <2>4, <1>5 DEF Readable
          <6>2. PinnedGraph' = content'[o]
            BY DEF PinnedGraph
          <6> HIDE DEF o
          <6>3. NumberedRows(Neighbors(content'[o], q.anchor, d, q.types))
            BY <6>1, NeighborsNumbered
          <6> QED BY <6>2, <6>3
        <5>2. Whole(q, d)' \in Seq(Neighbors(PinnedGraph, q.anchor, d, q.types)')
          BY <5>1, InOrderIsInOrder DEF Whole, IsInOrder
        <5> DEFINE w == Whole(q, d)'
        <5>3. Len(w) \in Nat /\ SubSeq(w, 1, 0) = <<>>
          BY <5>2
        <5> HIDE DEF w
        <5>4. 0 \in 0 .. Len(w)
          BY <5>3
        <5> QED BY <5>3, <5>4 DEF w, Delivered
      <4>4. b = read'.pages.first
        BY <4>1, <2>3, <1>5 DEF NoPages
      <4> QED BY <4>2, <4>3, <4>4, <3>0, <2>3
    <3>2. CASE read.build # {}
      <4>1. b = read.build /\ read.build = read.pages.first
        BY <1>1, <1>3, <2>1, <3>2 DEF PageInv
      <4>2. PinnedGraph' = PinnedGraph
        BY <4>1, <2>3, <1>1 DEF PinnedGraph
      <4>3. \A d : Whole(q, d)' = Whole(q, d)
        BY <4>2 DEF Whole
      <4>4. \A d \in q.mode : Delivered(Whole(q, d), read.pages.got[d], read.pages.at[d])
        BY <1>1, <1>3, <3>2 DEF PageInv
      <4>5. read'.pages = [at |-> read.pages.at, got |-> read.pages.got, first |-> read.pages.first]
        BY <2>3, <3>2, <4>1, <1>5
      <4> QED BY <4>1, <4>3, <4>4, <4>5, <3>0, <2>3
    <3> QED BY <3>1, <3>2
  <2> QED BY <2>4, <2>5 DEF ReaderInv
<1> QED BY <1>4, <1>5

\* A page is returned, and its cursor comes back.
LEMMA ReturnsAndContinues ==
  ASSUME ReaderInv, ReturnPage \/ \E q \in Query : Continue(q)
  PROVE  ReaderInv'
<1>1. /\ Readable /\ PageInv
      /\ DOMAIN read = {"pc", "query", "build", "pages", "search", "context", "answer"}
  BY DEF ReaderInv, Readable
<1>2. CASE ReturnPage
  <2>1. /\ read' = [read EXCEPT !.pc = IF read.pages.at = NoPosition THEN "done" ELSE "cursor"]
        /\ UNCHANGED <<content, published, pointer>> /\ read.pc = "returned"
    BY <1>2 DEF ReturnPage, At
  <2>2. /\ DOMAIN read' = DOMAIN read /\ read'.query = read.query /\ read'.build = read.build
        /\ read'.pages = read.pages
        /\ read'.pc = IF read.pages.at = NoPosition THEN "done" ELSE "cursor"
    BY <1>1, <2>1
  <2>3. Readable'
    BY <1>1, <2>1, <2>2 DEF Readable
  <2>4. PinnedGraph' = PinnedGraph
    BY <2>1, <2>2 DEF PinnedGraph
  <2>5. \A q, d : Whole(q, d)' = Whole(q, d)
    BY <2>4 DEF Whole
  <2>6. PageInv'
    BY <1>1, <2>1, <2>2, <2>5 DEF PageInv
  <2> QED BY <2>3, <2>6 DEF ReaderInv
<1>3. CASE \E q \in Query : Continue(q)
  <2>1. PICK q \in Query : Continue(q)
    BY <1>3
  <2>2. /\ read' = [read EXCEPT !.pc = IF Agrees(q) THEN "pin" ELSE "refused"]
        /\ UNCHANGED <<content, published, pointer>>
    BY <2>1 DEF Continue
  <2>3. Elsewhere
    BY <1>1, <2>2 DEF Elsewhere, PagePcs
  <2> QED BY <2>3, ElsewhereStays
<1> QED BY <1>2, <1>3

\* One page of one direction continues what was delivered.
LEMMA PageDelivered ==
  ASSUME ReaderInv, NEW direction \in Directions, NEW next \in {"incoming", "returned"},
         read.pc \in {"outgoing", "incoming"},
         DirectionalPage(direction, next)
  PROVE  ReaderInv'
<1>0. PICK q : q = Asked
  OBVIOUS
<1> DEFINE position == read.pages.at[direction]
           rows == NeighborPage(PinnedGraph, q.anchor, direction, q.types,
                              CHOOSE k \in position : TRUE, q.limit + 1)
           more == SubSeq(rows, 1, IF Len(rows) < q.limit THEN Len(rows) ELSE q.limit)
<1>1. /\ Readable /\ PageInv
      /\ DOMAIN read = {"pc", "query", "build", "pages", "search", "context", "answer"}
      /\ read.pages \in PagesType
  BY DEF ReaderInv, Readable
<1>2. /\ read.query = {q} /\ q.kind = "page" /\ q \in Query
  <2>1. At(direction, "page")
    BY DEF DirectionalPage
  <2> QED BY <1>0, <1>1, <2>1, OneQuery
<1>3. /\ UNCHANGED <<content, published, pointer>>
      /\ IF position = {} \/ q.types = {}
           THEN read' = [read EXCEPT !.pc = next, !.pages.at[direction] = {}]
           ELSE read' = [read EXCEPT !.pc = next,
                  !.pages.at[direction] = PageEnd(rows, q.limit),
                  !.pages.got[direction] = @ \o more]
  BY <1>0 DEF DirectionalPage
<1>4. /\ q.anchor \in Vertex /\ q.types \subseteq RelType /\ q.mode \subseteq Directions
      /\ q.limit \in Nat \ {0}
  BY <1>2, PageQueries
<1>5. /\ read.build # {} /\ read.build = read.pages.first
      /\ \A d \in q.mode : Delivered(Whole(q, d), read.pages.got[d], read.pages.at[d])
  BY <1>1, <1>2 DEF PageInv
<1>6. PICK b \in Build : PinnedGraph = content[b] /\ content \in Contents
  BY <1>1, <1>5 DEF PinnedGraph, Readable
<1> DEFINE S(d) == Neighbors(PinnedGraph, q.anchor, d, q.types)
<1>7. \A d : NumberedRows(S(d))
  BY <1>6, NeighborsNumbered
<1>8. CASE position = {} \/ q.types = {}
  <2>1. read' = [read EXCEPT !.pc = next, !.pages.at[direction] = {}]
    BY <1>3, <1>8
  <2>2. /\ DOMAIN read' = DOMAIN read /\ read'.query = read.query /\ read'.build = read.build
        /\ read'.pc = next
        /\ read'.pages = [read.pages EXCEPT !.at[direction] = {}]
    BY <1>1, <2>1
  <2>3. /\ read'.pages \in PagesType /\ read'.pages.first = read.pages.first
        /\ \A d \in Directions : /\ read'.pages.got[d] = read.pages.got[d]
                                 /\ read'.pages.at[d] = IF d = direction THEN {} ELSE read.pages.at[d]
    BY <1>1, <2>2 DEF PagesType, Directions
  <2>4. Readable'
    BY <1>1, <1>3, <2>2, <2>3 DEF Readable
  <2>5. \A d \in q.mode : Delivered(Whole(q, d), read'.pages.got[d], read'.pages.at[d])
    <3> SUFFICES ASSUME NEW d \in q.mode PROVE Delivered(Whole(q, d), read'.pages.got[d], read'.pages.at[d])
      OBVIOUS
    <3>1. CASE d # direction \/ position = {}
      BY <3>1, <2>3, <1>4, <1>5
    <3>2. CASE d = direction /\ position # {}
      <4>1. q.types = {}
        BY <1>8, <3>2
      <4>2. S(d) = {}
        BY <4>1 DEF Neighbors
      <4>3. IsInOrder(InOrder(S(d)), {})
        BY <4>2, <1>7, InOrderIsInOrder
      <4>4. InOrder(S(d)) = <<>>
        BY <4>3 DEF IsInOrder
      <4>5. Delivered(<<>>, read.pages.got[d], position)
        BY <1>5, <3>2, <4>4 DEF Whole
      <4>6. Len(<<>>) = 0 /\ SubSeq(<<>>, 1, 0) = <<>>
        OBVIOUS
      <4>7. Delivered(<<>>, read.pages.got[d], {})
        BY <4>5, <4>6 DEF Delivered
      <4> QED BY <4>4, <4>7, <2>3, <3>2, <1>4 DEF Whole
    <3> QED BY <3>1, <3>2
  <2>6. PinnedGraph' = PinnedGraph
    BY <1>3, <2>2 DEF PinnedGraph
  <2>7. \A d : Whole(q, d)' = Whole(q, d)
    BY <2>6 DEF Whole
  <2>8. PageInv'
    BY <2>2, <2>3, <2>5, <2>7, <1>2, <1>5 DEF PageInv
  <2> QED BY <2>4, <2>8 DEF ReaderInv
<1>9. CASE position # {} /\ q.types # {}
  <2>1. read' = [read EXCEPT !.pc = next, !.pages.at[direction] = PageEnd(rows, q.limit),
                             !.pages.got[direction] = @ \o more]
    BY <1>3, <1>9
  <2> HIDE DEF rows, more, position
  <2>2. /\ DOMAIN read' = DOMAIN read /\ read'.query = read.query /\ read'.build = read.build
        /\ read'.pc = next
        /\ read'.pages = [read.pages EXCEPT !.at[direction] = PageEnd(rows, q.limit),
                                            !.got[direction] = @ \o more]
    BY <1>1, <2>1
  <2>3. PICK k \in Nat : position = {k} \/ direction \notin q.mode
    <3>1. position \subseteq Nat
      BY <1>1 DEF position, PagesType, Directions
    <3>2. direction \in q.mode => Delivered(Whole(q, direction), read.pages.got[direction], position)
      BY <1>5 DEF position
    <3>3. direction \in q.mode => \E l : position = {l}
      BY <3>2, <1>9 DEF Delivered
    <3> QED BY <3>1, <3>3
  <2> DEFINE j == CHOOSE l \in position : TRUE
  <2>4. j \in Nat /\ (direction \in q.mode => position = {j})
    BY <1>9, <2>3, <1>1 DEF PagesType, Directions, position
  <2> HIDE DEF j
  <2>5. rows = FirstRows({r \in S(direction) : r.id > j}, q.limit + 1)
    BY DEF rows, NeighborPage, j
  <2>6. /\ rows \in Seq(RowType) /\ more \in Seq(RowType)
        /\ PageEnd(rows, q.limit) \in SUBSET Nat
    <3> DEFINE R == {r \in S(direction) : r.id > j}
               lim == q.limit + 1
    <3>1. NumberedRows(R)
      BY <1>7, FewerAreNumbered
    <3>2. IsInOrder(InOrder(R), R)
      BY <3>1, InOrderIsInOrder
    <3>3. R \subseteq RowType
      BY <1>6, PublishedRows DEF Neighbors
    <3> HIDE DEF R
    <3>4. InOrder(R) \in Seq(RowType)
      BY <3>2, <3>3 DEF IsInOrder
    <3>5. lim \in Nat
      BY <1>4
    <3>6. rows = SubSeq(InOrder(R), 1, IF Len(InOrder(R)) < lim THEN Len(InOrder(R)) ELSE lim)
      BY <2>5 DEF FirstRows, R
    <3> HIDE DEF lim
    <3>7. rows \in Seq(RowType)
      BY <3>4, <3>5, <3>6
    <3>8. more \in Seq(RowType)
      BY <3>7, <1>4 DEF more
    <3>9. PageEnd(rows, q.limit) \in SUBSET Nat
      <4>1. Len(rows) > q.limit => rows[q.limit] \in RowType
        BY <3>7, <1>4
      <4> QED BY <4>1 DEF PageEnd, RowType
    <3> QED BY <3>7, <3>8, <3>9
  <2>7. /\ read'.pages \in PagesType /\ read'.pages.first = read.pages.first
        /\ \A d \in Directions :
             /\ read'.pages.got[d] = IF d = direction THEN read.pages.got[d] \o more ELSE read.pages.got[d]
             /\ read'.pages.at[d] = IF d = direction THEN PageEnd(rows, q.limit) ELSE read.pages.at[d]
    <3>1. read.pages.got[direction] \o more \in Seq(RowType)
      <4>1. read.pages.got[direction] \in Seq(RowType)
        BY <1>1 DEF PagesType, Directions
      <4> QED BY <4>1, <2>6
    <3>2. direction = "outgoing" \/ direction = "incoming"
      BY DEF Directions
    <3> DEFINE g == read.pages.got[direction] \o more
               e == PageEnd(rows, q.limit)
    <3>3. read'.pages = [read.pages EXCEPT !.at[direction] = e, !.got[direction] = g]
      BY <2>2
    <3>4. g \in Seq(RowType) /\ e \in SUBSET Nat
      BY <2>6, <3>1
    <3>5. \A d \in Directions :
             /\ read'.pages.got[d] = IF d = direction THEN g ELSE read.pages.got[d]
             /\ read'.pages.at[d] = IF d = direction THEN e ELSE read.pages.at[d]
      <4> HIDE DEF g, e
      <4> QED BY <1>1, <3>2, <3>3 DEF PagesType, Directions
    <3>6. read'.pages \in PagesType /\ read'.pages.first = read.pages.first
      <4> HIDE DEF g, e
      <4> DEFINE A == [read.pages.at EXCEPT ![direction] = e]
                 G == [read.pages.got EXCEPT ![direction] = g]
      <4>1. A \in [outgoing : SUBSET Nat, incoming : SUBSET Nat]
        BY <1>1, <3>2, <3>4 DEF PagesType
      <4>2. G \in [outgoing : Seq(RowType), incoming : Seq(RowType)]
        BY <1>1, <3>2, <3>4 DEF PagesType
      <4>3. read'.pages = [read.pages EXCEPT !.at = A, !.got = G]
        BY <1>1, <3>3 DEF PagesType
      <4> HIDE DEF A, G
      <4> QED BY <1>1, <4>1, <4>2, <4>3 DEF PagesType
    <3> QED BY <3>5, <3>6
  <2>8. Readable'
    BY <1>1, <1>3, <2>2, <2>7 DEF Readable
  <2>9. \A d \in q.mode : Delivered(Whole(q, d), read'.pages.got[d], read'.pages.at[d])
    <3> SUFFICES ASSUME NEW d \in q.mode PROVE Delivered(Whole(q, d), read'.pages.got[d], read'.pages.at[d])
      OBVIOUS
    <3>1. CASE d # direction
      BY <3>1, <2>7, <1>4, <1>5
    <3>2. CASE d = direction
      <4>1. Delivered(InOrder(S(d)), read.pages.got[d], {j})
        BY <1>5, <2>4, <3>2 DEF Whole, position
      <4>2. Delivered(InOrder(S(d)), read.pages.got[d] \o more, PageEnd(rows, q.limit))
        BY <4>1, <1>4, <1>7, <2>5, <3>2, OnePage DEF more
      <4> QED BY <4>2, <2>7, <3>2, <1>4 DEF Whole
    <3> QED BY <3>1, <3>2
  <2>10. PinnedGraph' = PinnedGraph
    BY <1>3, <2>2 DEF PinnedGraph
  <2>11. \A d : Whole(q, d)' = Whole(q, d)
    BY <2>10 DEF Whole
  <2>12. PageInv'
    BY <2>2, <2>7, <2>9, <2>11, <1>2, <1>5 DEF PageInv
  <2> QED BY <2>8, <2>12 DEF ReaderInv
<1> QED BY <1>8, <1>9

\* Every step of the reader.
LEMMA ReaderSteps == ReaderInv /\ [ReadingNext]_readingVars => ReaderInv'
<1> SUFFICES ASSUME ReaderInv, [ReadingNext]_readingVars PROVE ReaderInv'
  OBVIOUS
<1>1. CASE UNCHANGED readingVars
  BY <1>1 DEF ReaderInv, Readable, PageInv, Whole, PinnedGraph, readingVars
<1>2. CASE Pages
  <2>1. CASE DirectionalPage("outgoing", "incoming")
    BY <2>1, PageDelivered DEF Directions, DirectionalPage, At
  <2>2. CASE DirectionalPage("incoming", "returned")
    BY <2>2, PageDelivered DEF Directions, DirectionalPage, At
  <2> QED BY <1>2, <2>1, <2>2, ReturnsAndContinues DEF Pages
<1> QED BY <1>1, <1>2, PointerMoves, BeginsAndEnds, Pinned, OtherSteps DEF ReadingNext

\* What the invariant is for.
LEMMA ReaderInvShows == ReaderInv => PagesAreTheNeighborhood
<1> SUFFICES ASSUME ReaderInv, NEW q \in read.query, q.kind = "page", read.build # {}
             PROVE  /\ read.build = read.pages.first
                    /\ \A d \in q.mode :
                         LET whole == InOrder(Neighbors(PinnedGraph, q.anchor, d, q.types)) IN
                         /\ IsPrefix(read.pages.got[d], whole)
                         /\ read.pc = "done" => read.pages.got[d] = whole
  BY DEF PagesAreTheNeighborhood
<1>1. /\ Readable /\ q \in Query
      /\ read.build = read.pages.first
      /\ \A d \in q.mode : Delivered(Whole(q, d), read.pages.got[d], read.pages.at[d])
      /\ read.pc = "done" => read.pages.at = NoPosition
  BY DEF ReaderInv, PageInv, Readable
<1>2. ASSUME NEW d \in q.mode
      PROVE  IsPrefix(read.pages.got[d], Whole(q, d)) /\ (read.pc = "done" => read.pages.got[d] = Whole(q, d))
  <2> DEFINE w == Whole(q, d)
             got == read.pages.got[d]
  <2>1. PICK b \in Build : PinnedGraph = content[b] /\ content \in Contents
    BY <1>1 DEF PinnedGraph, Readable
  <2>2. IsInOrder(w, Neighbors(PinnedGraph, q.anchor, d, q.types))
    BY <2>1, NeighborsNumbered, InOrderIsInOrder DEF Whole
  <2>3. \E S : w \in Seq(S)
    BY <2>2 DEF IsInOrder
  <2> HIDE DEF w, got
  <2>4. PICK p \in 0 .. Len(w) :
          got = SubSeq(w, 1, p) /\ (read.pages.at[d] = {} => p = Len(w))
    BY <1>1 DEF Delivered, w, got
  <2>5. read.pc = "done" => read.pages.at[d] = {}
    BY <1>1, PageQueries DEF NoPosition, Directions
  <2>6. PICK S : w \in Seq(S)
    BY <2>3
  <2>7. Len(w) \in Nat /\ got \in Seq(S) /\ Len(got) = p /\ SubSeq(got, 1, p) = got /\ SubSeq(w, 1, Len(w)) = w
    BY <2>4, <2>6
  <2>8. IsPrefix(got, w)
    <3>1. Len(got) <= Len(w) /\ SubSeq(got, 1, Len(got)) = SubSeq(w, 1, Len(got))
      <4>0. \A x, y \in Int : x \in 0 .. y => x <= y
        OBVIOUS
      <4>1. p <= Len(w) /\ Len(got) = p
        <5> DEFINE nn == Len(w)
        <5>1. nn \in Nat /\ p \in 0 .. nn /\ Len(got) = p
          BY <2>4, <2>7
        <5> HIDE DEF nn
        <5>2. p <= nn
          BY <5>1
        <5> QED BY <5>1, <5>2 DEF nn
      <4>2. SubSeq(got, 1, Len(got)) = got /\ SubSeq(w, 1, Len(got)) = got
        BY <2>4, <2>7
      <4> QED BY <4>1, <4>2
    <3> QED BY <3>1 DEF IsPrefix
  <2>9. read.pc = "done" => got = w
    BY <2>4, <2>5, <2>7
  <2> QED BY <2>8, <2>9 DEF w, got
<1> QED BY <1>1, <1>2 DEF Whole

\* Paging delivers the whole neighborhood of the pinned build, each row once and
\* in order, whatever is published meanwhile (directional_page,
\* PreparedNeighborhood::read).
THEOREM PagesDeliverTheNeighborhood == ReadingSpec => []PagesAreTheNeighborhood
<1>1. ReaderInv /\ [ReadingNext]_readingVars => ReaderInv'
  BY ReaderSteps
<1> QED BY <1>1, ReaderBegins, ReaderInvShows, PTL DEF ReadingSpec

-----------------------------------------------------------------------------
(* Federation: what packets are made of.                                   *)

More(p, grant, n, got, r) == Append(got, Project(p, n, r, Allowed(p, grant, n)))
Fill(p, grant, n, got, r) ==
  LET more == More(p, grant, n, got, r)
  IN  IF Len(got) < Limit /\ Chars(more) <= MaxChars THEN more ELSE got

\* How the records of a packet are filled in.
LEMMA Filling ==
  ASSUME NEW p, NEW n, NEW grant, NEW R, Matching(p, grant, n) \in Seq(R), NEW T, <<>> \in T,
         \A got \in T, r \in R : Fill(p, grant, n, got, r) \in T
  PROVE  LET seq == Matching(p, grant, n)
             m == Len(seq)
             G == [x \in T \X (1 .. m) |-> Fill(p, grant, n, x[1], seq[x[2]])]
         IN  \E h : Chain(h, G, <<>>, m, T) /\ ContextPacket(p, grant, n).records = h[m]
<1> DEFINE seq == Matching(p, grant, n)
           m == Len(seq)
           G == [x \in T \X (1 .. m) |-> Fill(p, grant, n, x[1], seq[x[2]])]
           Rec(f) == f = [s \in SUBSET DOMAIN seq |-> 
                            IF s = {} THEN <<>> ELSE Fill(p, grant, n, f[s \ {Max(s)}], seq[Max(s)])]
           f == CHOOSE f : Rec(f)
<1>1. m \in Nat /\ DOMAIN seq = 1 .. m /\ \A i \in 1 .. m : seq[i] \in R
  OBVIOUS
<1>2. ContextPacket(p, grant, n).records = f[DOMAIN seq]
  BY DEF ContextPacket, FoldLeft, MapThenFoldSet, Fill, More
<1>3. G \in FoldSteps(T, m)
  BY <1>1 DEF FoldSteps
<1> HIDE DEF m, seq
<1>4. \A t \in T, i \in 1 .. m : G[<<t, i>>] = Fill(p, grant, n, t, seq[i])
  OBVIOUS
<1> HIDE DEF G
<1>5. \E g : Rec(g)
  <2>0. PICK g : IsFold(g, G, <<>>, m, T)
    BY <1>1, <1>3, FoldExists
  <2>1. g \in [SUBSET (1 .. m) -> T] /\ \A s \in SUBSET (1 .. m) : g[s] = Round(g, G, <<>>, s)
    BY <2>0 DEF IsFold
  <2>2. ASSUME NEW s \in SUBSET (1 .. m), s # {}
        PROVE  G[<<g[s \ {Max(s)}], Max(s)>>] = Fill(p, grant, n, g[s \ {Max(s)}], seq[Max(s)])
    <3>1. Max(s) \in s
      BY <1>1, <2>2, GreatestIndex
    <3>2. g[s \ {Max(s)}] \in T /\ Max(s) \in 1 .. m
      BY <3>1, <2>1
    <3> QED BY <3>2, <1>4
  <2>3. \A s \in SUBSET (1 .. m) : g[s] = IF s = {} THEN <<>> ELSE Fill(p, grant, n, g[s \ {Max(s)}], seq[Max(s)])
    BY <2>1, <2>2 DEF Round
  <2>4. g = [s \in SUBSET (1 .. m) |-> g[s]]
    BY <2>1
  <2> QED BY <1>1, <2>3, <2>4
<1>6. Rec(f)
  BY <1>5
<1> HIDE DEF f
<1>7. \A s \in SUBSET (1 .. m) : f[s] = IF s = {} THEN <<>> ELSE Fill(p, grant, n, f[s \ {Max(s)}], seq[Max(s)])
  BY <1>1, <1>6
<1>8. ASSUME NEW s \in SUBSET (1 .. m), s # {}, f[s \ {Max(s)}] \in T
      PROVE  f[s] = G[<<f[s \ {Max(s)}], Max(s)>>]
  <2>1. Max(s) \in 1 .. m
    BY <1>1, <1>8, GreatestIndex
  <2> QED BY <1>4, <1>7, <1>8, <2>1
<1>9. f[{}] = <<>>
  BY <1>7
<1>a. FoldFollows(f, G, <<>>, m, T)
  BY <1>8, <1>9 DEF FoldFollows
<1>10. \E h : Chain(h, G, <<>>, m, T) /\ h[m] = f[1 .. m]
  BY <1>1, <1>3, <1>a, FoldChain
<1> QED BY <1>1, <1>2, <1>10 DEF m, seq, G

Eligibles(p, grant, n) == {r \in Knowledge[p][n] : Eligible(p, grant, r) /\ r.score > 0}

\* What is known of the records of a generation.
LEMMA GenerationFacts ==
  ASSUME NEW p \in Provider, NEW n \in DOMAIN Knowledge[p]
  PROVE  /\ Knowledge[p][n] \subseteq KnowledgeType /\ IsFiniteSet(Knowledge[p][n])
         /\ \A r \in Knowledge[p][n] : r.id \in Nat /\ r.score \in Nat /\ r.size \in Nat
         /\ \A r, s \in Knowledge[p][n] : r.id = s.id => r = s
<1>1. Knowledge[p] \in Seq(SUBSET KnowledgeType)
  BY FederationAssumption
<1>2. Knowledge[p][n] \subseteq KnowledgeType
  BY <1>1
<1>3. IsFiniteSet(Knowledge[p][n]) /\ \A r, s \in Knowledge[p][n] : r.id = s.id => r = s
  BY FederationAssumption
<1> QED BY <1>2, <1>3 DEF KnowledgeType

\* What matches, the best first.
LEMMA MatchingFacts ==
  ASSUME NEW p \in Provider, NEW n \in DOMAIN Knowledge[p], NEW grant
  PROVE  LET s == Matching(p, grant, n)
             S == Eligibles(p, grant, n)
         IN  /\ s \in Seq(S) /\ IsFiniteSet(S) /\ Cardinality(S) \in Nat /\ Len(s) = Cardinality(S)
             /\ \A i, j \in 1 .. Len(s) : s[i] = s[j] => i = j
<1> DEFINE S == Eligibles(p, grant, n)
           B == {x \in S \X S : \/ x[1].score > x[2].score
                                \/ x[1].score = x[2].score /\ x[1].id < x[2].id}
<1>1. IsFiniteSet(S) /\ (\A r \in S : r.id \in Nat /\ r.score \in Nat) /\ \A r, s \in S : r.id = s.id => r = s
  BY GenerationFacts, FS_Subset DEF Eligibles
<1> HIDE DEF S
<1>2. Sorts(B, S)
  <2>1. \A x \in S : <<x, x>> \notin B
    BY <1>1
  <2>2. \A x, y \in S : x # y => <<x, y>> \in B \/ <<y, x>> \in B
    BY <1>1
  <2>3. \A x, y, z \in S : <<x, y>> \in B /\ <<y, z>> \in B => <<x, z>> \in B
    BY <1>1
  <2> QED BY <2>1, <2>2, <2>3 DEF Sorts
<1>3. Matching(p, grant, n) = RankedBy(S, B)
  <2>1. ASSUME NEW x \in S
        PROVE  {y \in S : y.score > x.score \/ (y.score = x.score /\ y.id < x.id)} = Below(x, S, B)
    BY DEF Below
  <2>2. ASSUME NEW k \in 1 .. Cardinality(S)
        PROVE (CHOOSE x \in S : Cardinality({y \in S : y.score > x.score \/ (y.score = x.score /\ y.id < x.id)}) = k - 1)
                = (CHOOSE x \in S : Cardinality(Below(x, S, B)) = k - 1)
    <3> DEFINE Q(x) == Cardinality({y \in S : y.score > x.score \/ (y.score = x.score /\ y.id < x.id)}) = k - 1
               T(x) == Cardinality(Below(x, S, B)) = k - 1
    <3>1. \A x \in S : Q(x) <=> T(x)
      BY <2>1
    <3> HIDE DEF Q, T
    <3>2. (CHOOSE x \in S : Q(x)) = (CHOOSE x \in S : T(x))
      BY <3>1
    <3> QED BY <3>2 DEF Q, T
  <2> HIDE DEF B
  <2>3. Matching(p, grant, n) =
          [k \in 1 .. Cardinality(S) |-> CHOOSE x \in S :
             Cardinality({y \in S : y.score > x.score \/ (y.score = x.score /\ y.id < x.id)}) = k - 1]
    BY DEF Matching, Ranked, S, Eligibles
  <2> QED BY <2>2, <2>3 DEF RankedBy
<1> DEFINE s == RankedBy(S, B)
           m == Cardinality(S)
<1>4. /\ m \in Nat /\ s \in Seq(S) /\ Len(s) = m
      /\ \A i, j \in 1 .. m : i < j <=> <<s[i], s[j]>> \in B
      /\ \A i \in 1 .. m : s[i] \in S
  <2> HIDE DEF B
  <2> QED BY <1>1, <1>2, RankedFacts
<1>5. ASSUME NEW i \in 1 .. m, NEW j \in 1 .. m, s[i] = s[j] PROVE i = j
  <2> HIDE DEF s, m, B
  <2>1. <<s[i], s[i]>> \notin B
    BY <1>2, <1>4 DEF Sorts
  <2>2. ~(i < j) /\ ~(j < i)
    BY <1>4, <1>5, <2>1
  <2> QED BY <1>4, <2>2
<1> HIDE DEF B
<1> QED BY <1>1, <1>3, <1>4, <1>5 DEF S

Projected(p, grant, n) == {Project(p, n, r, Allowed(p, grant, n)) : r \in Eligibles(p, grant, n)}

\* A packet holds what matches and nothing else.
LEMMA PacketRecords ==
  ASSUME NEW p \in Provider, NEW n \in DOMAIN Knowledge[p], NEW grant
  PROVE  ContextPacket(p, grant, n).records \in Seq(Projected(p, grant, n))
<1> DEFINE R == Eligibles(p, grant, n)
           T == Seq(Projected(p, grant, n))
           seq == Matching(p, grant, n)
           m == Len(seq)
           G == [x \in T \X (1 .. m) |-> Fill(p, grant, n, x[1], seq[x[2]])]
<1>1. seq \in Seq(R)
  BY MatchingFacts
<1>2. <<>> \in T
  OBVIOUS
<1>3. \A got \in T, r \in R : Fill(p, grant, n, got, r) \in T
  BY DEF Fill, More, Projected
<1> HIDE DEF R, T
<1>4. PICK h : Chain(h, G, <<>>, m, T) /\ ContextPacket(p, grant, n).records = h[m]
  <2> QED BY <1>1, <1>2, <1>3, Filling
<1>5. m \in Nat
  BY <1>1
<1> HIDE DEF G, m
<1> QED BY <1>4, <1>5 DEF Chain, T

Turn(groups, got, k) ==
  LET group == groups[(k % Len(groups)) + 1]
      position == (k \div Len(groups)) + 1
      proposed == GroupOrigins(Append(got, group[position]))
  IN  IF Len(got) < Limit /\ position <= Len(group) /\ Chars(proposed) <= MaxChars
        THEN proposed ELSE got

\* How the providers take turns.
LEMMA TakingTurns ==
  ASSUME NEW groups, Len(groups) \in Nat, NEW T, <<>> \in T,
         \A got \in T, k \in Nat : Turn(groups, got, k) \in T
  PROVE  LET m == Limit * Len(groups)
             G == [x \in T \X (1 .. m) |-> Turn(groups, x[1], x[2] - 1)]
         IN  \E h : Chain(h, G, <<>>, m, T) /\ TakeTurns(groups) = h[m]
<1> DEFINE m == Limit * Len(groups)
           seq == [k \in 1 .. m |-> k - 1]
           G == [x \in T \X (1 .. m) |-> Turn(groups, x[1], x[2] - 1)]
           Rec(f) == f = [s \in SUBSET DOMAIN seq |-> 
                            IF s = {} THEN <<>> ELSE Turn(groups, f[s \ {Max(s)}], seq[Max(s)])]
           f == CHOOSE f : Rec(f)
<1>1. m \in Nat
  BY FederationAssumption
<1>2. TakeTurns(groups) = f[DOMAIN seq]
  BY DEF TakeTurns, FoldLeft, MapThenFoldSet, Turn
<1> HIDE DEF m
<1>a. DOMAIN seq = 1 .. m /\ \A i \in 1 .. m : seq[i] = i - 1 /\ seq[i] \in Nat
  BY <1>1
<1>3. G \in FoldSteps(T, m)
  BY <1>1, <1>a DEF FoldSteps
<1> HIDE DEF seq
<1>4. \A t \in T, i \in 1 .. m : G[<<t, i>>] = Turn(groups, t, seq[i])
  BY <1>a
<1> HIDE DEF G
<1>5. \E g : Rec(g)
  <2>0. PICK g : IsFold(g, G, <<>>, m, T)
    BY <1>1, <1>3, FoldExists
  <2>1. g \in [SUBSET (1 .. m) -> T] /\ \A s \in SUBSET (1 .. m) : g[s] = Round(g, G, <<>>, s)
    BY <2>0 DEF IsFold
  <2>2. ASSUME NEW s \in SUBSET (1 .. m), s # {}
        PROVE  G[<<g[s \ {Max(s)}], Max(s)>>] = Turn(groups, g[s \ {Max(s)}], seq[Max(s)])
    <3>1. Max(s) \in s
      BY <1>1, <2>2, GreatestIndex
    <3>2. g[s \ {Max(s)}] \in T /\ Max(s) \in 1 .. m
      BY <3>1, <2>1
    <3> QED BY <3>2, <1>4
  <2>3. \A s \in SUBSET (1 .. m) : g[s] = IF s = {} THEN <<>> ELSE Turn(groups, g[s \ {Max(s)}], seq[Max(s)])
    BY <2>1, <2>2 DEF Round
  <2>4. g = [s \in SUBSET (1 .. m) |-> g[s]]
    BY <2>1
  <2> QED BY <1>a, <2>3, <2>4
<1>6. Rec(f)
  BY <1>5
<1> HIDE DEF f
<1>7. \A s \in SUBSET (1 .. m) : f[s] = IF s = {} THEN <<>> ELSE Turn(groups, f[s \ {Max(s)}], seq[Max(s)])
  BY <1>a, <1>6
<1>8. ASSUME NEW s \in SUBSET (1 .. m), s # {}, f[s \ {Max(s)}] \in T
      PROVE  f[s] = G[<<f[s \ {Max(s)}], Max(s)>>]
  <2>1. Max(s) \in 1 .. m
    BY <1>1, <1>8, GreatestIndex
  <2> QED BY <1>4, <1>7, <1>8, <2>1
<1>9. f[{}] = <<>>
  BY <1>7
<1>b. FoldFollows(f, G, <<>>, m, T)
  BY <1>8, <1>9 DEF FoldFollows
<1>10. \E h : Chain(h, G, <<>>, m, T) /\ h[m] = f[1 .. m]
  BY <1>1, <1>3, <1>b, FoldChain
<1> QED BY <1>a, <1>2, <1>10 DEF m, G

RecordType ==
  [provider : Provider, snapshot : Nat, id : Nat, evidence : Nat, size : Nat, origin : Nat,
   standing : Nat, contradicts : SUBSET Nat, hidden : {Cardinality(x) : x \in SUBSET Nat},
   sameOrigin : SUBSET (Provider \X Nat)]

\* What is known of a record says nothing of those that share its origin.
Unmarked(U) ==
  /\ U \subseteq RecordType
  /\ \A r \in U, x \in SUBSET (Provider \X Nat) : [r EXCEPT !.sameOrigin = x] \in U

\* Grouping marks records and changes nothing else.
LEMMA OriginsGrouped ==
  ASSUME NEW U, Unmarked(U), NEW records \in Seq(U)
  PROVE  GroupOrigins(records) \in Seq(U)
<1> DEFINE x(i) == {Qualified(records[j]) : j \in {j \in DOMAIN records : SourceKey(records[j]) = SourceKey(records[i])}}
                     \ {Qualified(records[i])}
<1>1. \A i \in DOMAIN records : records[i] \in U
  OBVIOUS
<1>2. \A r \in U : Qualified(r) \in Provider \X Nat
  BY DEF Unmarked, RecordType, Qualified
<1>3. \A i \in DOMAIN records : x(i) \in SUBSET (Provider \X Nat)
  BY <1>1, <1>2
<1>4. GroupOrigins(records) = [i \in DOMAIN records |-> [records[i] EXCEPT !.sameOrigin = x(i)]]
  BY DEF GroupOrigins
<1> HIDE DEF x
<1>5. \A i \in DOMAIN records : [records[i] EXCEPT !.sameOrigin = x(i)] \in U
  BY <1>1, <1>3 DEF Unmarked
<1>6. DOMAIN records = 1 .. Len(records) /\ Len(records) \in Nat
  OBVIOUS
<1>7. GroupOrigins(records) \in [1 .. Len(records) -> U]
  BY <1>4, <1>5, <1>6
<1> QED BY <1>6, <1>7, IsASeq

\* Taking turns visits every place of every group.
LEMMA Quotient ==
  ASSUME NEW k \in Nat, NEW n \in Nat \ {0}
  PROVE  k \div n \in Nat /\ k % n \in 0 .. n - 1
OBVIOUS

\* A turn gives what is in a group, or nothing.
LEMMA TurnRecords ==
  ASSUME NEW U, Unmarked(U), NEW groups \in Seq(Seq(U)), groups # <<>>, NEW got \in Seq(U), NEW k \in Nat
  PROVE  Turn(groups, got, k) \in Seq(U)
<1> DEFINE T == Seq(U)
           n == Len(groups)
           i == (k % n) + 1
           j == (k \div n) + 1
           p == GroupOrigins(Append(got, groups[i][j]))
<1>0. n \in Nat \ {0} /\ \A x \in 1 .. n : groups[x] \in Seq(U)
  OBVIOUS
<1>1. i \in 1 .. n /\ j \in Nat \ {0}
  <2> HIDE DEF n
  <2>1. k \div n \in Nat /\ k % n \in 0 .. n - 1
    BY <1>0, Quotient
  <2> QED BY <1>0, <2>1
<1>2. groups[i] \in Seq(U)
  BY <1>0, <1>1
<1>3. Turn(groups, got, k) = IF Len(got) < Limit /\ j <= Len(groups[i]) /\ Chars(p) <= MaxChars THEN p ELSE got
  BY DEF Turn
<1> HIDE DEF i, j, n
<1>4. j <= Len(groups[i]) => groups[i][j] \in U
  BY <1>1, <1>2
<1>5. j <= Len(groups[i]) => p \in T
  <2> SUFFICES ASSUME j <= Len(groups[i]) PROVE p \in T
    OBVIOUS
  <2>1. Append(got, groups[i][j]) \in Seq(U)
    BY <1>4
  <2> QED BY <2>1, OriginsGrouped
<1> HIDE DEF p
<1> QED BY <1>3, <1>5

\* The providers' turns give only what is in a group.
LEMMA TurnsRecords ==
  ASSUME NEW U, Unmarked(U), NEW groups \in Seq(Seq(U)), groups # <<>>
  PROVE  TakeTurns(groups) \in Seq(U)
<1> DEFINE T == Seq(U)
           n == Len(groups)
           m == Limit * n
           G == [x \in T \X (1 .. m) |-> Turn(groups, x[1], x[2] - 1)]
<1>1. n \in Nat \ {0} /\ \A i \in 1 .. n : groups[i] \in Seq(U)
  OBVIOUS
<1>2. \A got \in T, k \in Nat : Turn(groups, got, k) \in T
  BY TurnRecords
<1>3. <<>> \in T
  OBVIOUS
<1> HIDE DEF T
<1>4. PICK h : Chain(h, G, <<>>, m, T) /\ TakeTurns(groups) = h[m]
  BY <1>1, <1>2, <1>3, TakingTurns
<1>5. m \in Nat
  BY <1>1, FederationAssumption
<1> HIDE DEF G, m
<1> QED BY <1>4, <1>5 DEF Chain, T

-----------------------------------------------------------------------------
(* Federation: grants and generations in force.                            *)

Granted(p, g) == <<p, g>> \in inForce.grants /\ (p = Local \/ g.mode # "none")
Current(p, n) == <<p, n>> \in inForce.generations /\ n \in DOMAIN Knowledge[p]

Authorized(r) ==
  /\ \E g, n : /\ Granted(r.provider, g) /\ Current(r.provider, n)
               /\ {r.id} \cup r.contradicts \subseteq Allowed(r.provider, g, n) \cap Allowed(r.provider, g, r.snapshot)
  /\ \E k \in Knowledge[r.provider][r.snapshot] : k.id = r.id /\ k.evidence = r.evidence

Failed(reply) == \E code : code # "" /\ reply = Error(code)

ContextReplied(p, job) ==
  \/ Failed(job.reply)
  \/ \E n : /\ Current(p, n) /\ Granted(p, job.grant)
            /\ job.reply = Reply(ContextPacket(p, job.grant, n))
  \/ \E x : job.reply = Reply(x) /\ ~ ValidPacket(x, p)

EvidenceReplied(p, job) ==
  \/ Failed(job.reply)
  \/ \E n, r : LET allowed == AllowedStill(p, job.grant, Address.snapshot, n) IN
       /\ Current(p, n) /\ Granted(p, job.grant)
       /\ r \in Knowledge[p][Address.snapshot] /\ r.id \in allowed
       /\ job.reply = Reply(Project(p, Address.snapshot, r, allowed))
  \/ \E x : job.reply = Reply(x) /\ x.snapshot # Address.snapshot

JobFine(p, job) ==
  /\ DOMAIN job = {"pc", "grant", "current", "reply"}
  /\ job.pc \in {"none", "load", "read", "history", "answered"}
  /\ job.pc # "none" => query.pc # "idle" /\ (Asks("evidence") => p = Address.provider)
  /\ job.pc \in {"read", "history"} => Granted(p, job.grant)
  /\ job.pc = "history" => Asks("evidence") /\ Current(p, job.current)
  /\ job.pc = "answered" => /\ Asks("context") => ContextReplied(p, job)
                            /\ Asks("evidence") => EvidenceReplied(p, job)

QueryFine ==
  /\ DOMAIN query = {"pc", "kind", "handle", "answer"}
  /\ DOMAIN query.answer = {"records", "sources", "degraded", "omitted"}
  /\ \/ query = NoQuery
     \/ query.kind = "context" /\ query.pc \in {"local", "peers", "done"} /\ query.handle = {}
     \/ query.kind = "evidence" /\ query.pc \in {"evidence", "done"} /\ \E h \in Addresses : query.handle = {h}
  /\ query.pc # "done" => query.answer.records = <<>>
  /\ \E m \in Nat : query.answer.records \in [1 .. m -> RecordType]
  /\ \A i \in DOMAIN query.answer.records : LET r == query.answer.records[i] IN
       /\ Authorized(r)
       /\ \A h \in query.handle : h = [provider |-> r.provider, snapshot |-> r.snapshot, id |-> r.id]

OwnersFine ==
  /\ DOMAIN generation = Provider /\ \A p \in Provider : generation[p] \in DOMAIN Knowledge[p]
  /\ grants \in [Provider -> [grant : GrantType, changed : Nat]]
  /\ DOMAIN inForce = {"grants", "generations"}
  /\ query.pc # "idle" => \A p \in Provider : /\ <<p, grants[p].grant>> \in inForce.grants
                                              /\ <<p, generation[p]>> \in inForce.generations

FederationInv ==
  /\ OwnersFine /\ QueryFine
  /\ DOMAIN jobs = Provider /\ \A p \in Provider : JobFine(p, jobs[p])

\* A generation of a provider.
LEMMA Generations ==
  ASSUME NEW p \in Provider
  PROVE  /\ Knowledge[p] \in Seq(SUBSET KnowledgeType) /\ Len(Knowledge[p]) \in Nat \ {0}
         /\ DOMAIN Knowledge[p] = 1 .. Len(Knowledge[p])
BY FederationAssumption

\* The local provider is a number, as its peers are.
LEMMA LocalFacts == Local \in Provider /\ Peers = Provider \ {Local} /\ Provider \subseteq Nat
BY FederationAssumption DEF Local, Provider, Peers

\* The address of a handle.
LEMMA AddressFacts ==
  ASSUME NEW h \in Addresses
  PROVE  /\ h.provider \in Provider /\ h.snapshot \in DOMAIN Knowledge[h.provider]
         /\ h = [provider |-> h.provider, snapshot |-> h.snapshot, id |-> h.id]
BY DEF Addresses

\* What a provider projects of a record that its grant allows is authorized.
LEMMA ProjectionAuthorized ==
  ASSUME NEW p \in Provider, NEW n, NEW g, NEW s \in DOMAIN Knowledge[p],
         Granted(p, g), Current(p, n), NEW r \in Knowledge[p][s],
         NEW allowed, allowed \subseteq Allowed(p, g, n) \cap Allowed(p, g, s), r.id \in allowed
  PROVE  /\ Project(p, s, r, allowed) \in RecordType /\ Authorized(Project(p, s, r, allowed))
<1>1. r \in KnowledgeType /\ s \in Nat
  BY GenerationFacts, Generations
<1> DEFINE x == Project(p, s, r, allowed)
<1>2. x \in RecordType
  <2>1. /\ r.id \in Nat /\ r.evidence \in Nat /\ r.size \in Nat /\ r.origin \in Nat
        /\ r.standing \in Nat
        /\ r.contradicts \cap allowed \in SUBSET Nat /\ r.contradicts \ allowed \in SUBSET Nat
    BY <1>1 DEF KnowledgeType
  <2>2. Cardinality(r.contradicts \ allowed) \in {Cardinality(y) : y \in SUBSET Nat}
    BY <2>1
  <2> QED BY <1>1, <2>1, <2>2 DEF Project, RecordType
<1>3. x.provider = p /\ x.snapshot = s /\ x.id = r.id /\ x.evidence = r.evidence
      /\ x.contradicts \subseteq allowed
  BY DEF Project
<1>4. {x.id} \cup x.contradicts \subseteq Allowed(p, g, n) \cap Allowed(p, g, s)
  BY <1>3
<1> HIDE DEF x
<1>5. Authorized(x)
  BY <1>3, <1>4 DEF Authorized
<1> QED BY <1>2, <1>5 DEF x

\* What is in a packet is authorized.
LEMMA PacketAuthorized ==
  ASSUME NEW p \in Provider, NEW n, NEW g, Granted(p, g), Current(p, n)
  PROVE  Projected(p, g, n) \subseteq {r \in RecordType : Authorized(r)}
<1> SUFFICES ASSUME NEW r \in Eligibles(p, g, n)
             PROVE  LET x == Project(p, n, r, Allowed(p, g, n)) IN x \in RecordType /\ Authorized(x)
  BY DEF Projected
<1>1. r \in Knowledge[p][n] /\ r.id \in Allowed(p, g, n) /\ n \in DOMAIN Knowledge[p]
  BY DEF Eligibles, Allowed, Current
<1> QED BY <1>1, ProjectionAuthorized

\* Whether a record is authorized does not depend on what shares its origin.
LEMMA AuthorizedUnmarked == Unmarked({r \in RecordType : Authorized(r)})
<1> SUFFICES ASSUME NEW r \in RecordType, Authorized(r), NEW x \in SUBSET (Provider \X Nat)
             PROVE  [r EXCEPT !.sameOrigin = x] \in RecordType /\ Authorized([r EXCEPT !.sameOrigin = x])
  BY DEF Unmarked
<1> DEFINE y == [r EXCEPT !.sameOrigin = x]
<1>1. /\ y \in RecordType /\ y.provider = r.provider /\ y.snapshot = r.snapshot /\ y.id = r.id
      /\ y.evidence = r.evidence /\ y.contradicts = r.contradicts
  BY DEF RecordType
<1> HIDE DEF y
<1>2. Authorized(y)
  BY <1>1 DEF Authorized
<1> QED BY <1>1, <1>2 DEF y

\* The answer to a drill-down.
LEMMA DrillDowns ==
  ASSUME NEW p, NEW g, NEW h, NEW n
  PROVE  LET allowed == AllowedStill(p, g, h.snapshot, n)
             a == DrillDown(p, g, h, n)
         IN  \/ Failed(a)
             \/ \E r \in Knowledge[p][h.snapshot] : r.id \in allowed /\ a = Reply(Project(p, h.snapshot, r, allowed))
<1> DEFINE allowed == AllowedStill(p, g, h.snapshot, n)
           found == {r \in Knowledge[p][h.snapshot] : r.id = h.id /\ r.id \in allowed}
           x == CHOOSE r \in found : TRUE
<1>1. DrillDown(p, g, h, n) = IF found = {} THEN Error("denied") ELSE IF x.size > MaxChars THEN Error("invalid")
                              ELSE Reply(Project(p, h.snapshot, x, allowed))
  BY DEF DrillDown
<1>2. found # {} => x \in Knowledge[p][h.snapshot] /\ x.id \in allowed
  BY DEF found
<1> HIDE DEF found, x, allowed
<1> QED BY <1>1, <1>2 DEF Failed, allowed

\* A job stays fine as long as its query stays, whatever else comes into force.
LEMMA JobStays ==
  ASSUME NEW p, NEW job, JobFine(p, job), query' = query,
         inForce.grants \subseteq inForce'.grants, inForce.generations \subseteq inForce'.generations
  PROVE  JobFine(p, job)'
<1> USE DEF JobFine, Asks, Address
<1>1. \A g, n : (Granted(p, g) => Granted(p, g)') /\ (Current(p, n) => Current(p, n)')
  BY DEF Granted, Current
<1>2. ContextReplied(p, job) => ContextReplied(p, job)'
  BY <1>1 DEF ContextReplied
<1>3. EvidenceReplied(p, job) => EvidenceReplied(p, job)'
  BY <1>1 DEF EvidenceReplied
<1> QED BY <1>1, <1>2, <1>3

\* What was in force while a query ran stays in its history.
LEMMA AuthorizedStays ==
  ASSUME NEW r, Authorized(r),
         inForce.grants \subseteq inForce'.grants, inForce.generations \subseteq inForce'.generations
  PROVE  Authorized(r)'
BY DEF Authorized, Granted, Current

\* So the answer of a query stays authorized.
LEMMA QueryStays ==
  ASSUME QueryFine, query' = query,
         inForce.grants \subseteq inForce'.grants, inForce.generations \subseteq inForce'.generations
  PROVE  QueryFine'
<1>1. \A r : Authorized(r) => Authorized(r)'
  BY AuthorizedStays
<1> QED BY <1>1 DEF QueryFine

\* What an owner does.
LEMMA OwnerSteps ==
  ASSUME FederationInv,
         (\E p \in Provider : PublishKnowledge(p)) \/ (\E p \in Peers, g \in Grants : ChangeGrants(p, g))
  PROVE  FederationInv'
<1>0. /\ OwnersFine /\ QueryFine /\ DOMAIN jobs = Provider /\ \A p \in Provider : JobFine(p, jobs[p])
      /\ DOMAIN inForce = {"grants", "generations"}
      /\ DOMAIN generation = Provider /\ \A p \in Provider : generation[p] \in DOMAIN Knowledge[p]
      /\ grants \in [Provider -> [grant : GrantType, changed : Nat]]
  BY DEF FederationInv, OwnersFine
<1>1. SUFFICES /\ UNCHANGED <<jobs, query>>
               /\ inForce.grants \subseteq inForce'.grants /\ inForce.generations \subseteq inForce'.generations
               /\ OwnersFine'
  <2>1. \A p \in Provider : JobFine(p, jobs[p])'
    BY <1>0, <1>1, JobStays
  <2> QED BY <1>0, <1>1, <2>1, QueryStays DEF FederationInv
<1>2. CASE \E p \in Provider : PublishKnowledge(p)
  <2>1. PICK p \in Provider : PublishKnowledge(p)
    BY <1>2
  <2>2. /\ generation[p] < Len(Knowledge[p])
        /\ generation' = [generation EXCEPT ![p] = @ + 1]
        /\ inForce' = [inForce EXCEPT !.generations = @ \cup {<<p, generation[p] + 1>>}]
        /\ UNCHANGED <<grants, jobs, query>>
    BY <2>1 DEF PublishKnowledge
  <2>3. /\ inForce'.grants = inForce.grants
        /\ inForce'.generations = inForce.generations \cup {<<p, generation[p] + 1>>}
        /\ DOMAIN inForce' = {"grants", "generations"}
    BY <1>0, <2>2
  <2>4. generation[p] + 1 \in DOMAIN Knowledge[p]
    BY <1>0, <2>2, Generations
  <2>5. /\ DOMAIN generation' = Provider
        /\ \A o \in Provider : generation'[o] = IF o = p THEN generation[p] + 1 ELSE generation[o]
    BY <1>0, <2>2
  <2>6. OwnersFine'
    BY <1>0, <2>2, <2>3, <2>4, <2>5 DEF OwnersFine
  <2> QED BY <2>2, <2>3, <2>6
<1>3. CASE \E p \in Peers, g \in Grants : ChangeGrants(p, g)
  <2>1. PICK p \in Peers, g \in Grants : ChangeGrants(p, g)
    BY <1>3
  <2>2. /\ grants' = [grants EXCEPT ![p] = [grant |-> g, changed |-> @.changed + 1]]
        /\ inForce' = [inForce EXCEPT !.grants = @ \cup {<<p, g>>}]
        /\ UNCHANGED <<generation, jobs, query>>
    BY <2>1 DEF ChangeGrants
  <2>3. /\ inForce'.generations = inForce.generations
        /\ inForce'.grants = inForce.grants \cup {<<p, g>>}
        /\ DOMAIN inForce' = {"grants", "generations"}
    BY <1>0, <2>2
  <2>4. p \in Provider /\ g \in GrantType
    BY FederationAssumption, LocalFacts
  <2>5. grants' \in [Provider -> [grant : GrantType, changed : Nat]]
    BY <1>0, <2>2, <2>4
  <2>6. \A o \in Provider : grants'[o].grant = IF o = p THEN g ELSE grants[o].grant
    BY <1>0, <2>2, <2>4
  <2>7. OwnersFine'
    BY <1>0, <2>2, <2>3, <2>5, <2>6 DEF OwnersFine
  <2> QED BY <2>2, <2>3, <2>7
<1> QED BY <1>2, <1>3

\* A step of one provider.
LEMMA JobStep ==
  ASSUME FederationInv, NEW p \in Provider, NEW job, UNCHANGED <<generation, grants, query, inForce>>,
         DOMAIN jobs' = Provider, jobs'[p] = job, \A o \in Provider \ {p} : jobs'[o] = jobs[o],
         JobFine(p, job)
  PROVE  FederationInv'
<1>0. /\ OwnersFine /\ QueryFine /\ \A o \in Provider : JobFine(o, jobs[o])
  BY DEF FederationInv
<1>1. OwnersFine'
  BY <1>0 DEF OwnersFine
<1>2. QueryFine'
  BY <1>0, QueryStays
<1>3. \A o \in Provider : JobFine(o, jobs'[o])
  BY <1>0
<1>4. \A o \in Provider : JobFine(o, jobs[o])'
  <2> SUFFICES ASSUME NEW o \in Provider PROVE JobFine(o, jobs[o])'
    OBVIOUS
  <2>1. PICK j : j = jobs'[o]
    OBVIOUS
  <2>2. JobFine(o, j)'
    BY <1>3, <2>1, JobStays
  <2> QED BY <2>1, <2>2
<1> QED BY <1>1, <1>2, <1>4 DEF FederationInv

\* What a step of a provider leaves alone.
LEMMA ProviderFacts ==
  ASSUME FederationInv, NEW p \in Provider
  PROVE  /\ DOMAIN jobs = Provider /\ JobFine(p, jobs[p]) /\ p \in Provider
         /\ generation[p] \in DOMAIN Knowledge[p]
         /\ jobs[p].pc # "none" => /\ Current(p, generation[p]) /\ <<p, grants[p].grant>> \in inForce.grants
                                   /\ query.pc # "idle"
                                   /\ Asks("evidence") => p = Address.provider
         /\ Asks("context") \/ Asks("evidence") \/ query = NoQuery
         /\ Asks("evidence") => Address \in Addresses
<1>1. OwnersFine /\ QueryFine /\ JobFine(p, jobs[p]) /\ DOMAIN jobs = Provider
  BY DEF FederationInv
<1>2. jobs[p].pc # "none" => query.pc # "idle" /\ (Asks("evidence") => p = Address.provider)
  BY <1>1 DEF JobFine
<1>3. Asks("context") \/ Asks("evidence") \/ query = NoQuery
  BY <1>1 DEF QueryFine, Asks
<1>4. Asks("evidence") => Address \in Addresses
  BY <1>1 DEF QueryFine, Asks, Address, NoQuery
<1>5. generation[p] \in DOMAIN Knowledge[p]
  BY <1>1 DEF OwnersFine
<1>6. query.pc # "idle" => <<p, generation[p]>> \in inForce.generations /\ <<p, grants[p].grant>> \in inForce.grants
  BY <1>1 DEF OwnersFine
<1> QED BY <1>1, <1>2, <1>3, <1>4, <1>5, <1>6 DEF Current

\* A provider answers.
LEMMA OwnerAnswers ==
  ASSUME FederationInv, NEW p \in Provider, NEW reply, UNCHANGED <<generation, grants, query, inForce>>,
         jobs[p].pc # "none", Replies(p, reply),
         Asks("context") => ContextReplied(p, [jobs[p] EXCEPT !.reply = reply]),
         Asks("evidence") => EvidenceReplied(p, [jobs[p] EXCEPT !.reply = reply])
  PROVE  FederationInv'
<1> DEFINE job == [jobs[p] EXCEPT !.pc = "answered", !.reply = reply]
<1>1. DOMAIN jobs = Provider /\ JobFine(p, jobs[p]) /\ DOMAIN jobs[p] = {"pc", "grant", "current", "reply"}
  BY DEF FederationInv, JobFine
<1>2. jobs' = [jobs EXCEPT ![p] = job]
  BY <1>1 DEF Replies
<1>3. /\ DOMAIN job = DOMAIN jobs[p] /\ job.pc = "answered" /\ job.grant = jobs[p].grant /\ job.reply = reply
  BY <1>1
<1> DEFINE other == [jobs[p] EXCEPT !.reply = reply]
<1>4. other.grant = jobs[p].grant /\ other.reply = reply
  BY <1>1
<1>5. /\ Asks("context") => ContextReplied(p, other)
      /\ Asks("evidence") => EvidenceReplied(p, other)
  OBVIOUS
<1> HIDE DEF job, other
<1>6. /\ Asks("context") => ContextReplied(p, job)
      /\ Asks("evidence") => EvidenceReplied(p, job)
  BY <1>3, <1>4, <1>5 DEF ContextReplied, EvidenceReplied
<1>7. JobFine(p, job)
  BY <1>1, <1>3, <1>6 DEF JobFine
<1>8. DOMAIN jobs' = Provider /\ jobs'[p] = job /\ \A o \in Provider \ {p} : jobs'[o] = jobs[o]
  BY <1>1, <1>2
<1> QED BY <1>7, <1>8, JobStep

\* A provider that fails.
LEMMA OwnerFails ==
  ASSUME FederationInv, NEW p \in Provider, NEW code, code # "",
         UNCHANGED <<generation, grants, query, inForce>>,
         jobs[p].pc # "none", Replies(p, Error(code))
  PROVE  FederationInv'
<1> DEFINE job == [jobs[p] EXCEPT !.reply = Error(code)]
<1>1. job.reply = Error(code)
  BY DEF FederationInv, JobFine
<1> HIDE DEF job
<1>2. ContextReplied(p, job) /\ EvidenceReplied(p, job)
  BY <1>1 DEF ContextReplied, EvidenceReplied, Failed
<1> QED BY <1>2, OwnerAnswers DEF job

\* A provider loads its grants.
LEMMA Loads ==
  ASSUME FederationInv, NEW p \in Provider, LoadGrants(p)
  PROVE  FederationInv'
<1>1. jobs[p].pc = "load" /\ UNCHANGED <<generation, grants, query, inForce>>
  BY DEF LoadGrants
<1>2. CASE p # Local /\ grants[p].grant.mode = "none"
  <2>1. Replies(p, Error("denied"))
    BY <1>2 DEF LoadGrants
  <2> QED BY <1>1, <2>1, OwnerFails
<1>3. CASE ~(p # Local /\ grants[p].grant.mode = "none")
  <2> DEFINE job == [jobs[p] EXCEPT !.pc = "read", !.grant = grants[p].grant]
  <2>1. DOMAIN jobs = Provider /\ JobFine(p, jobs[p]) /\ DOMAIN jobs[p] = {"pc", "grant", "current", "reply"}
    BY DEF FederationInv, JobFine
  <2>2. jobs' = [jobs EXCEPT ![p] = job]
    BY <1>3, <2>1 DEF LoadGrants
  <2>3. /\ DOMAIN job = DOMAIN jobs[p] /\ job.pc = "read" /\ job.grant = grants[p].grant
    BY <2>1
  <2>4. Granted(p, grants[p].grant)
    BY <1>1, <1>3, ProviderFacts DEF Granted
  <2> HIDE DEF job
  <2>5. JobFine(p, job)
    BY <1>1, <2>1, <2>3, <2>4 DEF JobFine
  <2>6. DOMAIN jobs' = Provider /\ jobs'[p] = job /\ \A o \in Provider \ {p} : jobs'[o] = jobs[o]
    BY <2>1, <2>2
  <2> QED BY <1>1, <2>5, <2>6, JobStep
<1> QED BY <1>2, <1>3

\* A provider answers with a packet of what its grant allows.
LEMMA AnswersContext ==
  ASSUME FederationInv, NEW p \in Provider, AnswerContext(p)
  PROVE  FederationInv'
<1>1. /\ jobs[p].pc = "read" /\ Asks("context") /\ UNCHANGED <<generation, grants, query, inForce>>
      /\ Replies(p, Reply(ContextPacket(p, jobs[p].grant, generation[p])))
  BY DEF AnswerContext
<1> DEFINE n == generation[p]
           reply == Reply(ContextPacket(p, jobs[p].grant, n))
           job == [jobs[p] EXCEPT !.reply = reply]
<1>2. Granted(p, jobs[p].grant) /\ Current(p, n) /\ DOMAIN jobs[p] = {"pc", "grant", "current", "reply"}
  BY <1>1, ProviderFacts DEF JobFine
<1>3. job.reply = Reply(ContextPacket(p, job.grant, n)) /\ job.grant = jobs[p].grant
  BY <1>2
<1> HIDE DEF job, n
<1>4. ContextReplied(p, job)
  BY <1>2, <1>3 DEF ContextReplied
<1>5. ~ Asks("evidence")
  BY <1>1 DEF Asks
<1> QED BY <1>1, <1>4, <1>5, OwnerAnswers DEF job, n

\* A drill-down that the grant in the job and generation n let through.
LEMMA Drills ==
  ASSUME FederationInv, NEW p \in Provider, UNCHANGED <<generation, grants, query, inForce>>,
         jobs[p].pc # "none", Asks("evidence"), Granted(p, jobs[p].grant), NEW n, Current(p, n),
         Replies(p, DrillDown(p, jobs[p].grant, Address, n))
  PROVE  FederationInv'
<1> DEFINE reply == DrillDown(p, jobs[p].grant, Address, n)
           job == [jobs[p] EXCEPT !.reply = reply]
           allowed == AllowedStill(p, jobs[p].grant, Address.snapshot, n)
<1>1. DOMAIN jobs[p] = {"pc", "grant", "current", "reply"}
  BY ProviderFacts DEF JobFine
<1>2. job.reply = reply /\ job.grant = jobs[p].grant
  BY <1>1
<1>3. \/ Failed(reply)
      \/ \E r \in Knowledge[p][Address.snapshot] : r.id \in allowed /\ reply = Reply(Project(p, Address.snapshot, r, allowed))
  BY DrillDowns
<1>4. ~ Asks("context")
  BY DEF Asks
<1>5. Replies(p, reply)
  OBVIOUS
<1> HIDE DEF job, reply
<1>6. EvidenceReplied(p, job)
  <2>1. CASE Failed(reply)
    BY <2>1, <1>2 DEF EvidenceReplied
  <2>2. CASE ~ Failed(reply)
    BY <2>2, <1>2, <1>3 DEF EvidenceReplied
  <2> QED BY <2>1, <2>2
<1> QED BY <1>4, <1>5, <1>6, OwnerAnswers DEF job

\* Evidence of the current generation.
LEMMA ReadsCurrent ==
  ASSUME FederationInv, NEW p \in Provider, ReadCurrent(p)
  PROVE  FederationInv'
<1> DEFINE now == generation[p]
<1>1. /\ jobs[p].pc = "read" /\ Asks("evidence") /\ UNCHANGED <<generation, grants, query, inForce>>
      /\ IF Address.id \notin Allowed(p, jobs[p].grant, now) THEN Replies(p, Error("denied"))
         ELSE IF Address.snapshot = now THEN Replies(p, DrillDown(p, jobs[p].grant, Address, now))
         ELSE jobs' = [jobs EXCEPT ![p].pc = "history", ![p].current = now]
  BY DEF ReadCurrent
<1>2. /\ DOMAIN jobs = Provider /\ JobFine(p, jobs[p]) /\ DOMAIN jobs[p] = {"pc", "grant", "current", "reply"}
      /\ Granted(p, jobs[p].grant) /\ Current(p, now) /\ query.pc # "idle" /\ p = Address.provider
  BY <1>1, ProviderFacts DEF JobFine
<1>3. CASE Address.id \notin Allowed(p, jobs[p].grant, now)
  BY <1>1, <1>3, OwnerFails
<1>4. CASE Address.id \in Allowed(p, jobs[p].grant, now) /\ Address.snapshot = now
  BY <1>1, <1>2, <1>4, Drills
<1>5. CASE Address.id \in Allowed(p, jobs[p].grant, now) /\ Address.snapshot # now
  <2> DEFINE job == [jobs[p] EXCEPT !.pc = "history", !.current = now]
  <2>1. jobs' = [jobs EXCEPT ![p] = job]
    BY <1>1, <1>2, <1>5
  <2>2. DOMAIN job = DOMAIN jobs[p] /\ job.pc = "history" /\ job.current = now /\ job.grant = jobs[p].grant
    BY <1>2
  <2> HIDE DEF job
  <2>3. JobFine(p, job)
    BY <1>1, <1>2, <2>2 DEF JobFine
  <2>4. DOMAIN jobs' = Provider /\ jobs'[p] = job /\ \A o \in Provider \ {p} : jobs'[o] = jobs[o]
    BY <1>2, <2>1
  <2> QED BY <1>1, <2>3, <2>4, JobStep
<1> QED BY <1>3, <1>4, <1>5

\* Evidence of an earlier one: what both allow.
LEMMA ReadsHistory ==
  ASSUME FederationInv, NEW p \in Provider, ReadHistory(p)
  PROVE  FederationInv'
<1>1. /\ jobs[p].pc = "history" /\ UNCHANGED <<generation, grants, query, inForce>>
      /\ \/ Replies(p, DrillDown(p, jobs[p].grant, Address, jobs[p].current))
         \/ Replies(p, Error("snapshot_unavailable"))
  BY DEF ReadHistory
<1>2. Asks("evidence") /\ Granted(p, jobs[p].grant) /\ Current(p, jobs[p].current)
  BY <1>1, ProviderFacts DEF JobFine
<1>3. CASE Replies(p, Error("snapshot_unavailable"))
  BY <1>1, <1>3, OwnerFails
<1>4. CASE Replies(p, DrillDown(p, jobs[p].grant, Address, jobs[p].current))
  BY <1>1, <1>2, <1>4, Drills
<1> QED BY <1>1, <1>3, <1>4

\* A packet with the same record twice is not valid.
LEMMA TwiceIsInvalid ==
  ASSUME NEW p, NEW x, NEW a, x.records = <<a, a>>
  PROVE  ~ ValidPacket(x, p)
<1>1. DOMAIN x.records = {1, 2} /\ x.records[1] = a /\ x.records[2] = a
  OBVIOUS
<1> QED BY <1>1 DEF ValidPacket

\* A peer that answers something else than it was asked.
LEMMA MisanswersAreFine ==
  ASSUME FederationInv, NEW p \in Provider, Misanswers(p)
  PROVE  FederationInv'
<1> DEFINE own == ContextPacket(p, [mode |-> "all", records |-> {}], generation[p])
           drilled == UNION {{Project(p, n, r, {}) : r \in Knowledge[p][n]} : n \in DOMAIN Knowledge[p]}
<1>1. /\ p \in Peers /\ jobs[p].pc = "load" /\ UNCHANGED <<generation, grants, query, inForce>>
      /\ \/ /\ Asks("context")
            /\ \/ Replies(p, Reply([own EXCEPT !.identity = Local]))
               \/ own.records # <<>> /\ Replies(p, Reply([own EXCEPT !.records = <<@[1], @[1]>>]))
         \/ /\ Asks("evidence")
            /\ \E r \in drilled : r.snapshot # Address.snapshot /\ Replies(p, Reply(r))
  BY DEF Misanswers
<1>2. DOMAIN jobs[p] = {"pc", "grant", "current", "reply"}
  BY ProviderFacts DEF JobFine
<1>3. p # Local
  BY <1>1, LocalFacts
<1>4. ASSUME NEW x, ~ ValidPacket(x, p), Replies(p, Reply(x)), Asks("context") PROVE FederationInv'
  <2> DEFINE job == [jobs[p] EXCEPT !.reply = Reply(x)]
  <2>1. job.reply = Reply(x)
    BY <1>2
  <2> HIDE DEF job
  <2>2. ContextReplied(p, job) /\ ~ Asks("evidence")
    BY <1>4, <2>1 DEF ContextReplied, Asks
  <2> QED BY <1>1, <1>4, <2>2, OwnerAnswers DEF job
<1>5. CASE Asks("context") /\ Replies(p, Reply([own EXCEPT !.identity = Local]))
  <2>1. [own EXCEPT !.identity = Local].identity = Local
    BY DEF ContextPacket
  <2>2. ~ ValidPacket([own EXCEPT !.identity = Local], p)
    <3> HIDE DEF own
    <3> QED BY <1>3, <2>1 DEF ValidPacket
  <2> QED BY <1>4, <1>5, <2>2
<1>6. CASE Asks("context") /\ Replies(p, Reply([own EXCEPT !.records = <<@[1], @[1]>>]))
  <2>1. [own EXCEPT !.records = <<@[1], @[1]>>].records = <<own.records[1], own.records[1]>>
    BY DEF ContextPacket
  <2>2. ~ ValidPacket([own EXCEPT !.records = <<@[1], @[1]>>], p)
    <3> HIDE DEF own
    <3> QED BY <2>1, TwiceIsInvalid
  <2> QED BY <1>4, <1>6, <2>2
<1>7. CASE Asks("evidence") /\ \E r : r.snapshot # Address.snapshot /\ Replies(p, Reply(r))
  <2>1. PICK r : r.snapshot # Address.snapshot /\ Replies(p, Reply(r))
    BY <1>7
  <2> DEFINE job == [jobs[p] EXCEPT !.reply = Reply(r)]
  <2>2. job.reply = Reply(r)
    BY <1>2
  <2> HIDE DEF job
  <2>3. EvidenceReplied(p, job) /\ ~ Asks("context")
    BY <1>7, <2>1, <2>2 DEF EvidenceReplied, Asks
  <2> QED BY <1>1, <2>1, <2>3, OwnerAnswers DEF job
<1> HIDE DEF own, drilled
<1> QED BY <1>1, <1>5, <1>6, <1>7

\* The query is asked: one provider starts, or waits.
LEMMA Asking ==
  ASSUME FederationInv, AskContext \/ \E h \in Addresses : AskEvidence(h)
  PROVE  FederationInv'
<1>0. /\ OwnersFine /\ QueryFine /\ DOMAIN jobs = Provider
      /\ \A p \in Provider : JobFine(p, jobs[p]) /\ DOMAIN jobs[p] = {"pc", "grant", "current", "reply"}
  BY DEF FederationInv, JobFine
<1>1. query.pc = "idle" /\ inForce' = Now /\ UNCHANGED <<generation, grants>>
  BY DEF AskContext, AskEvidence
<1>2. \A p \in Provider : jobs[p].pc = "none"
  BY <1>0, <1>1 DEF JobFine
<1>3. PICK p \in Provider : jobs' = [jobs EXCEPT ![p] = Loading]
                            /\ (query'.kind = "evidence" => p = Address'.provider)
  <2>1. CASE AskContext
    <3>1. query'.kind = "context" /\ jobs' = [jobs EXCEPT ![Local] = Loading]
      BY <2>1 DEF AskContext, NoQuery
    <3> QED BY <3>1, LocalFacts
  <2>2. CASE \E h \in Addresses : AskEvidence(h)
    <3>1. PICK h \in Addresses : AskEvidence(h)
      BY <2>2
    <3>2. query'.handle = {h} /\ jobs' = [jobs EXCEPT ![h.provider] = Loading]
      BY <3>1 DEF AskEvidence, NoQuery
    <3>3. Address' = h
      BY <3>2 DEF Address
    <3> QED BY <3>2, <3>3, AddressFacts
  <2> QED BY <2>1, <2>2
<1>4. OwnersFine'
  <2>1. /\ DOMAIN inForce' = {"grants", "generations"}
        /\ \A o \in Provider : <<o, grants[o].grant>> \in inForce'.grants /\ <<o, generation[o]>> \in inForce'.generations
    BY <1>1 DEF Now
  <2> QED BY <1>0, <1>1, <2>1 DEF OwnersFine
<1>5. QueryFine' /\ query'.pc # "idle"
  <2>1. CASE AskContext
    <3>1. query' = [NoQuery EXCEPT !.pc = "local", !.kind = "context"]
      BY <2>1 DEF AskContext
    <3>2. /\ DOMAIN query' = {"pc", "kind", "handle", "answer"} /\ query'.answer = NoAnswer
          /\ query'.kind = "context" /\ query'.pc = "local" /\ query'.handle = {}
      BY <3>1 DEF NoQuery
    <3>3. /\ DOMAIN NoAnswer = {"records", "sources", "degraded", "omitted"} /\ NoAnswer.records = <<>>
          /\ <<>> \in [1 .. 0 -> RecordType] /\ DOMAIN <<>> = {}
      BY DEF NoAnswer
    <3> QED BY <3>2, <3>3 DEF QueryFine
  <2>2. CASE \E h \in Addresses : AskEvidence(h)
    <3>1. PICK h \in Addresses : query' = [NoQuery EXCEPT !.pc = "evidence", !.kind = "evidence", !.handle = {h}]
      BY <2>2 DEF AskEvidence
    <3>2. /\ DOMAIN query' = {"pc", "kind", "handle", "answer"} /\ query'.answer = NoAnswer
          /\ query'.kind = "evidence" /\ query'.pc = "evidence" /\ query'.handle = {h}
      BY <3>1 DEF NoQuery
    <3>3. /\ DOMAIN NoAnswer = {"records", "sources", "degraded", "omitted"} /\ NoAnswer.records = <<>>
          /\ <<>> \in [1 .. 0 -> RecordType] /\ DOMAIN <<>> = {}
      BY DEF NoAnswer
    <3> QED BY <3>2, <3>3 DEF QueryFine
  <2> QED BY <2>1, <2>2
<1>6. ASSUME NEW o \in Provider PROVE JobFine(o, jobs[o])'
  <2>1. jobs'[o] = Loading \/ jobs'[o] = jobs[o]
    BY <1>0, <1>3
  <2>2. DOMAIN jobs'[o] = {"pc", "grant", "current", "reply"}
    BY <1>0, <2>1 DEF Loading, NoJob
  <2>3. jobs'[o].pc = "none" \/ (o = p /\ jobs'[o].pc = "load")
    BY <1>0, <1>2, <1>3 DEF Loading, NoJob
  <2> QED BY <1>3, <1>5, <2>2, <2>3 DEF JobFine, Asks
<1>7. DOMAIN jobs' = Provider
  BY <1>0, <1>3
<1> QED BY <1>4, <1>5, <1>6, <1>7 DEF FederationInv

\* Peers are consulted after the local provider.
LEMMA Consults ==
  ASSUME FederationInv, ConsultPeers
  PROVE  FederationInv'
<1>0. /\ OwnersFine /\ QueryFine /\ DOMAIN jobs = Provider
      /\ \A p \in Provider : JobFine(p, jobs[p])
  BY DEF FederationInv
<1>1. /\ query.pc = "local" /\ query' = [query EXCEPT !.pc = "peers"]
      /\ jobs' = [p \in Provider |-> IF p \in Peers THEN Loading ELSE jobs[p]]
      /\ UNCHANGED <<generation, grants, inForce>>
  BY DEF ConsultPeers
<1>2. /\ DOMAIN query = {"pc", "kind", "handle", "answer"}
      /\ query.kind = "context" /\ query.handle = {}
  BY <1>0, <1>1 DEF QueryFine, NoQuery
<1>3. /\ DOMAIN query' = DOMAIN query /\ query'.pc = "peers" /\ query'.kind = query.kind
      /\ query'.handle = query.handle /\ query'.answer = query.answer
  BY <1>1, <1>2
<1>4. OwnersFine'
  BY <1>0, <1>1, <1>3 DEF OwnersFine
<1>5. \A r : Authorized(r) => Authorized(r)'
  BY <1>1 DEF Authorized, Granted, Current
<1>6. QueryFine'
  BY <1>0, <1>1, <1>2, <1>3, <1>5 DEF QueryFine
<1>7. ASSUME NEW o \in Provider PROVE JobFine(o, jobs[o])'
  <2>1. CASE o \in Peers
    <3>1. jobs'[o] = Loading
      BY <1>1, <2>1
    <3>2. DOMAIN jobs'[o] = {"pc", "grant", "current", "reply"} /\ jobs'[o].pc = "load"
      BY <3>1 DEF Loading, NoJob
    <3> QED BY <1>2, <1>3, <3>2 DEF JobFine, Asks
  <2>2. CASE o \notin Peers
    <3>1. jobs'[o] = jobs[o]
      BY <1>1, <2>2
    <3>2. PICK job : job = jobs[o]
      OBVIOUS
    <3>3. \A g, n : Granted(o, g)' = Granted(o, g) /\ Current(o, n)' = Current(o, n)
      BY <1>1 DEF Granted, Current
    <3>4. ContextReplied(o, job) => ContextReplied(o, job)'
      BY <3>3 DEF ContextReplied
    <3>5. JobFine(o, job)
      BY <1>0, <3>2
    <3>6. JobFine(o, job)'
      BY <1>1, <1>2, <1>3, <3>3, <3>4, <3>5 DEF JobFine, Asks
    <3> QED BY <3>1, <3>2, <3>6
  <2> QED BY <2>1, <2>2
<1>8. DOMAIN jobs' = Provider
  BY <1>1
<1> QED BY <1>4, <1>6, <1>7, <1>8 DEF FederationInv

\* A query ends, and with it what was in force.
LEMMA Forgets ==
  ASSUME FederationInv, Forget
  PROVE  FederationInv'
<1>0. OwnersFine /\ QueryFine
  BY DEF FederationInv
<1>1. /\ query' = NoQuery /\ jobs' = [p \in Provider |-> NoJob]
      /\ inForce' = [grants |-> {}, generations |-> {}] /\ UNCHANGED <<generation, grants>>
  BY DEF Forget
<1>2. /\ DOMAIN NoQuery = {"pc", "kind", "handle", "answer"} /\ NoQuery.answer = NoAnswer /\ NoQuery.pc = "idle"
      /\ DOMAIN NoAnswer = {"records", "sources", "degraded", "omitted"} /\ NoAnswer.records = <<>>
      /\ <<>> \in [1 .. 0 -> RecordType] /\ DOMAIN <<>> = {}
  BY DEF NoQuery, NoAnswer
<1>3. QueryFine'
  BY <1>1, <1>2 DEF QueryFine
<1>4. OwnersFine'
  BY <1>0, <1>1, <1>2 DEF OwnersFine
<1>5. DOMAIN NoJob = {"pc", "grant", "current", "reply"} /\ NoJob.pc = "none"
  BY DEF NoJob
<1>6. \A o \in Provider : JobFine(o, jobs[o])'
  BY <1>1, <1>5 DEF JobFine
<1> QED BY <1>1, <1>3, <1>4, <1>6 DEF FederationInv

\* Federation begins without a query.
LEMMA FederationBegins == FederationInit => FederationInv
<1> SUFFICES ASSUME FederationInit PROVE FederationInv
  OBVIOUS
<1>1. /\ query = NoQuery /\ jobs = [p \in Provider |-> NoJob]
      /\ inForce = [grants |-> {}, generations |-> {}]
      /\ generation = [p \in Provider |-> 1]
      /\ grants = [p \in Provider |-> [grant |-> NoGrant, changed |-> 0]]
  BY DEF FederationInit
<1>2. /\ DOMAIN NoQuery = {"pc", "kind", "handle", "answer"} /\ NoQuery.answer = NoAnswer /\ NoQuery.pc = "idle"
      /\ DOMAIN NoAnswer = {"records", "sources", "degraded", "omitted"} /\ NoAnswer.records = <<>>
      /\ <<>> \in [1 .. 0 -> RecordType] /\ DOMAIN <<>> = {}
  BY DEF NoQuery, NoAnswer
<1>3. QueryFine
  BY <1>1, <1>2 DEF QueryFine
<1>4. OwnersFine
  <2>1. NoGrant \in GrantType
    BY DEF NoGrant, GrantType
  <2>2. \A p \in Provider : 1 \in DOMAIN Knowledge[p]
    BY Generations
  <2> QED BY <1>1, <1>2, <2>1, <2>2 DEF OwnersFine
<1>5. DOMAIN NoJob = {"pc", "grant", "current", "reply"} /\ NoJob.pc = "none"
  BY DEF NoJob
<1>6. \A o \in Provider : JobFine(o, jobs[o])
  BY <1>1, <1>5 DEF JobFine
<1> QED BY <1>1, <1>3, <1>4, <1>6 DEF FederationInv

\* Jobs do not see how far their query is.
LEMMA JobsKeep ==
  ASSUME FederationInv, UNCHANGED <<jobs, inForce>>, query'.kind = query.kind, query'.handle = query.handle,
         query'.pc # "idle"
  PROVE  DOMAIN jobs' = Provider /\ \A p \in Provider : JobFine(p, jobs[p])'
<1>1. DOMAIN jobs = Provider /\ \A p \in Provider : JobFine(p, jobs[p])
  BY DEF FederationInv
<1>2. ASSUME NEW p \in Provider PROVE JobFine(p, jobs[p])'
  <2>1. PICK job : job = jobs[p] /\ JobFine(p, job)
    BY <1>1
  <2>2. \A g, n : Granted(p, g)' = Granted(p, g) /\ Current(p, n)' = Current(p, n)
    BY DEF Granted, Current
  <2>3. ContextReplied(p, job) => ContextReplied(p, job)'
    BY <2>2 DEF ContextReplied
  <2>4. Address' = Address
    BY DEF Address
  <2>5. EvidenceReplied(p, job) => EvidenceReplied(p, job)'
    BY <2>2, <2>4 DEF EvidenceReplied
  <2>6. JobFine(p, job)'
    BY <2>1, <2>2, <2>3, <2>4, <2>5 DEF JobFine, Asks
  <2> QED BY <2>1, <2>6
<1> QED BY <1>1, <1>2

\* What a reply says, and what a failure says.
LEMMA Replied ==
  ASSUME NEW x, NEW replies, replies = Reply(x), NEW reply \in replies
  PROVE  reply.error = "" /\ reply.body = <<x>> /\ reply.body[1] = x
<1>1. reply = [error |-> "", body |-> <<x>>]
  BY DEF Reply
<1> QED BY <1>1

\* And evidence.
LEMMA RepliedWith ==
  ASSUME NEW x, NEW replies, replies = Reply(x), NEW reply \in replies
  PROVE  reply.body = <<x>> /\ reply.body[1] = x
BY Replied

\* A failure has a code.
LEMMA FailedReply ==
  ASSUME NEW replies, Failed(replies), NEW reply \in replies
  PROVE  reply.error # ""
<1>1. PICK code : code # "" /\ replies = {[error |-> code, body |-> <<>>]}
  BY DEF Failed, Error
<1>2. reply = [error |-> code, body |-> <<>>]
  BY <1>1
<1> QED BY <1>1, <1>2

\* An answer to a handle is the evidence it names, or nothing.
LEMMA ReturnsEvidence ==
  ASSUME FederationInv, ReturnEvidence
  PROVE  FederationInv'
<1> DEFINE p == Address.provider
<1>0. OwnersFine /\ QueryFine
  BY DEF FederationInv
<1>1. /\ query.pc = "evidence" /\ jobs[p].pc = "answered" /\ UNCHANGED <<generation, grants, jobs, inForce>>
  BY DEF ReturnEvidence
<1>2. PICK reply \in jobs[p].reply :
       LET named == reply.error = "" /\ reply.body[1].provider = Address.provider
                      /\ reply.body[1].snapshot = Address.snapshot /\ reply.body[1].id = Address.id
       IN  query' = [query EXCEPT !.pc = "done",
             !.answer.records = IF named THEN reply.body ELSE <<>>,
             !.answer.degraded = ~ named]
  BY DEF ReturnEvidence
<1> DEFINE named == reply.error = "" /\ reply.body[1].provider = Address.provider
                      /\ reply.body[1].snapshot = Address.snapshot /\ reply.body[1].id = Address.id
<1>3. /\ query.kind = "evidence" /\ Address \in Addresses /\ query.handle = {Address}
      /\ DOMAIN query = {"pc", "kind", "handle", "answer"}
      /\ DOMAIN query.answer = {"records", "sources", "degraded", "omitted"}
  BY <1>0, <1>1 DEF QueryFine, NoQuery, Address
<1>4. query' = [query EXCEPT !.pc = "done", !.answer.records = IF named THEN reply.body ELSE <<>>,
                             !.answer.degraded = ~ named]
  BY <1>2
<1>5. p \in Provider /\ Address.snapshot \in DOMAIN Knowledge[p]
  BY <1>3, AddressFacts
<1>6. EvidenceReplied(p, jobs[p])
  BY <1>1, <1>3, <1>5 DEF FederationInv, JobFine, Asks
<1>7. named => /\ reply.body \in [1 .. 1 -> RecordType] /\ Authorized(reply.body[1])
               /\ Address = [provider |-> reply.body[1].provider, snapshot |-> reply.body[1].snapshot,
                             id |-> reply.body[1].id]
  <2> SUFFICES ASSUME named
               PROVE  /\ reply.body \in [1 .. 1 -> RecordType] /\ Authorized(reply.body[1])
                      /\ Address = [provider |-> reply.body[1].provider, snapshot |-> reply.body[1].snapshot,
                                    id |-> reply.body[1].id]
    OBVIOUS
  <2>1. ~ Failed(jobs[p].reply)
    BY <1>2, FailedReply
  <2>2. ASSUME NEW x, jobs[p].reply = Reply(x) PROVE reply.body = <<x>> /\ reply.body[1] = x
    <3> DEFINE replies == jobs[p].reply
    <3>1. replies = Reply(x) /\ reply \in replies
      BY <2>2
    <3> HIDE DEF replies, named
    <3> QED BY <3>1, RepliedWith
  <2>3. PICK n, r : LET allowed == AllowedStill(p, jobs[p].grant, Address.snapshot, n) IN
       /\ Current(p, n) /\ Granted(p, jobs[p].grant)
       /\ r \in Knowledge[p][Address.snapshot] /\ r.id \in allowed
       /\ jobs[p].reply = Reply(Project(p, Address.snapshot, r, allowed))
    BY <1>6, <2>1, <2>2 DEF EvidenceReplied
  <2> DEFINE allowed == AllowedStill(p, jobs[p].grant, Address.snapshot, n)
             x == Project(p, Address.snapshot, r, allowed)
  <2>4. allowed \subseteq Allowed(p, jobs[p].grant, n) \cap Allowed(p, jobs[p].grant, Address.snapshot)
    BY DEF AllowedStill
  <2>5. x \in RecordType /\ Authorized(x)
    <3> HIDE DEF allowed
    <3> QED BY <1>5, <2>3, <2>4, ProjectionAuthorized DEF allowed
  <2>6. reply.body = <<x>> /\ reply.body[1] = x
    BY <2>2, <2>3
  <2> HIDE DEF x, p
  <2>7. reply.body \in [1 .. 1 -> RecordType]
    <3>1. PICK y : y = x
      OBVIOUS
    <3>2. y \in RecordType
      BY <2>5, <3>1
    <3>3. <<y>> \in [1 .. 1 -> RecordType]
      BY <3>2, OneElement
    <3> QED BY <2>6, <3>1, <3>3
  <2>8. Address = [provider |-> Address.provider, snapshot |-> Address.snapshot, id |-> Address.id]
    BY <1>3, AddressFacts
  <2> QED BY <2>5, <2>6, <2>7, <2>8
<1> HIDE DEF named
<1>8. /\ DOMAIN query' = DOMAIN query /\ query'.pc = "done" /\ query'.kind = query.kind
      /\ query'.handle = query.handle /\ DOMAIN query'.answer = DOMAIN query.answer
      /\ query'.answer.records = IF named THEN reply.body ELSE <<>>
  BY <1>3, <1>4
<1>9. \A r : Authorized(r) => Authorized(r)'
  BY <1>1 DEF Authorized, Granted, Current
<1>10. QueryFine'
  <2>1. CASE named
    <3>1. query'.answer.records \in [1 .. 1 -> RecordType] /\ DOMAIN query'.answer.records = {1}
      BY <1>7, <1>8, <2>1
    <3> QED BY <1>3, <1>7, <1>8, <1>9, <2>1, <3>1 DEF QueryFine
  <2>2. CASE ~ named
    <3>1. query'.answer.records \in [1 .. 0 -> RecordType] /\ DOMAIN query'.answer.records = {}
      BY <1>8, <2>2
    <3> QED BY <1>3, <1>8, <2>2, <3>1 DEF QueryFine
  <2> QED BY <2>1, <2>2
<1>11. OwnersFine'
  BY <1>0, <1>1, <1>8 DEF OwnersFine
<1> QED BY <1>1, <1>8, <1>10, <1>11, JobsKeep DEF FederationInv

\* An accepted packet is one the provider made, and what is in it is authorized.
LEMMA AcceptedFacts ==
  ASSUME FederationInv, NEW p \in Provider, jobs[p].pc = "answered", Asks("context"), NEW r,
         r = Accepted(CHOOSE x \in jobs[p].reply : TRUE, p), r.error = ""
  PROVE  \E n : /\ Current(p, n) /\ Granted(p, jobs[p].grant)
                /\ r.body = <<ContextPacket(p, jobs[p].grant, n)>>
                /\ ValidPacket(ContextPacket(p, jobs[p].grant, n), p)
<1> DEFINE c == CHOOSE x \in jobs[p].reply : TRUE
<1>1. ContextReplied(p, jobs[p])
  BY DEF FederationInv, JobFine
<1>2. c.error = "" /\ ValidPacket(c.body[1], p) /\ r = c
  BY DEF Accepted
<1>3. ~ Failed(jobs[p].reply)
  <2> SUFFICES ASSUME Failed(jobs[p].reply) PROVE FALSE
    OBVIOUS
  <2>1. PICK code : code # "" /\ jobs[p].reply = {[error |-> code, body |-> <<>>]}
    BY DEF Failed, Error
  <2>2. c \in jobs[p].reply
    BY <2>1
  <2> HIDE DEF c
  <2> QED BY <1>2, <2>2, FailedReply
<1>4. ASSUME NEW x, jobs[p].reply = Reply(x) PROVE c.body = <<x>> /\ c.body[1] = x
  <2>1. c \in jobs[p].reply
    BY <1>4 DEF Reply
  <2> HIDE DEF c
  <2> QED BY <1>4, <2>1, Replied
<1>5. \A x : ~ (jobs[p].reply = Reply(x) /\ ~ ValidPacket(x, p))
  BY <1>2, <1>4
<1>6. PICK n : Current(p, n) /\ Granted(p, jobs[p].grant) /\ jobs[p].reply = Reply(ContextPacket(p, jobs[p].grant, n))
  BY <1>1, <1>3, <1>5 DEF ContextReplied
<1> HIDE DEF c
<1>7. c.body = <<ContextPacket(p, jobs[p].grant, n)>> /\ c.body[1] = ContextPacket(p, jobs[p].grant, n)
  BY <1>4, <1>6
<1> QED BY <1>2, <1>6, <1>7

\* The packets of all providers make one answer.
LEMMA Assembles ==
  ASSUME FederationInv, Assemble
  PROVE  FederationInv'
<1> DEFINE replies == [p \in Provider |-> Accepted(CHOOSE r \in jobs[p].reply : TRUE, p)]
           S == {p \in Provider : replies[p].error = ""}
           good == Ranked(S, <)
           groups == [i \in DOMAIN good |-> replies[good[i]].body[1].records]
           records == IF groups = <<>> THEN <<>> ELSE TakeTurns(groups)
           U == {r \in RecordType : Authorized(r)}
<1>0. OwnersFine /\ QueryFine
  BY DEF FederationInv
<1>1. /\ query.pc = "peers" /\ \A p \in Provider : jobs[p].pc = "answered"
      /\ UNCHANGED <<generation, grants, jobs, inForce>>
      /\ \E sources, degraded, omitted : query' = [query EXCEPT !.pc = "done", !.answer =
           [records |-> records, sources |-> sources, degraded |-> degraded, omitted |-> omitted]]
  BY DEF Assemble
<1>2. /\ query.kind = "context" /\ query.handle = {}
      /\ DOMAIN query = {"pc", "kind", "handle", "answer"}
  <2>1. DOMAIN query = {"pc", "kind", "handle", "answer"}
    BY <1>0 DEF QueryFine
  <2>2. query # NoQuery
    <3>1. NoQuery.pc = "idle"
      BY DEF NoQuery
    <3>2. query.pc = "peers"
      BY <1>1
    <3> QED BY <3>1, <3>2
  <2>3. query.pc = "peers"
    BY <1>1
  <2>4. query.kind = "context" /\ query.handle = {}
    BY <1>0, <2>2, <2>3 DEF QueryFine
  <2> QED BY <2>1, <2>4
<1>3. S \in SUBSET Nat /\ IsFiniteSet(S)
  <2>1. IsFiniteSet(Provider)
    BY FederationAssumption, FS_Interval DEF Provider
  <2> QED BY <2>1, LocalFacts, FS_Subset
<1>4. good \in Seq(S)
  <2> HIDE DEF S
  <2> QED BY <1>3, RankedNumbers
<1>5. ASSUME NEW p \in S PROVE replies[p].body[1].records \in Seq(U)
  <2>1. p \in Provider /\ replies[p].error = "" /\ Asks("context")
        /\ replies[p] = Accepted(CHOOSE r \in jobs[p].reply : TRUE, p)
    BY <1>2 DEF Asks
  <2>2. PICK n : /\ Current(p, n) /\ Granted(p, jobs[p].grant)
                 /\ replies[p].body = <<ContextPacket(p, jobs[p].grant, n)>>
    <3>1. PICK r : r = replies[p]
      OBVIOUS
    <3> HIDE DEF replies
    <3>2. r = Accepted(CHOOSE x \in jobs[p].reply : TRUE, p) /\ r.error = "" /\ jobs[p].pc = "answered"
      BY <1>1, <2>1, <3>1
    <3>3. \E n : /\ Current(p, n) /\ Granted(p, jobs[p].grant) /\ r.body = <<ContextPacket(p, jobs[p].grant, n)>>
      BY <2>1, <3>2, AcceptedFacts
    <3> QED BY <3>1, <3>3
  <2>3. replies[p].body[1] = ContextPacket(p, jobs[p].grant, n)
    <3>1. PICK b : b = replies[p].body
      OBVIOUS
    <3>2. PICK k : k = ContextPacket(p, jobs[p].grant, n)
      OBVIOUS
    <3>3. b = <<k>>
      BY <2>2, <3>1, <3>2
    <3>4. b[1] = k
      BY <3>3
    <3> HIDE DEF replies
    <3> QED BY <3>1, <3>2, <3>4
  <2>4. ContextPacket(p, jobs[p].grant, n).records \in Seq(Projected(p, jobs[p].grant, n))
    BY <2>1, <2>2, PacketRecords DEF Current
  <2>5. Projected(p, jobs[p].grant, n) \subseteq U
    BY <2>1, <2>2, PacketAuthorized
  <2> HIDE DEF replies, U
  <2>6. PICK V : V = Projected(p, jobs[p].grant, n)
    OBVIOUS
  <2>7. PICK all : all = ContextPacket(p, jobs[p].grant, n).records
    OBVIOUS
  <2>8. V \subseteq U /\ all \in Seq(V)
    BY <2>4, <2>5, <2>6, <2>7
  <2>9. all \in Seq(U)
    BY <2>8, LargerSeq
  <2> QED BY <2>3, <2>7, <2>9
<1> HIDE DEF S, U, replies
<1>6. groups \in Seq(Seq(U))
  <2>1. DOMAIN good = 1 .. Len(good) /\ Len(good) \in Nat /\ \A i \in 1 .. Len(good) : good[i] \in S
    <3> HIDE DEF good, S
    <3> QED BY <1>4
  <2> HIDE DEF good
  <2>2. groups \in [1 .. Len(good) -> Seq(U)]
    BY <1>5, <2>1
  <2> HIDE DEF groups
  <2> QED BY <2>1, <2>2, IsASeq
<1>7. records \in Seq(U)
  <2>1. Unmarked(U)
    BY AuthorizedUnmarked DEF U
  <2> HIDE DEF groups
  <2> QED BY <1>6, <2>1, TurnsRecords
<1> HIDE DEF records
<1>8. /\ DOMAIN query' = DOMAIN query /\ query'.pc = "done" /\ query'.kind = query.kind
      /\ query'.handle = query.handle /\ DOMAIN query'.answer = {"records", "sources", "degraded", "omitted"}
      /\ query'.answer.records = records
  BY <1>1, <1>2
<1>9. \A r : Authorized(r) => Authorized(r)'
  BY <1>1 DEF Authorized, Granted, Current
<1>10. QueryFine'
  <2>1. /\ Len(records) \in Nat /\ records \in [1 .. Len(records) -> RecordType]
        /\ \A i \in DOMAIN records : Authorized(records[i])
    BY <1>7 DEF U
  <2> QED BY <1>2, <1>8, <1>9, <2>1 DEF QueryFine
<1>11. OwnersFine'
  BY <1>0, <1>1, <1>8 DEF OwnersFine
<1> QED BY <1>1, <1>8, <1>10, <1>11, JobsKeep DEF FederationInv

\* Every step of federation.
LEMMA FederationSteps == FederationInv /\ [FederationNext]_federationVars => FederationInv'
<1> SUFFICES ASSUME FederationInv, [FederationNext]_federationVars PROVE FederationInv'
  OBVIOUS
<1>1. CASE UNCHANGED federationVars
  <2>1. UNCHANGED <<generation, grants, jobs, query, inForce>>
    BY <1>1 DEF federationVars
  <2>2. OwnersFine' /\ QueryFine'
    BY <2>1, QueryStays DEF FederationInv, OwnersFine
  <2>3. \A p \in Provider : JobFine(p, jobs[p])'
    BY <2>1, JobStays DEF FederationInv
  <2> QED BY <2>1, <2>2, <2>3 DEF FederationInv
<1>2. CASE \E p \in Provider : PublishKnowledge(p) \/ LoadGrants(p) \/ AnswerContext(p) \/ ReadCurrent(p)
         \/ ReadHistory(p) \/ Unavailable(p) \/ Misanswers(p)
  <2>1. ASSUME NEW p \in Provider, Unavailable(p) PROVE FederationInv'
    BY <2>1, OwnerFails DEF Unavailable
  <2> QED BY <1>2, <2>1, OwnerSteps, Loads, AnswersContext, ReadsCurrent, ReadsHistory, MisanswersAreFine
<1> QED BY <1>1, <1>2, OwnerSteps, Asking, Consults, Assembles, ReturnsEvidence, Forgets DEF FederationNext

\* What the invariant is for.
LEMMA FederationInvShows == FederationInv => DisclosureIsAuthorized
<1> SUFFICES ASSUME FederationInv, NEW i \in DOMAIN query.answer.records
             PROVE  LET r == query.answer.records[i]
                        p == r.provider
                    IN  /\ \E g \in {x[2] : x \in {x \in inForce.grants : x[1] = p}},
                              n \in {x[2] : x \in {x \in inForce.generations : x[1] = p}} :
                             /\ p = Local \/ g.mode # "none"
                             /\ {r.id} \cup r.contradicts \subseteq Allowed(p, g, n) \cap Allowed(p, g, r.snapshot)
                        /\ \E k \in Knowledge[p][r.snapshot] : k.id = r.id /\ k.evidence = r.evidence
                        /\ \A h \in query.handle : h = [provider |-> p, snapshot |-> r.snapshot, id |-> r.id]
  BY DEF DisclosureIsAuthorized
<1>1. PICK r : r = query.answer.records[i]
  OBVIOUS
<1>2. Authorized(r) /\ \A h \in query.handle : h = [provider |-> r.provider, snapshot |-> r.snapshot, id |-> r.id]
  BY <1>1 DEF FederationInv, QueryFine
<1>3. PICK g, n : /\ Granted(r.provider, g) /\ Current(r.provider, n)
                  /\ {r.id} \cup r.contradicts \subseteq Allowed(r.provider, g, n) \cap Allowed(r.provider, g, r.snapshot)
  BY <1>2 DEF Authorized
<1>4. /\ g \in {x[2] : x \in {x \in inForce.grants : x[1] = r.provider}}
      /\ n \in {x[2] : x \in {x \in inForce.generations : x[1] = r.provider}}
  BY <1>3 DEF Granted, Current
<1>5. r.provider = Local \/ g.mode # "none"
  BY <1>3 DEF Granted
<1>6. \E k \in Knowledge[r.provider][r.snapshot] : k.id = r.id /\ k.evidence = r.evidence
  BY <1>2 DEF Authorized
<1> QED BY <1>1, <1>2, <1>3, <1>4, <1>5, <1>6

\* No answer discloses more than a grant and a generation in force while its
\* query ran allowed, whatever peers answer and whenever grants are withdrawn
\* (knowledge_scope, query_local, assemble).
THEOREM DisclosureStaysAuthorized == FederationSpec => []DisclosureIsAuthorized
<1>1. FederationInv /\ [FederationNext]_federationVars => FederationInv'
  BY FederationSteps
<1> QED BY <1>1, FederationBegins, FederationInvShows, PTL DEF FederationSpec

-----------------------------------------------------------------------------
(* Searches: what is within so many edges, and the trees they leave.       *)

\* One edge further than B.
Around(rows, B) == B \cup UNION {{r.from, r.to} : r \in {r \in rows : {r.from, r.to} \cap B # {}}}
Balls(f, rows, S, n) == f = [k \in 0 .. n |-> IF k = 0 THEN S ELSE Around(rows, f[k - 1])]

\* What Balls says of each of them.
LEMMA BallsAre ==
  ASSUME NEW f, NEW rows, NEW S, NEW n \in Nat
  PROVE  Balls(f, rows, S, n) <=>
           /\ f = [k \in 0 .. n |-> f[k]] /\ f[0] = S
           /\ \A k \in 1 .. n : f[k] = Around(rows, f[k - 1])
<1>1. ASSUME Balls(f, rows, S, n)
      PROVE  f = [k \in 0 .. n |-> f[k]] /\ f[0] = S /\ \A k \in 1 .. n : f[k] = Around(rows, f[k - 1])
  <2> DEFINE h == [k \in 0 .. n |-> IF k = 0 THEN S ELSE Around(rows, f[k - 1])]
  <2>1. f = h
    BY <1>1 DEF Balls
  <2>2. h = [k \in 0 .. n |-> h[k]] /\ \A k \in 0 .. n : h[k] = IF k = 0 THEN S ELSE Around(rows, f[k - 1])
    OBVIOUS
  <2> HIDE DEF h
  <2>3. f = [k \in 0 .. n |-> f[k]] /\ \A k \in 0 .. n : f[k] = IF k = 0 THEN S ELSE Around(rows, f[k - 1])
    BY <2>1, <2>2
  <2>4. 0 \in 0 .. n /\ \A k \in 1 .. n : k \in 0 .. n /\ k # 0
    OBVIOUS
  <2>5. f[0] = S
    BY <2>3, <2>4
  <2>6. \A k \in 1 .. n : f[k] = Around(rows, f[k - 1])
    BY <2>3, <2>4
  <2> QED BY <2>3, <2>5, <2>6
<1>2. ASSUME f = [k \in 0 .. n |-> f[k]], f[0] = S, \A k \in 1 .. n : f[k] = Around(rows, f[k - 1])
      PROVE  Balls(f, rows, S, n)
  <2>1. \A k \in 0 .. n : f[k] = IF k = 0 THEN S ELSE Around(rows, f[k - 1])
    <3> SUFFICES ASSUME NEW k \in 0 .. n PROVE f[k] = IF k = 0 THEN S ELSE Around(rows, f[k - 1])
      OBVIOUS
    <3>1. CASE k = 0
      BY <1>2, <3>1
    <3>2. CASE k # 0
      <4>1. k \in 1 .. n
        BY <3>2
      <4> QED BY <1>2, <3>2, <4>1
    <3> QED BY <3>1, <3>2
  <2>2. [k \in 0 .. n |-> f[k]] = [k \in 0 .. n |-> IF k = 0 THEN S ELSE Around(rows, f[k - 1])]
    BY <2>1
  <2> QED BY <1>2, <2>2 DEF Balls
<1> QED BY <1>1, <1>2

\* There are such functions, and they agree.
LEMMA BallsExist ==
  ASSUME NEW rows, NEW S, NEW n \in Nat
  PROVE  \E f : Balls(f, rows, S, n)
<1> DEFINE P == {k \in Nat : \E f : Balls(f, rows, S, k)}
<1>1. 0 \in P
  <2> DEFINE f == [k \in 0 .. 0 |-> S]
  <2>1. f = [k \in 0 .. 0 |-> f[k]] /\ f[0] = S /\ \A k \in 1 .. 0 : f[k] = Around(rows, f[k - 1])
    OBVIOUS
  <2> HIDE DEF f
  <2>2. Balls(f, rows, S, 0)
    BY <2>1, BallsAre
  <2> QED BY <2>2
<1>2. ASSUME NEW k \in P PROVE k + 1 \in P
  <2>1. PICK f : Balls(f, rows, S, k)
    BY <1>2
  <2>2. f = [i \in 0 .. k |-> f[i]] /\ f[0] = S /\ \A i \in 1 .. k : f[i] = Around(rows, f[i - 1])
    BY <2>1, BallsAre
  <2> DEFINE g == [i \in 0 .. k + 1 |-> IF i <= k THEN f[i] ELSE Around(rows, f[k])]
  <2>3. g = [i \in 0 .. k + 1 |-> g[i]] /\ g[0] = S
    BY <2>2
  <2>4. ASSUME NEW i \in 1 .. k + 1 PROVE g[i] = Around(rows, g[i - 1])
    <3>1. CASE i <= k
      <4>1. i \in 1 .. k /\ i - 1 \in 0 .. k + 1 /\ i - 1 <= k /\ i \in 0 .. k + 1
        BY <3>1
      <4>2. g[i] = f[i] /\ g[i - 1] = f[i - 1]
        BY <4>1
      <4> HIDE DEF g
      <4> QED BY <2>2, <4>1, <4>2
    <3>2. CASE ~ (i <= k)
      <4>1. i = k + 1 /\ i - 1 = k /\ k \in 0 .. k + 1 /\ i \in 0 .. k + 1
        BY <3>2
      <4>2. g[i] = Around(rows, f[k]) /\ g[i - 1] = f[k]
        BY <3>2, <4>1
      <4> HIDE DEF g
      <4> QED BY <4>2
    <3> QED BY <3>1, <3>2
  <2> HIDE DEF g
  <2>5. Balls(g, rows, S, k + 1)
    <3>1. k + 1 \in Nat
      BY <1>2
    <3>2. \A i \in 1 .. k + 1 : g[i] = Around(rows, g[i - 1])
      BY <2>4
    <3> QED BY <2>3, <3>1, <3>2, BallsAre
  <2> QED BY <2>5
<1>3. P \in SUBSET Nat
  OBVIOUS
<1> HIDE DEF P
<1>4. P = Nat
  BY <1>1, <1>2, <1>3, AllNumbers
<1> QED BY <1>4 DEF P

\* They agree as far as both go.
LEMMA BallsAgree ==
  ASSUME NEW rows, NEW S, NEW m \in Nat, NEW n \in Nat, NEW f, NEW g,
         Balls(f, rows, S, m), Balls(g, rows, S, n)
  PROVE  \A k \in Nat : k <= m /\ k <= n => f[k] = g[k]
<1> DEFINE P == {k \in Nat : k <= m /\ k <= n => f[k] = g[k]}
<1>0. /\ f[0] = S /\ \A i \in 1 .. m : f[i] = Around(rows, f[i - 1])
      /\ g[0] = S /\ \A i \in 1 .. n : g[i] = Around(rows, g[i - 1])
  BY BallsAre
<1>1. 0 \in P
  BY <1>0
<1>2. ASSUME NEW k \in P PROVE k + 1 \in P
  <2> SUFFICES ASSUME k + 1 <= m, k + 1 <= n PROVE f[k + 1] = g[k + 1]
    OBVIOUS
  <2>1. k + 1 \in 1 .. m /\ k + 1 \in 1 .. n /\ (k + 1) - 1 = k /\ f[k] = g[k]
    BY <1>2
  <2> HIDE DEF P
  <2> QED BY <1>0, <2>1
<1>3. P \in SUBSET Nat
  OBVIOUS
<1> HIDE DEF P
<1>4. P = Nat
  BY <1>1, <1>2, <1>3, AllNumbers
<1> QED BY <1>4 DEF P

\* Within is one edge further with each number.
LEMMA WithinBalls ==
  ASSUME NEW rows, NEW S, NEW n \in Nat
  PROVE  \E f : Balls(f, rows, S, n) /\ Within(rows, S, n) = f[n]
<1>1. Within(rows, S, n) = (CHOOSE f : Balls(f, rows, S, n))[n]
  BY DEF Within, Balls, Around
<1> QED BY <1>1, BallsExist

\* Within, one step at a time.
LEMMA WithinSteps ==
  ASSUME NEW rows, NEW S
  PROVE  /\ Within(rows, S, 0) = S
         /\ \A n \in Nat : Within(rows, S, n + 1) = Around(rows, Within(rows, S, n))
<1>1. Within(rows, S, 0) = S
  <2>1. PICK f : Balls(f, rows, S, 0) /\ Within(rows, S, 0) = f[0]
    BY WithinBalls
  <2> QED BY <2>1, BallsAre
<1>2. ASSUME NEW n \in Nat PROVE Within(rows, S, n + 1) = Around(rows, Within(rows, S, n))
  <2>1. PICK f : Balls(f, rows, S, n) /\ Within(rows, S, n) = f[n]
    BY WithinBalls
  <2>2. n + 1 \in Nat
    OBVIOUS
  <2>3. PICK g : Balls(g, rows, S, n + 1) /\ Within(rows, S, n + 1) = g[n + 1]
    BY <2>2, WithinBalls
  <2>4. f[n] = g[n]
    BY <2>1, <2>2, <2>3, BallsAgree
  <2>5. g[n + 1] = Around(rows, g[(n + 1) - 1])
    BY <2>2, <2>3, BallsAre
  <2> QED BY <2>1, <2>3, <2>4, <2>5
<1> QED BY <1>1, <1>2

\* The entities one edge away from v.
Beside(rows, v) == Within(rows, {v}, 1) \ {v}
AtDist(rows, S, v, d) == v \in Within(rows, S, d) /\ (d > 0 => v \notin Within(rows, S, d - 1))

\* An entity is beside another one when a row has both.
LEMMA BesideRows ==
  ASSUME NEW rows, NEW v, NEW u
  PROVE  u \in Beside(rows, v) <=> u # v /\ \E r \in rows : v \in {r.from, r.to} /\ u \in {r.from, r.to}
<1>1. Within(rows, {v}, 1) = Around(rows, {v})
  <2>1. 0 \in Nat /\ 0 + 1 = 1
    OBVIOUS
  <2>2. Within(rows, {v}, 0 + 1) = Around(rows, Within(rows, {v}, 0))
    BY <2>1, WithinSteps
  <2> QED BY <2>1, <2>2, WithinSteps
<1>2. u \in Around(rows, {v}) <=> u = v \/ \E r \in rows : v \in {r.from, r.to} /\ u \in {r.from, r.to}
  BY DEF Around
<1> QED BY <1>1, <1>2 DEF Beside

\* One edge further, element by element.
LEMMA OneFurther ==
  ASSUME NEW rows, NEW S, NEW n \in Nat, NEW u
  PROVE  u \in Within(rows, S, n + 1) <=>
           u \in Within(rows, S, n) \/ \E v \in Within(rows, S, n) : u \in Beside(rows, v)
<1>1. Within(rows, S, n + 1) = Around(rows, Within(rows, S, n))
  BY WithinSteps
<1> DEFINE B == Within(rows, S, n)
<1> HIDE DEF B
<1>2. u \in Around(rows, B) <=> u \in B \/ \E r \in rows : \E v \in B : v \in {r.from, r.to} /\ u \in {r.from, r.to}
  BY DEF Around
<1>3. (\E r \in rows : \E v \in B : v \in {r.from, r.to} /\ u \in {r.from, r.to}) => u \in B \/ \E v \in B : u \in Beside(rows, v)
  BY BesideRows
<1>4. (\E v \in B : u \in Beside(rows, v)) => \E r \in rows : \E v \in B : v \in {r.from, r.to} /\ u \in {r.from, r.to}
  BY BesideRows
<1> QED BY <1>1, <1>2, <1>3, <1>4 DEF B

\* More edges reach more.
LEMMA WithinGrows ==
  ASSUME NEW rows, NEW S, NEW m \in Nat, NEW n \in Nat, m <= n
  PROVE  Within(rows, S, m) \subseteq Within(rows, S, n)
<1> DEFINE P == {k \in Nat : Within(rows, S, m) \subseteq Within(rows, S, m + k)}
<1>1. 0 \in P
  OBVIOUS
<1>2. ASSUME NEW k \in P PROVE k + 1 \in P
  <2>1. m + k \in Nat /\ m + (k + 1) = (m + k) + 1 /\ k + 1 \in Nat
    OBVIOUS
  <2>2. Within(rows, S, m + k) \subseteq Within(rows, S, (m + k) + 1)
    BY <2>1, OneFurther
  <2> QED BY <2>1, <2>2, <1>2
<1>3. P \in SUBSET Nat
  OBVIOUS
<1> HIDE DEF P
<1>4. P = Nat
  BY <1>1, <1>2, <1>3, AllNumbers
<1>5. n - m \in P /\ m + (n - m) = n
  BY <1>4
<1> QED BY <1>5 DEF P

\* What is within reach has a distance, and only one.
LEMMA HasDistance ==
  ASSUME NEW rows, NEW S, NEW n \in Nat, NEW v \in Within(rows, S, n)
  PROVE  \E d \in Nat : d <= n /\ AtDist(rows, S, v, d)
<1> DEFINE D == {d \in Nat : v \in Within(rows, S, d)}
<1>1. n \in D /\ D \in SUBSET Nat /\ D # {}
  OBVIOUS
<1>2. PICK d \in D : \A k \in D : d <= k
  <2> HIDE DEF D
  <2> QED BY <1>1, LeastNumber
<1>3. d > 0 => v \notin Within(rows, S, d - 1)
  <2> SUFFICES ASSUME d > 0, v \in Within(rows, S, d - 1) PROVE FALSE
    OBVIOUS
  <2>1. d \in Nat /\ d - 1 \in Nat
    OBVIOUS
  <2>2. d - 1 \in D
    BY <2>1
  <2>3. d <= d - 1
    BY <1>2, <2>2
  <2> QED BY <2>1, <2>3
<1>4. v \in Within(rows, S, d)
  OBVIOUS
<1> QED BY <1>1, <1>2, <1>3, <1>4 DEF AtDist

\* Nothing is nearer than its distance.
LEMMA Nearest ==
  ASSUME NEW rows, NEW S, NEW v, NEW d \in Nat, NEW e \in Nat, AtDist(rows, S, v, d), v \in Within(rows, S, e)
  PROVE  d <= e
<1> SUFFICES ASSUME ~ (d <= e) PROVE FALSE
  OBVIOUS
<1>1. d > 0 /\ d - 1 \in Nat /\ e <= d - 1
  OBVIOUS
<1>2. Within(rows, S, e) \subseteq Within(rows, S, d - 1)
  BY <1>1, WithinGrows
<1> QED BY <1>1, <1>2 DEF AtDist

\* It has one distance.
LEMMA OneDistance ==
  ASSUME NEW rows, NEW S, NEW v, NEW d \in Nat, NEW e \in Nat, AtDist(rows, S, v, d), AtDist(rows, S, v, e)
  PROVE  d = e
<1>1. v \in Within(rows, S, d) /\ v \in Within(rows, S, e)
  BY DEF AtDist
<1>2. d <= e /\ e <= d
  BY <1>1, Nearest
<1> QED BY <1>2

\* The next distance.
LEMMA NextDistance ==
  ASSUME NEW rows, NEW S, NEW v, NEW u, NEW d \in Nat, AtDist(rows, S, v, d), u \in Beside(rows, v),
         u \notin Within(rows, S, d)
  PROVE  AtDist(rows, S, u, d + 1)
<1>1. v \in Within(rows, S, d)
  BY DEF AtDist
<1>2. u \in Within(rows, S, d + 1) /\ (d + 1) - 1 = d
  BY <1>1, OneFurther
<1> QED BY <1>2 DEF AtDist

\* A set that has the beginning and, up to a distance, all that is beside its
\* members has all within that distance.
LEMMA Covers ==
  ASSUME NEW rows, NEW S, NEW n \in Nat, NEW seen, S \subseteq seen,
         \A v \in seen, d \in Nat : AtDist(rows, S, v, d) /\ d < n => Beside(rows, v) \subseteq seen
  PROVE  Within(rows, S, n) \subseteq seen
<1> DEFINE P == {k \in Nat : k <= n => Within(rows, S, k) \subseteq seen}
<1>1. 0 \in P
  BY WithinSteps
<1>2. ASSUME NEW k \in P PROVE k + 1 \in P
  <2> SUFFICES ASSUME k + 1 <= n, NEW u \in Within(rows, S, k + 1) PROVE u \in seen
    OBVIOUS
  <2>1. k <= n /\ k < n /\ k \in Nat /\ Within(rows, S, k) \subseteq seen
    BY <1>2
  <2> HIDE DEF P
  <2>2. CASE u \in Within(rows, S, k)
    BY <2>1, <2>2
  <2>3. ASSUME NEW v \in Within(rows, S, k), u \in Beside(rows, v) PROVE u \in seen
    <3>1. PICK d \in Nat : d <= k /\ AtDist(rows, S, v, d)
      BY <2>1, HasDistance
    <3>2. d < n /\ v \in seen
      BY <2>1, <3>1
    <3> QED BY <2>3, <3>1, <3>2
  <2> QED BY <2>1, <2>2, <2>3, OneFurther
<1>3. P \in SUBSET Nat
  OBVIOUS
<1> HIDE DEF P
<1>4. P = Nat
  BY <1>1, <1>2, <1>3, AllNumbers
<1>5. n \in P
  BY <1>4
<1> QED BY <1>5 DEF P

\* Rows that stay inside lead nowhere else.
LEMMA StaysInside ==
  ASSUME NEW rows, NEW N, \A r \in rows : r.from \in N /\ r.to \in N, NEW v \in N
  PROVE  Beside(rows, v) \subseteq N
BY BesideRows

\* A search tree: what was seen is at a distance, and has one parent that is
\* one edge nearer.
Tree(rows, S, seen, parents) ==
  /\ S \subseteq seen /\ IsFiniteSet(parents) /\ parents \subseteq seen \X seen
  /\ \A v \in seen : \E d \in Nat : AtDist(rows, S, v, d) /\ d <= Cardinality(parents)
  /\ \A e \in parents : /\ e[1] \in Beside(rows, e[2])
                        /\ \E d \in Nat : AtDist(rows, S, e[2], d) /\ AtDist(rows, S, e[1], d + 1)
  /\ \A v \in seen \ S : \E e \in parents : e[1] = v
  /\ \A e, f \in parents : e[1] = f[1] => e = f

\* The beginning of a search.
LEMMA TreeBegins ==
  ASSUME NEW rows, NEW S
  PROVE  Tree(rows, S, S, {})
<1>1. \A v \in S : AtDist(rows, S, v, 0) /\ 0 <= Cardinality({}) /\ IsFiniteSet({})
  BY WithinSteps, FS_EmptySet DEF AtDist
<1> QED BY <1>1, FS_EmptySet DEF Tree

\* Another entity is seen.
LEMMA TreeGrows ==
  ASSUME NEW rows, NEW S, NEW seen, NEW parents, Tree(rows, S, seen, parents),
         NEW v \in seen, NEW d \in Nat, AtDist(rows, S, v, d), NEW u, u \notin seen, u \in Beside(rows, v),
         Within(rows, S, d) \subseteq seen
  PROVE  /\ Tree(rows, S, seen \cup {u}, parents \cup {<<u, v>>}) /\ AtDist(rows, S, u, d + 1)
         /\ Cardinality(parents \cup {<<u, v>>}) = Cardinality(parents) + 1
<1> DEFINE more == parents \cup {<<u, v>>}
           e0 == <<u, v>>
<1>1. AtDist(rows, S, u, d + 1)
  BY NextDistance
<1>2. e0 \notin parents /\ e0[1] = u /\ e0[2] = v
  BY DEF Tree
<1> HIDE DEF e0
<1>3. IsFiniteSet(more) /\ Cardinality(more) = Cardinality(parents) + 1 /\ Cardinality(parents) \in Nat
  BY <1>2, FS_AddElement, FS_CardinalityType DEF Tree, e0
<1>4. d <= Cardinality(parents)
  <2>1. PICK e \in Nat : AtDist(rows, S, v, e) /\ e <= Cardinality(parents)
    BY DEF Tree
  <2> QED BY <2>1, OneDistance
<1> HIDE DEF more
<1>5. ASSUME NEW w \in seen \cup {u} PROVE \E e \in Nat : AtDist(rows, S, w, e) /\ e <= Cardinality(more)
  <2>1. CASE w = u
    <3>1. d + 1 \in Nat /\ d + 1 <= Cardinality(more)
      BY <1>3, <1>4
    <3> QED BY <1>1, <2>1, <3>1
  <2>2. CASE w \in seen
    <3>1. PICK e \in Nat : AtDist(rows, S, w, e) /\ e <= Cardinality(parents)
      BY <2>2 DEF Tree
    <3> QED BY <1>3, <3>1
  <2> QED BY <2>1, <2>2
<1>6. more = parents \cup {e0}
  BY DEF more, e0
<1>7. ASSUME NEW e \in more
      PROVE  e[1] \in Beside(rows, e[2]) /\ \E k \in Nat : AtDist(rows, S, e[2], k) /\ AtDist(rows, S, e[1], k + 1)
  <2>1. CASE e \in parents
    BY <2>1 DEF Tree
  <2>2. CASE e = e0
    BY <1>1, <1>2, <2>2
  <2> QED BY <1>6, <2>1, <2>2
<1>8. \A w \in (seen \cup {u}) \ S : \E e \in more : e[1] = w
  BY <1>2, <1>6 DEF Tree
<1>9. \A e, f \in more : e[1] = f[1] => e = f
  <2>1. \A e \in parents : e[1] # u
    BY DEF Tree
  <2>2. \A e, f \in parents : e[1] = f[1] => e = f
    BY DEF Tree
  <2> QED BY <1>2, <1>6, <2>1, <2>2
<1>10. S \subseteq seen \cup {u} /\ more \subseteq (seen \cup {u}) \X (seen \cup {u})
  <2>1. e0 \in (seen \cup {u}) \X (seen \cup {u})
    BY DEF e0
  <2>2. S \subseteq seen /\ parents \subseteq seen \X seen
    BY DEF Tree
  <2>3. seen \X seen \subseteq (seen \cup {u}) \X (seen \cup {u})
    OBVIOUS
  <2> QED BY <1>6, <2>1, <2>2, <2>3
<1>11. Tree(rows, S, seen \cup {u}, more)
  BY <1>3, <1>5, <1>7, <1>8, <1>9, <1>10 DEF Tree
<1> QED BY <1>1, <1>3, <1>11 DEF more

\* The frontier of a search that goes hops far: what waits, in the order of its
\* distance, and what is being expanded.
Frontier(rows, S, seen, queue, open, hops) ==
  /\ queue \in Seq(seen \X Nat) /\ open \subseteq seen \X Nat /\ S \subseteq seen
  /\ \A i \in DOMAIN queue : AtDist(rows, S, queue[i][1], queue[i][2])
  /\ \A i, j \in DOMAIN queue : i <= j => queue[i][2] <= queue[j][2] /\ queue[j][2] <= queue[i][2] + 1
  /\ \A o \in open : /\ AtDist(rows, S, o[1], o[2])
                     /\ \A i \in DOMAIN queue : o[2] <= queue[i][2] /\ queue[i][2] <= o[2] + 1
  /\ \A v \in seen : \/ \E i \in DOMAIN queue : queue[i][1] = v
                     \/ \E o \in open : o[1] = v
                     \/ \A d \in Nat : AtDist(rows, S, v, d) /\ d < hops => Beside(rows, v) \subseteq seen

\* What is expanded is nearest: everything as near has been seen.
LEMMA OpenIsNearest ==
  ASSUME NEW rows, NEW S, NEW seen, NEW queue, NEW hops \in Nat, NEW v, NEW d \in Nat, d <= hops,
         Frontier(rows, S, seen, queue, {<<v, d>>}, hops)
  PROVE  Within(rows, S, d) \subseteq seen /\ v \in seen /\ AtDist(rows, S, v, d)
<1> DEFINE o == <<v, d>>
<1>1. o[1] = v /\ o[2] = d /\ o \in {<<v, d>>} /\ \A x \in {<<v, d>>} : x = o
  OBVIOUS
<1>2. v \in seen /\ AtDist(rows, S, v, d) /\ \A i \in DOMAIN queue : d <= queue[i][2]
  BY <1>1 DEF Frontier
<1>3. ASSUME NEW w \in seen, NEW e \in Nat, AtDist(rows, S, w, e), e < d PROVE Beside(rows, w) \subseteq seen
  <2>1. ASSUME NEW i \in DOMAIN queue, queue[i][1] = w PROVE FALSE
    <3>1. AtDist(rows, S, w, queue[i][2]) /\ queue[i][2] \in Nat
      BY <2>1 DEF Frontier
    <3>2. queue[i][2] = e
      BY <1>3, <3>1, OneDistance
    <3>3. d <= queue[i][2]
      BY <1>2
    <3> QED BY <1>3, <3>2, <3>3
  <2>2. ASSUME w = v PROVE FALSE
    <3>1. e = d
      BY <1>2, <1>3, <2>2, OneDistance
    <3> QED BY <1>3, <3>1
  <2>3. e < hops
    BY <1>3
  <2>4. \/ \E i \in DOMAIN queue : queue[i][1] = w
        \/ \E x \in {<<v, d>>} : x[1] = w
        \/ \A k \in Nat : AtDist(rows, S, w, k) /\ k < hops => Beside(rows, w) \subseteq seen
    BY DEF Frontier
  <2>5. \A x \in {<<v, d>>} : x[1] = v
    OBVIOUS
  <2> HIDE DEF o
  <2> QED BY <1>3, <2>1, <2>2, <2>3, <2>4, <2>5
<1>4. S \subseteq seen
  BY DEF Frontier
<1> QED BY <1>2, <1>3, <1>4, Covers

\* The queue that holds an order of entities, each at distance 0.
AtZero(order, n) == [i \in 1 .. n |-> <<order[i], 0>>]

\* What a search begins with.
LEMMA FrontierBegins ==
  ASSUME NEW rows, NEW S, NEW n \in Nat, NEW order \in [1 .. n -> S], \A v \in S : \E i \in 1 .. n : order[i] = v,
         NEW hops
  PROVE  Frontier(rows, S, S, AtZero(order, n), {}, hops)
<1> DEFINE queue == [i \in 1 .. n |-> <<order[i], 0>>]
<1>1. queue \in Seq(S \X Nat)
  <2>1. queue \in [1 .. n -> S \X Nat]
    OBVIOUS
  <2> HIDE DEF queue
  <2> QED BY <2>1, IsASeq
<1>2. DOMAIN queue = 1 .. n /\ \A i \in 1 .. n : queue[i][1] = order[i] /\ queue[i][2] = 0
  OBVIOUS
<1> HIDE DEF queue
<1>3. \A i \in DOMAIN queue : AtDist(rows, S, queue[i][1], queue[i][2])
  <2>1. \A v \in S : AtDist(rows, S, v, 0)
    BY WithinSteps DEF AtDist
  <2> QED BY <1>2, <2>1
<1>4. \A i, j \in DOMAIN queue : i <= j => queue[i][2] <= queue[j][2] /\ queue[j][2] <= queue[i][2] + 1
  BY <1>2
<1>5. \A v \in S : \E i \in DOMAIN queue : queue[i][1] = v
  BY <1>2
<1>6. Frontier(rows, S, S, queue, {}, hops)
  BY <1>1, <1>3, <1>4, <1>5 DEF Frontier
<1> QED BY <1>6 DEF queue, AtZero

\* Another entity is seen from the one that is expanded.
LEMMA FrontierGrows ==
  ASSUME NEW rows, NEW S, NEW seen, NEW queue, NEW hops, NEW v, NEW d \in Nat,
         Frontier(rows, S, seen, queue, {<<v, d>>}, hops), NEW u, AtDist(rows, S, u, d + 1)
  PROVE  Frontier(rows, S, seen \cup {u}, Append(queue, <<u, d + 1>>), {<<v, d>>}, hops)
<1> DEFINE o == <<v, d>>
           e == <<u, d + 1>>
           q == Append(queue, e)
           n == Len(queue)
           more == seen \cup {u}
<1>1. o[1] = v /\ o[2] = d /\ e[1] = u /\ e[2] = d + 1 /\ e \in more \X Nat
  OBVIOUS
<1>2. /\ queue \in Seq(seen \X Nat) /\ {o} \subseteq seen \X Nat /\ S \subseteq seen
      /\ \A i \in DOMAIN queue : AtDist(rows, S, queue[i][1], queue[i][2])
      /\ \A i, j \in DOMAIN queue : i <= j => queue[i][2] <= queue[j][2] /\ queue[j][2] <= queue[i][2] + 1
      /\ \A x \in {o} : /\ AtDist(rows, S, x[1], x[2])
                        /\ \A i \in DOMAIN queue : x[2] <= queue[i][2] /\ queue[i][2] <= x[2] + 1
      /\ \A w \in seen : \/ \E i \in DOMAIN queue : queue[i][1] = w
                         \/ \E x \in {o} : x[1] = w
                         \/ \A k \in Nat : AtDist(rows, S, w, k) /\ k < hops => Beside(rows, w) \subseteq seen
  BY DEF Frontier
<1> HIDE DEF o, e
<1>3. queue \in Seq(more \X Nat) /\ {o} \subseteq more \X Nat /\ S \subseteq more
  <2>1. seen \X Nat \subseteq more \X Nat /\ S \subseteq more
    BY <1>2
  <2> DEFINE A == seen \X Nat
             B == more \X Nat
  <2>2. A \subseteq B /\ queue \in Seq(A)
    BY <1>2, <2>1
  <2> HIDE DEF A, B
  <2>3. queue \in Seq(B)
    BY <2>2, LargerSeq
  <2> QED BY <1>2, <2>1, <2>3 DEF A, B
<1>4. /\ q \in Seq(more \X Nat) /\ n \in Nat /\ DOMAIN queue = 1 .. n /\ DOMAIN q = 1 .. n + 1
      /\ q[n + 1] = e /\ \A i \in 1 .. n : q[i] = queue[i]
  <2> DEFINE B == more \X Nat
  <2>1. queue \in Seq(B) /\ e \in B
    BY <1>1, <1>3
  <2> HIDE DEF B
  <2>2. /\ q \in Seq(B) /\ n \in Nat /\ DOMAIN queue = 1 .. n /\ DOMAIN q = 1 .. n + 1
        /\ q[n + 1] = e /\ \A i \in 1 .. n : q[i] = queue[i]
    BY <2>1
  <2> QED BY <2>2 DEF B
<1> HIDE DEF q, n
<1>5. \A i \in 1 .. n : queue[i][2] \in Nat /\ d <= queue[i][2] /\ queue[i][2] <= d + 1
  <2>1. \A i \in 1 .. n : queue[i] \in seen \X Nat
    BY <1>2, <1>4
  <2> QED BY <1>1, <1>2, <1>4, <2>1
<1>6. \A i \in DOMAIN q : i = n + 1 \/ i \in 1 .. n
  BY <1>4
<1>7. \A i \in DOMAIN q : AtDist(rows, S, q[i][1], q[i][2])
  BY <1>1, <1>2, <1>4, <1>6
<1>8. ASSUME NEW i \in DOMAIN q, NEW j \in DOMAIN q, i <= j
      PROVE  q[i][2] <= q[j][2] /\ q[j][2] <= q[i][2] + 1
  <2>1. CASE j \in 1 .. n
    <3>1. i \in 1 .. n
      BY <1>4, <1>8, <2>1
    <3> QED BY <1>2, <1>4, <1>8, <2>1, <3>1
  <2>2. CASE j = n + 1 /\ i \in 1 .. n
    <3>1. q[j][2] = d + 1 /\ q[i][2] = queue[i][2]
      BY <1>1, <1>4, <2>2
    <3>2. queue[i][2] \in Nat /\ d <= queue[i][2] /\ queue[i][2] <= d + 1
      BY <1>5, <2>2
    <3> QED BY <3>1, <3>2
  <2>3. CASE j = n + 1 /\ i = n + 1
    <3>1. q[j][2] = d + 1 /\ q[i][2] = d + 1
      BY <1>1, <1>4, <2>3
    <3> QED BY <3>1
  <2> QED BY <1>6, <2>1, <2>2, <2>3
<1>9. ASSUME NEW x \in {o}
      PROVE  AtDist(rows, S, x[1], x[2]) /\ \A i \in DOMAIN q : x[2] <= q[i][2] /\ q[i][2] <= x[2] + 1
  <2>1. x[2] = d /\ AtDist(rows, S, x[1], x[2])
    BY <1>1, <1>2
  <2>2. ASSUME NEW i \in DOMAIN q PROVE d <= q[i][2] /\ q[i][2] <= d + 1
    <3>1. CASE i = n + 1
      <4>1. q[i][2] = d + 1
        BY <1>1, <1>4, <3>1
      <4> QED BY <4>1
    <3>2. CASE i \in 1 .. n
      BY <1>4, <1>5, <3>2
    <3> QED BY <1>6, <3>1, <3>2
  <2> QED BY <2>1, <2>2
<1>10. ASSUME NEW w \in more
       PROVE  \/ \E i \in DOMAIN q : q[i][1] = w
              \/ \E x \in {o} : x[1] = w
              \/ \A k \in Nat : AtDist(rows, S, w, k) /\ k < hops => Beside(rows, w) \subseteq more
  <2>1. CASE w = u
    <3>1. n + 1 \in DOMAIN q /\ q[n + 1][1] = u
      BY <1>1, <1>4
    <3> QED BY <2>1, <3>1
  <2>2. CASE w \in seen
    <3>1. ASSUME NEW i \in 1 .. n, queue[i][1] = w PROVE \E k \in DOMAIN q : q[k][1] = w
      <4>1. i \in DOMAIN q /\ q[i] = queue[i]
        BY <1>4
      <4> QED BY <3>1, <4>1
    <3> QED BY <1>2, <1>4, <2>2, <3>1
  <2> QED BY <2>1, <2>2
<1>11. Frontier(rows, S, more, q, {o}, hops)
  BY <1>3, <1>4, <1>7, <1>8, <1>9, <1>10 DEF Frontier
<1> QED BY <1>11 DEF q, o, e

\* The first that waits is expanded.
LEMMA FrontierPops ==
  ASSUME NEW rows, NEW S, NEW seen, NEW queue, NEW hops, Frontier(rows, S, seen, queue, {}, hops), queue # <<>>
  PROVE  /\ Frontier(rows, S, seen, Tail(queue), {Head(queue)}, hops)
         /\ Head(queue) = <<Head(queue)[1], Head(queue)[2]>> /\ Head(queue)[2] \in Nat /\ Head(queue)[1] \in seen
         /\ Len(queue) = Len(Tail(queue)) + 1
<1> DEFINE q == Tail(queue)
           o == Head(queue)
           n == Len(queue)
           A == seen \X Nat
<1>1. /\ queue \in Seq(A) /\ S \subseteq seen
      /\ \A i \in DOMAIN queue : AtDist(rows, S, queue[i][1], queue[i][2])
      /\ \A i, j \in DOMAIN queue : i <= j => queue[i][2] <= queue[j][2] /\ queue[j][2] <= queue[i][2] + 1
      /\ \A w \in seen : \/ \E i \in DOMAIN queue : queue[i][1] = w
                         \/ \A k \in Nat : AtDist(rows, S, w, k) /\ k < hops => Beside(rows, w) \subseteq seen
  BY DEF Frontier
<1>2. \A x \in A : x = <<x[1], x[2]>> /\ x[2] \in Nat /\ x[1] \in seen
  OBVIOUS
<1> HIDE DEF A
<1>3. /\ q \in Seq(A) /\ o \in A /\ n \in Nat \ {0} /\ DOMAIN queue = 1 .. n /\ DOMAIN q = 1 .. n - 1
      /\ o = queue[1] /\ \A i \in 1 .. n - 1 : q[i] = queue[i + 1]
      /\ Len(q) = n - 1
  BY <1>1
<1> HIDE DEF q, o, n
<1>4. \A i \in 1 .. n - 1 : i \in 1 .. n /\ i + 1 \in 1 .. n /\ 1 <= i + 1 /\ 1 \in 1 .. n
  BY <1>3
<1>5. \A i \in DOMAIN q : AtDist(rows, S, q[i][1], q[i][2]) /\ o[2] <= q[i][2] /\ q[i][2] <= o[2] + 1
  BY <1>1, <1>3, <1>4
<1>6. ASSUME NEW i \in DOMAIN q, NEW j \in DOMAIN q, i <= j
      PROVE  q[i][2] <= q[j][2] /\ q[j][2] <= q[i][2] + 1
  <2>1. i + 1 \in DOMAIN queue /\ j + 1 \in DOMAIN queue /\ i + 1 <= j + 1
    BY <1>3, <1>4, <1>6
  <2> QED BY <1>1, <1>3, <2>1
<1>7. ASSUME NEW w \in seen
      PROVE  \/ \E i \in DOMAIN q : q[i][1] = w
             \/ \E x \in {o} : x[1] = w
             \/ \A k \in Nat : AtDist(rows, S, w, k) /\ k < hops => Beside(rows, w) \subseteq seen
  <2>1. ASSUME NEW i \in DOMAIN queue, queue[i][1] = w, i # 1 PROVE \E j \in DOMAIN q : q[j][1] = w
    <3>1. i - 1 \in DOMAIN q /\ (i - 1) + 1 = i
      BY <1>3, <2>1
    <3>2. q[i - 1] = queue[i]
      BY <1>3, <3>1
    <3> QED BY <2>1, <3>1, <3>2
  <2> QED BY <1>1, <1>3, <2>1
<1>8. AtDist(rows, S, o[1], o[2])
  <2>1. 1 \in DOMAIN queue
    BY <1>3
  <2> QED BY <1>1, <1>3, <2>1
<1>9. Frontier(rows, S, seen, q, {o}, hops)
  BY <1>1, <1>3, <1>5, <1>6, <1>7, <1>8 DEF Frontier, A
<1> QED BY <1>2, <1>3, <1>9 DEF q, o, n

\* What is expanded has no neighbour left to see, or is as far as the search goes.
LEMMA FrontierCloses ==
  ASSUME NEW rows, NEW S, NEW seen, NEW queue, NEW hops \in Nat, NEW v, NEW d \in Nat,
         Frontier(rows, S, seen, queue, {<<v, d>>}, hops), d < hops => Beside(rows, v) \subseteq seen
  PROVE  Frontier(rows, S, seen, queue, {}, hops)
<1> DEFINE o == <<v, d>>
<1>1. o[1] = v /\ o[2] = d
  OBVIOUS
<1> HIDE DEF o
<1>2. AtDist(rows, S, v, d)
  BY <1>1 DEF Frontier, o
<1>3. ASSUME NEW w \in seen
      PROVE  \/ \E i \in DOMAIN queue : queue[i][1] = w
             \/ \A k \in Nat : AtDist(rows, S, w, k) /\ k < hops => Beside(rows, w) \subseteq seen
  <2>1. ASSUME w = v, NEW k \in Nat, AtDist(rows, S, w, k), k < hops PROVE Beside(rows, w) \subseteq seen
    <3>1. k = d
      BY <1>2, <2>1, OneDistance
    <3> QED BY <2>1, <3>1
  <2>2. \A x \in {<<v, d>>} : x[1] = v
    OBVIOUS
  <2>3. \/ \E i \in DOMAIN queue : queue[i][1] = w
        \/ \E x \in {<<v, d>>} : x[1] = w
        \/ \A k \in Nat : AtDist(rows, S, w, k) /\ k < hops => Beside(rows, w) \subseteq seen
    BY DEF Frontier
  <2> QED BY <2>1, <2>2, <2>3
<1> QED BY <1>3 DEF Frontier

\* When nothing waits, everything within the hops has been seen.
LEMMA FrontierEnds ==
  ASSUME NEW rows, NEW S, NEW seen, NEW hops \in Nat, Frontier(rows, S, seen, <<>>, {}, hops)
  PROVE  Within(rows, S, hops) \subseteq seen
<1>1. \A v \in seen, d \in Nat : AtDist(rows, S, v, d) /\ d < hops => Beside(rows, v) \subseteq seen
  BY DEF Frontier
<1>2. S \subseteq seen
  BY DEF Frontier
<1> QED BY <1>1, <1>2, Covers

\* One step back along the parents.
Longer(parents, path) ==
  LET p == {e[2] : e \in {e \in parents : e[1] = Head(path)}}
  IN  IF p = {} THEN path ELSE <<CHOOSE u \in p : TRUE>> \o path
Backwards(b, v, parents, m) == b = [n \in 1 .. m + 1 |-> IF n = 1 THEN <<v>> ELSE Longer(parents, b[n - 1])]

\* What Backwards says of each step.
LEMMA BackwardsAre ==
  ASSUME NEW b, NEW v, NEW parents, NEW m \in Nat
  PROVE  Backwards(b, v, parents, m) <=>
           /\ b = [n \in 1 .. m + 1 |-> b[n]] /\ b[1] = <<v>>
           /\ \A n \in 2 .. m + 1 : b[n] = Longer(parents, b[n - 1])
<1>1. ASSUME Backwards(b, v, parents, m)
      PROVE  b = [n \in 1 .. m + 1 |-> b[n]] /\ b[1] = <<v>> /\ \A n \in 2 .. m + 1 : b[n] = Longer(parents, b[n - 1])
  <2> DEFINE h == [n \in 1 .. m + 1 |-> IF n = 1 THEN <<v>> ELSE Longer(parents, b[n - 1])]
  <2>1. b = h
    BY <1>1 DEF Backwards
  <2>2. h = [n \in 1 .. m + 1 |-> h[n]] /\ \A n \in 1 .. m + 1 : h[n] = IF n = 1 THEN <<v>> ELSE Longer(parents, b[n - 1])
    OBVIOUS
  <2> HIDE DEF h
  <2>3. b = [n \in 1 .. m + 1 |-> b[n]] /\ \A n \in 1 .. m + 1 : b[n] = IF n = 1 THEN <<v>> ELSE Longer(parents, b[n - 1])
    BY <2>1, <2>2
  <2>4. 1 \in 1 .. m + 1 /\ \A n \in 2 .. m + 1 : n \in 1 .. m + 1 /\ n # 1
    OBVIOUS
  <2>5. b[1] = <<v>>
    BY <2>3, <2>4
  <2>6. \A n \in 2 .. m + 1 : b[n] = Longer(parents, b[n - 1])
    BY <2>3, <2>4
  <2> QED BY <2>3, <2>5, <2>6
<1>2. ASSUME b = [n \in 1 .. m + 1 |-> b[n]], b[1] = <<v>>, \A n \in 2 .. m + 1 : b[n] = Longer(parents, b[n - 1])
      PROVE  Backwards(b, v, parents, m)
  <2>1. \A n \in 1 .. m + 1 : b[n] = IF n = 1 THEN <<v>> ELSE Longer(parents, b[n - 1])
    <3> SUFFICES ASSUME NEW n \in 1 .. m + 1 PROVE b[n] = IF n = 1 THEN <<v>> ELSE Longer(parents, b[n - 1])
      OBVIOUS
    <3>1. CASE n = 1
      BY <1>2, <3>1
    <3>2. CASE n # 1
      <4>1. n \in 2 .. m + 1
        BY <3>2
      <4> QED BY <1>2, <3>2, <4>1
    <3> QED BY <3>1, <3>2
  <2>2. [n \in 1 .. m + 1 |-> b[n]] = [n \in 1 .. m + 1 |-> IF n = 1 THEN <<v>> ELSE Longer(parents, b[n - 1])]
    BY <2>1
  <2> QED BY <1>2, <2>2 DEF Backwards
<1> QED BY <1>1, <1>2

\* There is such a way back.
LEMMA BackwardsExist ==
  ASSUME NEW v, NEW parents, NEW m \in Nat
  PROVE  \E b : Backwards(b, v, parents, m)
<1> DEFINE P == {k \in Nat : \E b : Backwards(b, v, parents, k)}
<1>1. 0 \in P
  <2> DEFINE b == [n \in 1 .. 0 + 1 |-> <<v>>]
  <2>1. b = [n \in 1 .. 0 + 1 |-> b[n]] /\ b[1] = <<v>> /\ \A n \in 2 .. 0 + 1 : b[n] = Longer(parents, b[n - 1])
    <3>1. \A n \in 2 .. 0 + 1 : FALSE
      OBVIOUS
    <3>2. b = [n \in 1 .. 0 + 1 |-> b[n]] /\ b[1] = <<v>>
      OBVIOUS
    <3> HIDE DEF b
    <3> QED BY <3>1, <3>2
  <2> HIDE DEF b
  <2>2. Backwards(b, v, parents, 0)
    BY <2>1, BackwardsAre
  <2> QED BY <2>2
<1>2. ASSUME NEW k \in P PROVE k + 1 \in P
  <2>1. PICK a : Backwards(a, v, parents, k)
    BY <1>2
  <2>2. a = [i \in 1 .. k + 1 |-> a[i]] /\ a[1] = <<v>> /\ \A i \in 2 .. k + 1 : a[i] = Longer(parents, a[i - 1])
    BY <2>1, BackwardsAre
  <2> DEFINE b == [i \in 1 .. (k + 1) + 1 |-> IF i <= k + 1 THEN a[i] ELSE Longer(parents, a[k + 1])]
  <2>3. b = [i \in 1 .. (k + 1) + 1 |-> b[i]] /\ b[1] = <<v>>
    <3>1. 1 \in 1 .. (k + 1) + 1 /\ 1 <= k + 1
      OBVIOUS
    <3>2. b[1] = a[1]
      BY <3>1
    <3>3. b = [i \in 1 .. (k + 1) + 1 |-> b[i]]
      OBVIOUS
    <3> QED BY <2>2, <3>2, <3>3
  <2>4. ASSUME NEW i \in 2 .. (k + 1) + 1 PROVE b[i] = Longer(parents, b[i - 1])
    <3>1. CASE i <= k + 1
      <4>1. i \in 2 .. k + 1 /\ i - 1 \in 1 .. (k + 1) + 1 /\ i - 1 <= k + 1 /\ i \in 1 .. (k + 1) + 1
        BY <3>1
      <4>2. b[i] = a[i] /\ b[i - 1] = a[i - 1]
        BY <4>1
      <4> HIDE DEF b
      <4> QED BY <2>2, <4>1, <4>2
    <3>2. CASE ~ (i <= k + 1)
      <4>1. i = (k + 1) + 1 /\ i - 1 = k + 1 /\ k + 1 \in 1 .. (k + 1) + 1 /\ i \in 1 .. (k + 1) + 1
        BY <3>2
      <4>2. b[i] = Longer(parents, a[k + 1]) /\ b[i - 1] = a[k + 1]
        BY <3>2, <4>1
      <4> HIDE DEF b
      <4> QED BY <4>2
    <3> QED BY <3>1, <3>2
  <2> HIDE DEF b
  <2>5. Backwards(b, v, parents, k + 1)
    <3>1. k + 1 \in Nat
      BY <1>2
    <3>2. \A i \in 2 .. (k + 1) + 1 : b[i] = Longer(parents, b[i - 1])
      BY <2>4
    <3> QED BY <2>3, <3>1, <3>2, BackwardsAre
  <2> QED BY <2>5
<1>3. P \in SUBSET Nat
  OBVIOUS
<1> HIDE DEF P
<1>4. P = Nat
  BY <1>1, <1>2, <1>3, AllNumbers
<1> QED BY <1>4 DEF P

\* PathTo is the end of the way back.
LEMMA PathIsBackwards ==
  ASSUME NEW v, NEW parents, Cardinality(parents) \in Nat
  PROVE  \E b : Backwards(b, v, parents, Cardinality(parents)) /\ PathTo(v, parents) = b[Cardinality(parents) + 1]
<1>1. PathTo(v, parents) = (CHOOSE b : Backwards(b, v, parents, Cardinality(parents)))[Cardinality(parents) + 1]
  BY DEF PathTo, Backwards, Longer
<1> QED BY <1>1, BackwardsExist

\* A part of a way: j edges from its head to v, each from an entity to one
\* beside it.
Leads(rows, S, seen, path, v, d, j) ==
  /\ path \in Seq(seen) /\ Len(path) = j + 1 /\ path[j + 1] = v
  /\ AtDist(rows, S, path[1], d - j)
  /\ \A i \in 1 .. j : path[i + 1] \in Beside(rows, path[i])

\* A way from its beginning goes no further.
LEMMA StopsAtTheBeginning ==
  ASSUME NEW rows, NEW S, NEW seen, NEW parents, Tree(rows, S, seen, parents), NEW v, NEW d \in Nat,
         NEW path, Leads(rows, S, seen, path, v, d, d)
  PROVE  Longer(parents, path) = path
<1>1. AtDist(rows, S, path[1], 0) /\ Head(path) = path[1]
  <2>1. d - d = 0
    OBVIOUS
  <2> QED BY <2>1 DEF Leads
<1>2. ASSUME NEW e \in parents, e[1] = Head(path) PROVE FALSE
  <2>1. PICK k \in Nat : AtDist(rows, S, e[1], k + 1)
    BY DEF Tree
  <2>2. k + 1 \in Nat /\ 0 \in Nat /\ k + 1 # 0
    OBVIOUS
  <2> QED BY <1>1, <1>2, <2>1, <2>2, OneDistance
<1>3. {e[2] : e \in {e \in parents : e[1] = Head(path)}} = {}
  BY <1>2
<1> QED BY <1>3 DEF Longer

\* Any other one goes one edge further.
LEMMA GoesBack ==
  ASSUME NEW rows, NEW S, NEW seen, NEW parents, Tree(rows, S, seen, parents), NEW v, NEW d \in Nat,
         NEW j \in Nat, j < d, NEW path, Leads(rows, S, seen, path, v, d, j)
  PROVE  Leads(rows, S, seen, Longer(parents, path), v, d, j + 1)
<1> DEFINE x == path[1]
           p == {e[2] : e \in {e \in parents : e[1] = Head(path)}}
           u == CHOOSE u \in p : TRUE
           longer == <<u>> \o path
<1>1. /\ path \in Seq(seen) /\ Len(path) = j + 1 /\ path[j + 1] = v
      /\ AtDist(rows, S, x, d - j) /\ x \in seen /\ Head(path) = x
      /\ \A i \in 1 .. j : path[i + 1] \in Beside(rows, path[i])
  BY DEF Leads
<1>2. d - j \in Nat /\ d - j > 0 /\ (d - j) - 1 = d - (j + 1) /\ d - (j + 1) \in Nat
  OBVIOUS
<1>3. x \notin S
  <2> SUFFICES ASSUME x \in S PROVE FALSE
    OBVIOUS
  <2>1. AtDist(rows, S, x, 0)
    BY WithinSteps DEF AtDist
  <2>2. d - j = 0
    BY <1>1, <1>2, <2>1, OneDistance
  <2> QED BY <1>2, <2>2
<1>4. PICK e \in parents : e[1] = x
  BY <1>1, <1>3 DEF Tree
<1> HIDE DEF x
<1>5. p = {e[2]}
  <2>1. \A f \in parents : f[1] = Head(path) <=> f = e
    BY <1>1, <1>4 DEF Tree
  <2> QED BY <2>1
<1>6. u = e[2]
  BY <1>5
<1>7. Longer(parents, path) = longer
  BY <1>5 DEF Longer
<1> HIDE DEF p, u
<1>8. u \in seen /\ x \in Beside(rows, u)
  BY <1>4, <1>6 DEF Tree
<1>9. AtDist(rows, S, u, d - (j + 1))
  <2>1. PICK k \in Nat : AtDist(rows, S, u, k) /\ AtDist(rows, S, x, k + 1)
    BY <1>4, <1>6 DEF Tree
  <2>2. k + 1 = d - j
    BY <1>1, <1>2, <2>1, OneDistance
  <2>3. k = d - (j + 1)
    BY <2>2
  <2> QED BY <2>1, <2>3
<1>10. /\ longer \in Seq(seen) /\ Len(longer) = (j + 1) + 1 /\ longer[1] = u
       /\ \A i \in 1 .. j + 1 : longer[i + 1] = path[i]
  BY <1>1, <1>8
<1> HIDE DEF longer
<1>11. longer[(j + 1) + 1] = v
  BY <1>1, <1>10
<1>12. ASSUME NEW i \in 1 .. j + 1 PROVE longer[i + 1] \in Beside(rows, longer[i])
  <2>1. CASE i = 1
    BY <1>8, <1>10, <2>1 DEF x
  <2>2. CASE i # 1
    <3>1. i - 1 \in 1 .. j /\ (i - 1) + 1 = i /\ i - 1 \in 1 .. j + 1
      BY <2>2
    <3>2. longer[i + 1] = path[i] /\ longer[i] = path[i - 1]
      BY <1>10, <3>1
    <3> QED BY <1>1, <3>1, <3>2
  <2> QED BY <2>1, <2>2
<1>13. Leads(rows, S, seen, longer, v, d, j + 1)
  BY <1>9, <1>10, <1>11, <1>12 DEF Leads
<1> QED BY <1>7, <1>13

\* In a search tree the parents lead back along a shortest path.
LEMMA TreePath ==
  ASSUME NEW rows, NEW from, NEW seen, NEW parents, Tree(rows, {from}, seen, parents), NEW v \in seen,
         NEW hops \in Nat, NEW d \in Nat, AtDist(rows, {from}, v, d), d <= hops
  PROVE  /\ PathTo(v, parents) \in Seq(seen) /\ PathTo(v, parents) # <<>>
         /\ IsShortest(rows, PathTo(v, parents), from, v, hops)
<1> DEFINE S == {from}
           m == Cardinality(parents)
           Lead(b, k) == Leads(rows, S, seen, b[k], v, d, IF k - 1 <= d THEN k - 1 ELSE d)
<1>1. m \in Nat /\ d <= m
  <2>1. m \in Nat
    BY FS_CardinalityType DEF Tree
  <2>2. PICK e \in Nat : AtDist(rows, S, v, e) /\ e <= m
    BY DEF Tree
  <2>3. d = e
    BY <2>2, OneDistance
  <2> QED BY <2>1, <2>2, <2>3
<1>2. PICK b : Backwards(b, v, parents, m) /\ PathTo(v, parents) = b[m + 1]
  BY <1>1, PathIsBackwards
<1>3. b[1] = <<v>> /\ \A n \in 2 .. m + 1 : b[n] = Longer(parents, b[n - 1])
  BY <1>1, <1>2, BackwardsAre
<1> DEFINE P == {k \in Nat : k <= m => Lead(b, k + 1)}
<1>4. 0 \in P
  <2>1. Leads(rows, S, seen, <<v>>, v, d, 0)
    BY DEF Leads
  <2>2. 0 + 1 = 1 /\ 1 - 1 = 0 /\ 0 <= d
    OBVIOUS
  <2> QED BY <1>3, <2>1, <2>2
<1> HIDE DEF S, m
<1>5. ASSUME NEW k \in P PROVE k + 1 \in P
  <2> SUFFICES ASSUME k + 1 <= m PROVE Lead(b, (k + 1) + 1)
    OBVIOUS
  <2>1. k \in Nat /\ k <= m /\ (k + 1) + 1 \in 2 .. m + 1 /\ (k + 1) - 1 = k /\ ((k + 1) + 1) - 1 = k + 1
    BY <1>1
  <2>2. Leads(rows, S, seen, b[k + 1], v, d, IF k <= d THEN k ELSE d)
    BY <1>5, <2>1
  <2>3. b[(k + 1) + 1] = Longer(parents, b[k + 1])
    BY <1>3, <2>1
  <2> HIDE DEF P
  <2>4. CASE k < d
    <3>1. k <= d /\ k + 1 <= d
      BY <2>1, <2>4
    <3>2. Leads(rows, S, seen, b[k + 1], v, d, k)
      BY <2>2, <3>1
    <3>3. Leads(rows, S, seen, b[(k + 1) + 1], v, d, k + 1)
      BY <2>1, <2>3, <2>4, <3>2, GoesBack DEF S
    <3> QED BY <2>1, <3>1, <3>3
  <2>5. CASE ~ (k < d)
    <3>1. ~ (k + 1 <= d) /\ (IF k <= d THEN k ELSE d) = d
      BY <2>1, <2>5
    <3>2. Leads(rows, S, seen, b[k + 1], v, d, d)
      BY <2>2, <3>1
    <3>3. Leads(rows, S, seen, b[(k + 1) + 1], v, d, d)
      BY <2>3, <3>2, StopsAtTheBeginning DEF S
    <3> QED BY <2>1, <3>1, <3>3
  <2> QED BY <2>4, <2>5
<1>6. P \in SUBSET Nat
  OBVIOUS
<1>7. m \in P
  <2> HIDE DEF P
  <2>1. P = Nat
    BY <1>4, <1>5, <1>6, AllNumbers
  <2> QED BY <1>1, <2>1
<1> DEFINE path == b[m + 1]
<1>8. Leads(rows, S, seen, path, v, d, d)
  <2>1. (m + 1) - 1 = m /\ (IF m <= d THEN m ELSE d) = d
    BY <1>1
  <2> QED BY <1>1, <1>7, <2>1
<1> HIDE DEF P, path
<1>9. /\ path \in Seq(seen) /\ Len(path) = d + 1 /\ path[d + 1] = v /\ AtDist(rows, S, path[1], 0)
      /\ \A i \in 1 .. d : path[i + 1] \in Beside(rows, path[i])
  <2>1. d - d = 0
    OBVIOUS
  <2> QED BY <1>8, <2>1 DEF Leads
<1>10. path[1] = from
  BY <1>9, WithinSteps DEF AtDist, S
<1>11. path # <<>> /\ Head(path) = from /\ Last(path) = v /\ Len(path) <= hops + 1
  BY <1>9, <1>10 DEF Last
<1>12. \A i \in 1 .. Len(path) - 1 : path[i + 1] \in Within(rows, {path[i]}, 1) \ {path[i]}
  <2>1. Len(path) - 1 = d
    BY <1>9
  <2> QED BY <1>9, <2>1 DEF Beside
<1>13. Len(path) > 1 => v \notin Within(rows, {from}, Len(path) - 2)
  <2>1. Len(path) - 2 = d - 1 /\ (Len(path) > 1 => d > 0)
    BY <1>9
  <2> QED BY <2>1 DEF AtDist
<1>14. IsShortest(rows, path, from, v, hops)
  BY <1>11, <1>12, <1>13 DEF IsShortest
<1> QED BY <1>2, <1>9, <1>11, <1>14 DEF path

-----------------------------------------------------------------------------
(* Scoped views: a search pops the nearest and meets its neighbours.       *)

\* A set of places and values that every step stays in.
Carries(I, G, n, T) == \A k \in 1 .. n, t \in T : <<k - 1, t>> \in I => <<k, G[<<t, k>>]>> \in I

\* What holds of a chain's values, from one to the next.
LEMMA ChainHolds ==
  ASSUME NEW h, NEW G, NEW base, NEW n \in Nat, NEW T, Chain(h, G, base, n, T), NEW I,
         <<0, base>> \in I, Carries(I, G, n, T)
  PROVE  \A k \in 0 .. n : h[k] \in T /\ <<k, h[k]>> \in I
<1> DEFINE P == {k \in Nat : k <= n => <<k, h[k]>> \in I}
<1>1. h \in [0 .. n -> T] /\ h[0] = base /\ \A k \in 1 .. n : h[k] = G[<<h[k - 1], k>>]
  BY DEF Chain
<1>2. 0 \in P
  BY <1>1
<1>3. ASSUME NEW k \in P PROVE k + 1 \in P
  <2> SUFFICES ASSUME k + 1 <= n PROVE <<k + 1, h[k + 1]>> \in I
    OBVIOUS
  <2>1. k + 1 \in 1 .. n /\ (k + 1) - 1 = k /\ k \in 0 .. n /\ <<k, h[k]>> \in I
    BY <1>3
  <2>2. h[k] \in T /\ h[k + 1] = G[<<h[k], k + 1>>]
    BY <1>1, <2>1
  <2> QED BY <2>1, <2>2 DEF Carries
<1>4. P \in SUBSET Nat
  OBVIOUS
<1> HIDE DEF P
<1>5. P = Nat
  BY <1>2, <1>3, <1>4, AllNumbers
<1> QED BY <1>1, <1>5 DEF P

\* One expansion: all neighbours, one after the other.
MeetAll(rest, v, seq, to, depth) == FoldLeft(LAMBDA t, u : Meet(t, v, u, to, depth), rest, seq)

MeetSteps(T, v, seq, to, depth) == [x \in T \X (1 .. Len(seq)) |-> Meet(x[1], v, seq[x[2]], to, depth)]

\* It is a chain of meetings.
LEMMA Meeting ==
  ASSUME NEW rest, NEW v, NEW depth, NEW to, NEW R, NEW seq \in Seq(R), NEW T, rest \in T,
         \A t \in T, u \in R : Meet(t, v, u, to, depth) \in T
  PROVE  \E h : /\ Chain(h, MeetSteps(T, v, seq, to, depth), rest, Len(seq), T)
                /\ MeetAll(rest, v, seq, to, depth) = h[Len(seq)]
<1> DEFINE m == Len(seq)
           G == [x \in T \X (1 .. m) |-> Meet(x[1], v, seq[x[2]], to, depth)]
           Rec(f) == f = [s \in SUBSET DOMAIN seq |->
                            IF s = {} THEN rest ELSE Meet(f[s \ {Max(s)}], v, seq[Max(s)], to, depth)]
           f == CHOOSE f : Rec(f)
<1>1. m \in Nat /\ DOMAIN seq = 1 .. m /\ \A i \in 1 .. m : seq[i] \in R
  OBVIOUS
<1>2. MeetAll(rest, v, seq, to, depth) = f[DOMAIN seq]
  BY DEF MeetAll, FoldLeft, MapThenFoldSet
<1>3. G \in FoldSteps(T, m)
  BY <1>1 DEF FoldSteps
<1> HIDE DEF m
<1>4. \A t \in T, i \in 1 .. m : G[<<t, i>>] = Meet(t, v, seq[i], to, depth)
  OBVIOUS
<1> HIDE DEF G
<1>5. \E g : Rec(g)
  <2>0. PICK g : IsFold(g, G, rest, m, T)
    BY <1>1, <1>3, FoldExists
  <2>1. g \in [SUBSET (1 .. m) -> T] /\ \A s \in SUBSET (1 .. m) : g[s] = Round(g, G, rest, s)
    BY <2>0 DEF IsFold
  <2>2. ASSUME NEW s \in SUBSET (1 .. m), s # {}
        PROVE  G[<<g[s \ {Max(s)}], Max(s)>>] = Meet(g[s \ {Max(s)}], v, seq[Max(s)], to, depth)
    <3>1. Max(s) \in s
      BY <1>1, <2>2, GreatestIndex
    <3>2. g[s \ {Max(s)}] \in T /\ Max(s) \in 1 .. m
      BY <3>1, <2>1
    <3> QED BY <3>2, <1>4
  <2>3. \A s \in SUBSET (1 .. m) : g[s] = IF s = {} THEN rest ELSE Meet(g[s \ {Max(s)}], v, seq[Max(s)], to, depth)
    BY <2>1, <2>2 DEF Round
  <2>4. g = [s \in SUBSET (1 .. m) |-> g[s]]
    BY <2>1
  <2> QED BY <1>1, <2>3, <2>4
<1>6. Rec(f)
  BY <1>5
<1> HIDE DEF f
<1>7. \A s \in SUBSET (1 .. m) : f[s] = IF s = {} THEN rest ELSE Meet(f[s \ {Max(s)}], v, seq[Max(s)], to, depth)
  BY <1>1, <1>6
<1>8. ASSUME NEW s \in SUBSET (1 .. m), s # {}, f[s \ {Max(s)}] \in T
      PROVE  f[s] = G[<<f[s \ {Max(s)}], Max(s)>>]
  <2>1. Max(s) \in 1 .. m
    BY <1>1, <1>8, GreatestIndex
  <2> QED BY <1>4, <1>7, <1>8, <2>1
<1>9. f[{}] = rest
  BY <1>7
<1>a. FoldFollows(f, G, rest, m, T)
  BY <1>8, <1>9 DEF FoldFollows
<1>10. \E h : Chain(h, G, rest, m, T) /\ h[m] = f[1 .. m]
  BY <1>1, <1>3, <1>a, FoldChain
<1>11. G = MeetSteps(T, v, seq, to, depth)
  BY DEF MeetSteps, G, m
<1> QED BY <1>1, <1>2, <1>10, <1>11 DEF m

\* A pop expands the first that waits.
LEMMA PopIs ==
  ASSUME NEW s, NEW g, NEW call
  PROVE  Pop(s, g, call) =
           IF s.queue = <<>> \/ s.verdict # "open" THEN s
           ELSE IF Head(s.queue)[2] >= call.hops THEN [s EXCEPT !.queue = Tail(@)]
           ELSE MeetAll([s EXCEPT !.queue = Tail(@)], Head(s.queue)[1],
                        ById(Beside(g.rows, Head(s.queue)[1])), call.to, Head(s.queue)[2])
BY DEF Pop, MeetAll, FoldLeft, MapThenFoldSet, Beside

\* A search pops as often as there are entities.
PopAll(g, call, start) == FoldLeft(LAMBDA t, k : Pop(t, g, call), start, [k \in 1 .. Cardinality(g.nodes) |-> k])

PopSteps(T, g, call) == [x \in T \X (1 .. Cardinality(g.nodes)) |-> Pop(x[1], g, call)]

\* And a chain of pops.
LEMMA Popping ==
  ASSUME NEW g, NEW call, NEW start, Cardinality(g.nodes) \in Nat, NEW T, start \in T,
         \A t \in T : Pop(t, g, call) \in T
  PROVE  \E h : /\ Chain(h, PopSteps(T, g, call), start, Cardinality(g.nodes), T)
                /\ PopAll(g, call, start) = h[Cardinality(g.nodes)]
<1> DEFINE m == Cardinality(g.nodes)
           seq == [k \in 1 .. m |-> k]
           G == [x \in T \X (1 .. m) |-> Pop(x[1], g, call)]
           Rec(f) == f = [s \in SUBSET DOMAIN seq |->
                            IF s = {} THEN start ELSE Pop(f[s \ {Max(s)}], g, call)]
           f == CHOOSE f : Rec(f)
<1>1. m \in Nat /\ DOMAIN seq = 1 .. m
  OBVIOUS
<1>2. PopAll(g, call, start) = f[DOMAIN seq]
  BY DEF PopAll, FoldLeft, MapThenFoldSet
<1>3. G \in FoldSteps(T, m)
  BY <1>1 DEF FoldSteps
<1> HIDE DEF m
<1>4. \A t \in T, i \in 1 .. m : G[<<t, i>>] = Pop(t, g, call)
  OBVIOUS
<1> HIDE DEF G, seq
<1>5. \E r : Rec(r)
  <2>0. PICK r : IsFold(r, G, start, m, T)
    BY <1>1, <1>3, FoldExists
  <2>1. r \in [SUBSET (1 .. m) -> T] /\ \A s \in SUBSET (1 .. m) : r[s] = Round(r, G, start, s)
    BY <2>0 DEF IsFold
  <2>2. ASSUME NEW s \in SUBSET (1 .. m), s # {}
        PROVE  G[<<r[s \ {Max(s)}], Max(s)>>] = Pop(r[s \ {Max(s)}], g, call)
    <3>1. Max(s) \in s
      BY <1>1, <2>2, GreatestIndex
    <3>2. r[s \ {Max(s)}] \in T /\ Max(s) \in 1 .. m
      BY <3>1, <2>1
    <3> QED BY <3>2, <1>4
  <2>3. \A s \in SUBSET (1 .. m) : r[s] = IF s = {} THEN start ELSE Pop(r[s \ {Max(s)}], g, call)
    BY <2>1, <2>2 DEF Round
  <2>4. r = [s \in SUBSET (1 .. m) |-> r[s]]
    BY <2>1
  <2> QED BY <1>1, <2>3, <2>4
<1>6. Rec(f)
  BY <1>5
<1> HIDE DEF f
<1>7. \A s \in SUBSET (1 .. m) : f[s] = IF s = {} THEN start ELSE Pop(f[s \ {Max(s)}], g, call)
  BY <1>1, <1>6
<1>8. ASSUME NEW s \in SUBSET (1 .. m), s # {}, f[s \ {Max(s)}] \in T
      PROVE  f[s] = G[<<f[s \ {Max(s)}], Max(s)>>]
  <2>1. Max(s) \in 1 .. m
    BY <1>1, <1>8, GreatestIndex
  <2> QED BY <1>4, <1>7, <1>8, <2>1
<1>9. f[{}] = start
  BY <1>7
<1>a. FoldFollows(f, G, start, m, T)
  BY <1>8, <1>9 DEF FoldFollows
<1>10. \E h : Chain(h, G, start, m, T) /\ h[m] = f[1 .. m]
  BY <1>1, <1>3, <1>a, FoldChain
<1>11. G = PopSteps(T, g, call)
  BY DEF PopSteps, G, m
<1> QED BY <1>1, <1>2, <1>10, <1>11 DEF m

\* The states of a search among the entities N.
States(N) ==
  [queue : Seq(N \X Nat), seen : SUBSET N, parents : SUBSET (N \X N), verdict : {"open", "found", "budget"}]

\* A search that goes on, after n expansions, and one that found its way.
Looking(s, rows, from, to, hops, open, n) ==
  /\ Tree(rows, {from}, s.seen, s.parents) /\ Frontier(rows, {from}, s.seen, s.queue, open, hops)
  /\ to \notin s.seen /\ IsFiniteSet(s.seen)
  /\ Cardinality(s.seen) = n + Len(s.queue)
Found(s, rows, from, to, hops) ==
  /\ Tree(rows, {from}, s.seen, s.parents) /\ to \in s.seen
  /\ \E d \in Nat : d <= hops /\ AtDist(rows, {from}, to, d)

\* What meeting an entity does.
LEMMA MeetIs ==
  ASSUME NEW N, NEW s \in States(N), NEW v \in N, NEW u \in N, NEW to, NEW d \in Nat
  PROVE  /\ Meet(s, v, u, to, d) \in States(N)
         /\ s.verdict # "open" \/ u \in s.seen => Meet(s, v, u, to, d) = s
         /\ s.verdict = "open" /\ u \notin s.seen =>
              \/ Meet(s, v, u, to, d).verdict = "budget"
              \/ /\ Meet(s, v, u, to, d).seen = s.seen \cup {u}
                 /\ Meet(s, v, u, to, d).parents = s.parents \cup {<<u, v>>}
                 /\ Meet(s, v, u, to, d).queue = Append(s.queue, <<u, d + 1>>)
                 /\ Meet(s, v, u, to, d).verdict = (IF u = to THEN "found" ELSE "open")
<1> DEFINE t == Meet(s, v, u, to, d)
           b == [s EXCEPT !.verdict = "budget"]
           q == Append(s.queue, <<u, d + 1>>)
           w == IF u = to THEN "found" ELSE "open"
           seen == s.seen \cup {u}
           parents == s.parents \cup {<<u, v>>}
           e == [s EXCEPT !.seen = seen, !.parents = parents, !.queue = q, !.verdict = w]
<1>1. /\ s.queue \in Seq(N \X Nat) /\ s.seen \in SUBSET N /\ s.parents \in SUBSET (N \X N)
      /\ s.verdict \in {"open", "found", "budget"}
      /\ s = [queue |-> s.queue, seen |-> s.seen, parents |-> s.parents, verdict |-> s.verdict]
  BY DEF States
<1>2. b = [queue |-> s.queue, seen |-> s.seen, parents |-> s.parents, verdict |-> "budget"]
  BY <1>1
<1>4. q \in Seq(N \X Nat)
  <2> DEFINE A == N \X Nat
             x == <<u, d + 1>>
  <2>1. x \in A /\ s.queue \in Seq(A)
    BY <1>1
  <2> HIDE DEF A, x
  <2>2. Append(s.queue, x) \in Seq(A)
    BY <2>1
  <2> QED BY <2>2 DEF A, x
<1>5. b \in States(N) /\ b.verdict = "budget"
  BY <1>1, <1>2 DEF States
<1>6. /\ e \in States(N) /\ e.seen = seen /\ e.parents = parents
      /\ e.queue = q /\ e.verdict = w
  <2>1. parents \in SUBSET (N \X N) /\ seen \in SUBSET N /\ w \in {"found", "open", "budget"}
    BY <1>1
  <2> HIDE DEF q, w, seen, parents
  <2> QED BY <1>4, <2>1 DEF States
<1>7. t = IF s.verdict # "open" \/ u \in s.seen THEN s
          ELSE IF Cardinality(s.seen) >= VisitCap THEN b ELSE e
  BY DEF Meet
<1> HIDE DEF t, b, e
<1>8. s \in States(N)
  OBVIOUS
<1>9. t \in States(N)
  BY <1>5, <1>6, <1>7, <1>8
<1>10. s.verdict # "open" \/ u \in s.seen => t = s
  BY <1>7
<1>11. s.verdict = "open" /\ u \notin s.seen => t = b \/ t = e
  BY <1>7
<1> QED BY <1>5, <1>6, <1>9, <1>10, <1>11 DEF t, q

\* Meeting a neighbour of what is expanded.
LEMMA Meets ==
  ASSUME NEW N, NEW s \in States(N), NEW rows, NEW from, NEW to, NEW hops \in Nat, NEW v \in N, NEW d \in Nat,
         d < hops, NEW n \in Nat, Looking(s, rows, from, to, hops, {<<v, d>>}, n), s.verdict = "open",
         NEW u \in N, u \in Beside(rows, v)
  PROVE  LET t == Meet(s, v, u, to, d) IN
         /\ t.verdict = "open" => /\ Looking(t, rows, from, to, hops, {<<v, d>>}, n)
                              /\ u \in t.seen /\ s.seen \subseteq t.seen
         /\ t.verdict = "found" => Found(t, rows, from, to, hops)
<1> DEFINE t == Meet(s, v, u, to, d)
           S == {from}
<1>1. /\ t \in States(N) /\ (u \in s.seen => t = s)
      /\ u \notin s.seen =>
           \/ t.verdict = "budget"
           \/ /\ t.seen = s.seen \cup {u} /\ t.parents = s.parents \cup {<<u, v>>}
              /\ t.queue = Append(s.queue, <<u, d + 1>>) /\ t.verdict = (IF u = to THEN "found" ELSE "open")
  BY MeetIs
<1> HIDE DEF t
<1>2. CASE u \in s.seen
  BY <1>1, <1>2 DEF t
<1>3. CASE t.verdict = "budget"
  BY <1>3 DEF t
<1>4. CASE /\ u \notin s.seen
           /\ t.seen = s.seen \cup {u} /\ t.parents = s.parents \cup {<<u, v>>}
           /\ t.queue = Append(s.queue, <<u, d + 1>>) /\ t.verdict = (IF u = to THEN "found" ELSE "open")
  <2>1. /\ Tree(rows, S, s.seen, s.parents) /\ Frontier(rows, S, s.seen, s.queue, {<<v, d>>}, hops)
        /\ to \notin s.seen /\ IsFiniteSet(s.seen) /\ Cardinality(s.seen) = n + Len(s.queue)
    BY DEF Looking
  <2> HIDE DEF S
  <2>2. d <= hops
    OBVIOUS
  <2>3. Within(rows, S, d) \subseteq s.seen /\ v \in s.seen /\ AtDist(rows, S, v, d)
    BY <2>1, <2>2, OpenIsNearest
  <2> DEFINE seen == s.seen
             parents == s.parents
             queue == s.queue
  <2> HIDE DEF seen, parents, queue
  <2>a. /\ Tree(rows, S, seen, parents) /\ Frontier(rows, S, seen, queue, {<<v, d>>}, hops)
        /\ Within(rows, S, d) \subseteq seen /\ v \in seen /\ u \notin seen /\ IsFiniteSet(seen)
    BY <1>4, <2>1, <2>3 DEF seen, parents, queue
  <2>b. /\ t.seen = seen \cup {u} /\ t.parents = parents \cup {<<u, v>>}
        /\ t.queue = Append(queue, <<u, d + 1>>)
    BY <1>4 DEF seen, parents, queue
  <2>c. Tree(rows, S, seen \cup {u}, parents \cup {<<u, v>>}) /\ AtDist(rows, S, u, d + 1)
    BY <2>3, <2>a, TreeGrows
  <2>d. Frontier(rows, S, seen \cup {u}, Append(queue, <<u, d + 1>>), {<<v, d>>}, hops)
    BY <2>a, <2>c, FrontierGrows
  <2>e. IsFiniteSet(seen \cup {u}) /\ Cardinality(seen \cup {u}) = Cardinality(seen) + 1
    BY <2>a, FS_AddElement
  <2>4. Tree(rows, S, t.seen, t.parents) /\ AtDist(rows, S, u, d + 1)
    BY <2>b, <2>c
  <2>5. Frontier(rows, S, t.seen, t.queue, {<<v, d>>}, hops)
    BY <2>b, <2>d
  <2>6. IsFiniteSet(t.seen) /\ Cardinality(t.seen) = Cardinality(s.seen) + 1
    BY <2>b, <2>e DEF seen
  <2>7. Len(t.queue) = Len(s.queue) + 1 /\ Len(s.queue) \in Nat
    <3> DEFINE x == <<u, d + 1>>
    <3>1. s.queue \in Seq(N \X Nat) /\ t.queue = Append(s.queue, x)
      BY <1>4 DEF States
    <3> HIDE DEF x
    <3> QED BY <3>1
  <2>8. Cardinality(t.seen) = n + Len(t.queue)
    BY <2>1, <2>6, <2>7
  <2>9. t.verdict = "open" => Looking(t, rows, from, to, hops, {<<v, d>>}, n)
    <3> SUFFICES ASSUME t.verdict = "open" PROVE Looking(t, rows, from, to, hops, {<<v, d>>}, n)
      OBVIOUS
    <3>1. u # to
      BY <1>4
    <3>2. to \notin t.seen
      BY <1>4, <2>1, <3>1
    <3> QED BY <2>4, <2>5, <2>6, <2>8, <3>2 DEF Looking, S
  <2>10. t.verdict = "found" => Found(t, rows, from, to, hops)
    <3> SUFFICES ASSUME t.verdict = "found" PROVE Found(t, rows, from, to, hops)
      OBVIOUS
    <3>1. u = to /\ to \in t.seen
      BY <1>4
    <3>2. d + 1 <= hops /\ d + 1 \in Nat
      OBVIOUS
    <3> QED BY <2>4, <3>1, <3>2 DEF Found, S
  <2> QED BY <1>4, <2>9, <2>10 DEF t
<1> QED BY <1>1, <1>2, <1>3, <1>4

\* The ends of the rows are all there.
Closed(rows, N) == \A r \in rows : r.from \in N /\ r.to \in N

ListsBeside(seq, N, rows, v) ==
  /\ seq \in Seq(N)
  /\ \A i \in 1 .. Len(seq) : seq[i] \in Beside(rows, v)
  /\ \A u \in Beside(rows, v) : \E i \in 1 .. Len(seq) : seq[i] = u

\* The neighbours of an entity, in order.
LEMMA NeighboursInOrder ==
  ASSUME NEW N, N \subseteq Nat, IsFiniteSet(N), NEW rows, Closed(rows, N), NEW v, v \in N
  PROVE  ListsBeside(ById(Beside(rows, v)), N, rows, v)
<1> DEFINE B == Beside(rows, v)
           seq == ById(B)
<1>1. B \subseteq N /\ B \in SUBSET Nat /\ IsFiniteSet(B)
  <2>1. B \subseteq N
    BY StaysInside DEF Closed
  <2> QED BY <2>1, FS_Subset
<1> HIDE DEF B
<1>2. /\ seq \in Seq(B) /\ Len(seq) = Cardinality(B) /\ Cardinality(B) \in Nat
      /\ \A x \in B : \E i \in 1 .. Len(seq) : seq[i] = x
  BY <1>1, RankedNumbers DEF ById
<1> HIDE DEF seq
<1>3. seq \in Seq(N)
  BY <1>1, <1>2, LargerSeq
<1>4. \A i \in 1 .. Len(seq) : seq[i] \in B
  BY <1>2
<1>5. ListsBeside(seq, N, rows, v)
  BY <1>2, <1>3, <1>4 DEF ListsBeside, B
<1> QED BY <1>5 DEF seq, B

\* After an expansion nothing is open, or the search is over.
LEMMA Expands ==
  ASSUME NEW N, NEW s \in States(N), NEW rows, NEW from, NEW to, NEW hops \in Nat, NEW v \in N, NEW d \in Nat,
         d < hops, NEW n \in Nat, Looking(s, rows, from, to, hops, {<<v, d>>}, n), s.verdict = "open",
         NEW seq \in Seq(N), \A i \in 1 .. Len(seq) : seq[i] \in Beside(rows, v),
         \A u \in Beside(rows, v) : \E i \in 1 .. Len(seq) : seq[i] = u
  PROVE  LET t == MeetAll(s, v, seq, to, d) IN
         /\ t \in States(N)
         /\ t.verdict = "open" => Looking(t, rows, from, to, hops, {}, n)
         /\ t.verdict = "found" => Found(t, rows, from, to, hops)
<1> DEFINE T == States(N)
           m == Len(seq)
           G == MeetSteps(T, v, seq, to, d)
           Good(i, t) == /\ t.verdict = "open" => /\ Looking(t, rows, from, to, hops, {<<v, d>>}, n)
                                                  /\ \A j \in 1 .. i : seq[j] \in t.seen
                         /\ t.verdict = "found" => Found(t, rows, from, to, hops)
           I == {x \in (0 .. m) \X T : Good(x[1], x[2])}
<1>1. m \in Nat /\ \A i \in 1 .. m : seq[i] \in N
  OBVIOUS
<1>2. \A t \in T, u \in N : Meet(t, v, u, to, d) \in T
  BY MeetIs
<1>3. s \in T
  OBVIOUS
<1>4. PICK h : Chain(h, G, s, m, T) /\ MeetAll(s, v, seq, to, d) = h[m]
  <2> HIDE DEF T
  <2> QED BY <1>2, <1>3, Meeting
<1>5. \A t \in T, i \in 1 .. m : G[<<t, i>>] = Meet(t, v, seq[i], to, d)
  <2> HIDE DEF T
  <2> QED BY DEF MeetSteps
<1> HIDE DEF G
<1>6. <<0, s>> \in I
  <2>1. Good(0, s)
    <3>1. s.verdict # "found"
      OBVIOUS
    <3> QED BY <3>1
  <2> HIDE DEF Good, T
  <2> QED BY <1>1, <1>3, <2>1
<1>7. ASSUME NEW k \in 1 .. m, NEW t \in T, <<k - 1, t>> \in I PROVE <<k, G[<<t, k>>]>> \in I
  <2> DEFINE u == seq[k]
             t2 == Meet(t, v, u, to, d)
  <2>1. u \in N /\ u \in Beside(rows, v) /\ t2 \in T /\ G[<<t, k>>] = t2
    BY <1>1, <1>2, <1>5
  <2>2. Good(k - 1, t)
    <3> HIDE DEF Good
    <3> QED BY <1>7
  <2>3. CASE t.verdict # "open"
    <3>1. t2 = t
      BY <2>1, <2>3, MeetIs
    <3>2. Good(k, t)
      BY <2>2, <2>3
    <3> HIDE DEF Good, t2, T
    <3> QED BY <1>1, <2>1, <3>1, <3>2
  <2>4. CASE t.verdict = "open"
    <3>1. Looking(t, rows, from, to, hops, {<<v, d>>}, n) /\ \A j \in 1 .. k - 1 : seq[j] \in t.seen
      BY <2>2, <2>4
    <3>2. /\ t2.verdict = "open" => /\ Looking(t2, rows, from, to, hops, {<<v, d>>}, n)
                                    /\ u \in t2.seen /\ t.seen \subseteq t2.seen
          /\ t2.verdict = "found" => Found(t2, rows, from, to, hops)
      <4> HIDE DEF u
      <4> QED BY <2>1, <2>4, <3>1, Meets
    <3> HIDE DEF t2
    <3>3. t2.verdict = "open" => \A j \in 1 .. k : seq[j] \in t2.seen
      <4>1. \A j \in 1 .. k : j = k \/ j \in 1 .. k - 1
        OBVIOUS
      <4> QED BY <3>1, <3>2, <4>1
    <3>4. Good(k, t2)
      BY <3>2, <3>3
    <3> HIDE DEF Good, T
    <3> QED BY <1>1, <2>1, <3>4
  <2> QED BY <2>3, <2>4
<1>8. h[m] \in T /\ <<m, h[m]>> \in I
  <2>1. \A k \in 0 .. m : h[k] \in T /\ <<k, h[k]>> \in I
    <3>1. Carries(I, G, m, T)
      <4> HIDE DEF I, T, m
      <4> QED BY <1>7 DEF Carries
    <3> HIDE DEF I, T, m
    <3> QED BY <1>1, <1>4, <1>6, <3>1, ChainHolds
  <2>2. m \in 0 .. m
    BY <1>1
  <2> HIDE DEF I, T, m
  <2> QED BY <2>1, <2>2
<1> DEFINE t == h[m]
<1>9. Good(m, t)
  <2> HIDE DEF Good, T
  <2> QED BY <1>8
<1> HIDE DEF t, m
<1>10. t.verdict = "open" => Looking(t, rows, from, to, hops, {}, n)
  <2> SUFFICES ASSUME t.verdict = "open" PROVE Looking(t, rows, from, to, hops, {}, n)
    OBVIOUS
  <2>1. Looking(t, rows, from, to, hops, {<<v, d>>}, n) /\ \A j \in 1 .. m : seq[j] \in t.seen
    BY <1>9
  <2>2. Beside(rows, v) \subseteq t.seen
    BY <2>1 DEF m
  <2>3. Frontier(rows, {from}, t.seen, t.queue, {}, hops)
    <3>1. Frontier(rows, {from}, t.seen, t.queue, {<<v, d>>}, hops)
      BY <2>1 DEF Looking
    <3> QED BY <2>2, <3>1, FrontierCloses
  <2> QED BY <2>1, <2>3 DEF Looking
<1> QED BY <1>4, <1>8, <1>9, <1>10 DEF t

\* A search after k pops.
Sought(t, rows, from, to, hops, k) ==
  /\ t.verdict = "open" => \E n \in Nat : /\ Looking(t, rows, from, to, hops, {}, n)
                                          /\ t.queue = <<>> \/ n = k
  /\ t.verdict = "found" => Found(t, rows, from, to, hops)

\* A pop is one more.
LEMMA PopsOne ==
  ASSUME NEW g, NEW call, g.nodes \in SUBSET Nat, IsFiniteSet(g.nodes),
         \A r \in g.rows : r.from \in g.nodes /\ r.to \in g.nodes,
         call.hops \in Nat, NEW t \in States(g.nodes), NEW k \in Nat,
         Sought(t, g.rows, call.from, call.to, call.hops, k)
  PROVE  Pop(t, g, call) \in States(g.nodes) /\ Sought(Pop(t, g, call), g.rows, call.from, call.to, call.hops, k + 1)
<1> DEFINE N == g.nodes
           rows == g.rows
           from == call.from
           to == call.to
           hops == call.hops
           rest == [t EXCEPT !.queue = Tail(@)]
           o == Head(t.queue)
           v == o[1]
           d == o[2]
<1>0. Pop(t, g, call) =
        IF t.queue = <<>> \/ t.verdict # "open" THEN t
        ELSE IF d >= hops THEN rest
        ELSE MeetAll(rest, v, ById(Beside(rows, v)), to, d)
  BY PopIs
<1> HIDE DEF N, rows, from, to, hops
<1>a. /\ N \in SUBSET Nat /\ IsFiniteSet(N) /\ \A r \in rows : r.from \in N /\ r.to \in N
      /\ hops \in Nat /\ t \in States(N) /\ Sought(t, rows, from, to, hops, k)
  BY DEF N, rows, from, to, hops
<1>1. CASE t.queue = <<>> \/ t.verdict # "open"
  <2>1. Sought(t, rows, from, to, hops, k + 1)
    BY <1>1, <1>a DEF Sought
  <2> QED BY <1>0, <1>1, <1>a, <2>1 DEF N, rows, from, to, hops
<1>2. CASE t.queue # <<>> /\ t.verdict = "open"
  <2>1. PICK n \in Nat : Looking(t, rows, from, to, hops, {}, n) /\ n = k
    BY <1>2, <1>a DEF Sought
  <2>2. /\ Tree(rows, {from}, t.seen, t.parents) /\ Frontier(rows, {from}, t.seen, t.queue, {}, hops)
        /\ to \notin t.seen /\ IsFiniteSet(t.seen) /\ Cardinality(t.seen) = k + Len(t.queue)
    BY <2>1 DEF Looking
  <2>3. /\ Frontier(rows, {from}, t.seen, Tail(t.queue), {o}, hops) /\ o = <<v, d>> /\ d \in Nat /\ v \in t.seen
        /\ Len(t.queue) = Len(Tail(t.queue)) + 1
    BY <1>2, <2>2, FrontierPops
  <2>4. /\ rest \in States(N) /\ rest.seen = t.seen /\ rest.parents = t.parents /\ rest.verdict = "open"
        /\ rest.queue = Tail(t.queue)
    <3> DEFINE A == N \X Nat
               q == Tail(t.queue)
    <3>1. t.queue \in Seq(A) /\ t.queue # <<>>
      BY <1>2, <1>a DEF States
    <3> HIDE DEF A
    <3>2. q \in Seq(A)
      BY <3>1
    <3> HIDE DEF q
    <3>3. q \in Seq(N \X Nat)
      BY <3>2 DEF A
    <3>4. rest = [t EXCEPT !.queue = q]
      BY DEF q
    <3> HIDE DEF rest
    <3>5. rest \in States(N) /\ rest.seen = t.seen /\ rest.parents = t.parents /\ rest.verdict = t.verdict /\ rest.queue = q
      BY <1>a, <3>3, <3>4 DEF States
    <3> QED BY <1>2, <3>5 DEF q
  <2> HIDE DEF rest, o
  <2>5. Len(Tail(t.queue)) \in Nat /\ Len(rest.queue) \in Nat
    <3> DEFINE A == N \X Nat
    <3>1. rest.queue \in Seq(A)
      BY <2>4 DEF States
    <3> HIDE DEF A
    <3> QED BY <2>4, <3>1
  <2>6. Looking(rest, rows, from, to, hops, {<<v, d>>}, k + 1)
    <3>1. Cardinality(t.seen) = (k + 1) + Len(rest.queue)
      BY <2>2, <2>3, <2>4, <2>5
    <3>2. Frontier(rows, {from}, rest.seen, rest.queue, {<<v, d>>}, hops)
      BY <2>3, <2>4
    <3> QED BY <2>2, <2>4, <3>1, <3>2 DEF Looking
  <2>7. v \in N
    BY <1>a, <2>3 DEF States
  <2> HIDE DEF v, d
  <2>8. CASE d >= hops
    <3>1. Pop(t, g, call) = rest
      BY <1>0, <1>2, <2>8
    <3>2. ~ (d < hops)
      BY <1>a, <2>3, <2>8
    <3>3. Frontier(rows, {from}, rest.seen, rest.queue, {}, hops)
      BY <1>a, <2>3, <2>6, <3>2, FrontierCloses DEF Looking
    <3>4. Looking(rest, rows, from, to, hops, {}, k + 1)
      BY <2>6, <3>3 DEF Looking
    <3>5. k + 1 \in Nat /\ rest.verdict # "found"
      BY <2>4
    <3>6. Sought(rest, rows, from, to, hops, k + 1)
      BY <3>4, <3>5 DEF Sought
    <3> QED BY <2>4, <3>1, <3>6 DEF N, rows, from, to, hops
  <2>9. CASE ~ (d >= hops)
    <3> DEFINE seq == ById(Beside(rows, v))
               t2 == MeetAll(rest, v, seq, to, d)
    <3>1. Pop(t, g, call) = t2
      BY <1>0, <1>2, <2>9
    <3>2. d < hops
      BY <1>a, <2>3, <2>9
    <3>3. /\ seq \in Seq(N)
          /\ \A i \in 1 .. Len(seq) : seq[i] \in Beside(rows, v)
          /\ \A u \in Beside(rows, v) : \E i \in 1 .. Len(seq) : seq[i] = u
      <4>1. N \subseteq Nat /\ IsFiniteSet(N) /\ v \in N /\ Closed(rows, N)
        BY <1>a, <2>7 DEF Closed
      <4>2. ListsBeside(ById(Beside(rows, v)), N, rows, v)
        BY <4>1, NeighboursInOrder
      <4> HIDE DEF seq
      <4> QED BY <4>2 DEF seq, ListsBeside
    <3> HIDE DEF seq
    <3>4. k + 1 \in Nat
      OBVIOUS
    <3>5. /\ t2 \in States(N)
          /\ t2.verdict = "open" => Looking(t2, rows, from, to, hops, {}, k + 1)
          /\ t2.verdict = "found" => Found(t2, rows, from, to, hops)
      BY <1>a, <2>3, <2>4, <2>6, <2>7, <3>2, <3>3, <3>4, Expands
    <3> HIDE DEF t2
    <3>6. Sought(t2, rows, from, to, hops, k + 1)
      BY <3>4, <3>5 DEF Sought
    <3> QED BY <3>1, <3>5, <3>6 DEF N, rows, from, to, hops
  <2> QED BY <2>8, <2>9
<1> QED BY <1>1, <1>2

\* The search of a path, from its beginning.
Start(call) == [queue |-> << <<call.from, 0>> >>, seen |-> {call.from}, parents |-> {}, verdict |-> "open"]

\* The beginning is one after no pop.
LEMMA SearchBegins ==
  ASSUME NEW N, NEW rows, NEW call, call.from \in N, call.to # call.from
  PROVE  Start(call) \in States(N) /\ Sought(Start(call), rows, call.from, call.to, call.hops, 0)
<1> DEFINE from == call.from
           q == << <<from, 0>> >>
           s == Start(call)
           A == N \X Nat
           x == <<from, 0>>
<1>0. s.queue = q /\ s.seen = {from} /\ s.parents = {} /\ s.verdict = "open"
  BY DEF Start
<1>1. q \in Seq(N \X Nat) /\ Len(q) = 1
  <2>1. x \in A
    OBVIOUS
  <2> HIDE DEF A, x
  <2>2. <<x>> \in Seq(A) /\ Len(<<x>>) = 1
    BY <2>1
  <2> QED BY <2>2 DEF A, x
<1>2. s \in States(N)
  <2> HIDE DEF q
  <2> QED BY <1>1 DEF States, Start, q
<1>3. Tree(rows, {from}, {from}, {})
  BY TreeBegins
<1>4. Frontier(rows, {from}, {from}, q, {}, call.hops)
  <2>1. DOMAIN q = {1} /\ q[1] = x /\ x[1] = from /\ x[2] = 0
    OBVIOUS
  <2>2. AtDist(rows, {from}, from, 0)
    BY WithinSteps DEF AtDist
  <2>3. q \in Seq({from} \X Nat)
    <3> DEFINE F == {from} \X Nat
    <3>1. x \in F
      OBVIOUS
    <3> HIDE DEF F, x
    <3>2. <<x>> \in Seq(F)
      BY <3>1
    <3> QED BY <3>2 DEF F, x
  <2> HIDE DEF q, x
  <2> QED BY <2>1, <2>2, <2>3 DEF Frontier
<1>5. IsFiniteSet({from}) /\ Cardinality({from}) = 1
  BY FS_Singleton
<1> HIDE DEF q
<1>6. Looking(s, rows, from, call.to, call.hops, {}, 0)
  BY <1>0, <1>1, <1>3, <1>4, <1>5 DEF Looking
<1> HIDE DEF s
<1>7. 0 \in Nat /\ s.verdict # "found"
  BY <1>0
<1>8. Sought(s, rows, from, call.to, call.hops, 0)
  BY <1>6, <1>7 DEF Sought
<1> QED BY <1>2, <1>8 DEF s

\* Its end.
LEMMA SearchEnds ==
  ASSUME NEW g, NEW call, g.nodes \in SUBSET Nat, IsFiniteSet(g.nodes), Closed(g.rows, g.nodes),
         call.hops \in Nat, call.from \in g.nodes, call.to # call.from
  PROVE  LET t == PopAll(g, call, Start(call)) IN
         /\ t \in States(g.nodes)
         /\ t.verdict = "open" => call.to \notin Within(g.rows, {call.from}, call.hops)
         /\ t.verdict = "found" => Found(t, g.rows, call.from, call.to, call.hops)
<1> DEFINE N == g.nodes
           m == Cardinality(N)
           Good(k, t) == Sought(t, g.rows, call.from, call.to, call.hops, k)
           T == {t \in States(N) : \E k \in Nat : Good(k, t)}
           G == PopSteps(T, g, call)
           start == Start(call)
           I == {x \in (0 .. m) \X T : Good(x[1], x[2])}
<1>1. m \in Nat
  BY FS_CardinalityType
<1>2. start \in T /\ Good(0, start)
  <2>1. start \in States(N) /\ Good(0, start) /\ 0 \in Nat
    BY SearchBegins
  <2> HIDE DEF Good, start
  <2> QED BY <2>1
<1>3. \A r \in g.rows : r.from \in g.nodes /\ r.to \in g.nodes
  BY DEF Closed
<1>4. ASSUME NEW t \in T, NEW k \in Nat, Good(k, t) PROVE Pop(t, g, call) \in T /\ Good(k + 1, Pop(t, g, call))
  <2>1. Pop(t, g, call) \in States(N) /\ Good(k + 1, Pop(t, g, call)) /\ k + 1 \in Nat
    BY <1>3, <1>4, PopsOne
  <2> HIDE DEF Good
  <2> QED BY <2>1
<1>5. \A t \in T : Pop(t, g, call) \in T
  <2> HIDE DEF Good
  <2> QED BY <1>4
<1> HIDE DEF start
<1>6. PICK h : Chain(h, G, start, m, T) /\ PopAll(g, call, start) = h[m]
  <2> HIDE DEF T
  <2> QED BY <1>1, <1>2, <1>5, Popping
<1>7. \A t \in T, k \in 1 .. m : G[<<t, k>>] = Pop(t, g, call)
  <2> HIDE DEF T
  <2> QED BY DEF PopSteps
<1> HIDE DEF G, Good, T
<1>8. <<0, start>> \in I
  BY <1>1, <1>2
<1>9. Carries(I, G, m, T)
  <2>1. ASSUME NEW k \in 1 .. m, NEW t \in T, <<k - 1, t>> \in I PROVE <<k, G[<<t, k>>]>> \in I
    <3>1. Good(k - 1, t) /\ k - 1 \in Nat /\ (k - 1) + 1 = k
      BY <1>1, <2>1
    <3>2. Pop(t, g, call) \in T /\ Good(k, Pop(t, g, call))
      BY <1>4, <3>1
    <3> QED BY <1>1, <1>7, <3>2
  <2> HIDE DEF I, m
  <2> QED BY <2>1 DEF Carries
<1>10. h[m] \in T /\ <<m, h[m]>> \in I
  <2>1. m \in 0 .. m
    BY <1>1
  <2> HIDE DEF I, m
  <2> QED BY <1>1, <1>6, <1>8, <1>9, <2>1, ChainHolds
<1> DEFINE t == h[m]
<1>11. t \in States(N) /\ Good(m, t)
  BY <1>10 DEF T
<1> HIDE DEF t
<1>12. t.verdict = "open" => call.to \notin Within(g.rows, {call.from}, call.hops)
  <2> SUFFICES ASSUME t.verdict = "open" PROVE call.to \notin Within(g.rows, {call.from}, call.hops)
    OBVIOUS
  <2>1. PICK n \in Nat : /\ Looking(t, g.rows, call.from, call.to, call.hops, {}, n)
                         /\ t.queue = <<>> \/ n = m
    BY <1>11 DEF Good, Sought
  <2>2. /\ Frontier(g.rows, {call.from}, t.seen, t.queue, {}, call.hops) /\ call.to \notin t.seen
        /\ Cardinality(t.seen) = n + Len(t.queue)
    BY <2>1 DEF Looking
  <2>3. t.queue = <<>>
    <3> SUFFICES ASSUME n = m PROVE t.queue = <<>>
      BY <2>1
    <3>1. Cardinality(t.seen) <= m /\ Cardinality(t.seen) \in Nat
      BY <1>1, <1>11, FS_Subset, FS_CardinalityType DEF States
    <3> DEFINE A == N \X Nat
    <3>2. t.queue \in Seq(A)
      BY <1>11 DEF States
    <3> HIDE DEF A, m
    <3>3. Len(t.queue) \in Nat
      BY <3>2
    <3>4. Len(t.queue) = 0
      BY <1>1, <2>2, <3>1, <3>3
    <3> QED BY <3>2, <3>4
  <2>4. Within(g.rows, {call.from}, call.hops) \subseteq t.seen
    BY <2>2, <2>3, FrontierEnds
  <2> QED BY <2>2, <2>4
<1>13. t.verdict = "found" => Found(t, g.rows, call.from, call.to, call.hops)
  BY <1>11 DEF Good, Sought
<1> QED BY <1>6, <1>11, <1>12, <1>13 DEF t, start

-----------------------------------------------------------------------------
(* Scoped views: what answers disclose.                                    *)

\* What a path that is answered says.
PathFine(data, call, N, rows) ==
  IF data # <<>>
    THEN /\ \A i \in DOMAIN data : data[i] \in N
         /\ IsShortest(rows, data, call.from, call.to, call.hops)
    ELSE \/ ~ {call.from, call.to} \subseteq N
         \/ call.to \notin Within(rows, {call.from}, call.hops)

Tells(a, call, data) == a.body = "data" /\ a.about = call /\ a.data = data
TurnsDown(a) == a.body = "blocked" /\ a.about \in {"arguments", "budget"}

\* An answer about a path, by what its search found.
LEMMA PathAnswerIs ==
  ASSUME NEW g, NEW call
  PROVE  PathAnswer(g, call) =
           IF call.hops = 0 \/ call.hops > HopCap THEN Blocked("arguments")
           ELSE IF ~ {call.from, call.to} \subseteq g.nodes THEN Data(call, <<>>)
           ELSE IF call.from = call.to THEN Data(call, <<call.from>>)
           ELSE CASE PopAll(g, call, Start(call)).verdict = "found" ->
                       Data(call, PathTo(call.to, PopAll(g, call, Start(call)).parents))
                  [] PopAll(g, call, Start(call)).verdict = "budget" -> Blocked("budget")
                  [] OTHER -> Data(call, <<>>)
BY DEF PathAnswer, PopAll, Start, FoldLeft, MapThenFoldSet

\* It is a path that is a shortest one, or none within the hops.
LEMMA PathAnswers ==
  ASSUME NEW g, NEW call, g.nodes \in SUBSET Nat, IsFiniteSet(g.nodes), Closed(g.rows, g.nodes), call.hops \in Nat
  PROVE  LET a == PathAnswer(g, call) IN
         TurnsDown(a) \/ (\E data : Tells(a, call, data) /\ PathFine(data, call, g.nodes, g.rows))
<1> DEFINE a == PathAnswer(g, call)
           t == PopAll(g, call, Start(call))
           path == PathTo(call.to, t.parents)
           N == g.nodes
           rows == g.rows
<1>0. /\ TurnsDown(Blocked("arguments")) /\ TurnsDown(Blocked("budget"))
      /\ \A d : Tells(Data(call, d), call, d)
  BY DEF TurnsDown, Blocked, Tells, Data
<1>1. a = IF call.hops = 0 \/ call.hops > HopCap THEN Blocked("arguments")
          ELSE IF ~ {call.from, call.to} \subseteq N THEN Data(call, <<>>)
          ELSE IF call.from = call.to THEN Data(call, <<call.from>>)
          ELSE CASE t.verdict = "found" -> Data(call, path)
                 [] t.verdict = "budget" -> Blocked("budget")
                 [] OTHER -> Data(call, <<>>)
  BY PathAnswerIs
<1>2. ~ {call.from, call.to} \subseteq N => PathFine(<<>>, call, N, rows)
  BY DEF PathFine
<1>3. call.from \in N /\ call.from = call.to => PathFine(<<call.from>>, call, N, rows)
  <2> SUFFICES ASSUME call.from \in N, call.from = call.to PROVE PathFine(<<call.from>>, call, N, rows)
    OBVIOUS
  <2> DEFINE p == <<call.from>>
  <2>1. p # <<>> /\ Len(p) = 1 /\ Head(p) = call.from /\ Last(p) = call.from /\ DOMAIN p = {1} /\ p[1] = call.from
    BY DEF Last
  <2> HIDE DEF p
  <2>2. IsShortest(rows, p, call.from, call.to, call.hops)
    BY <2>1 DEF IsShortest
  <2> QED BY <2>1, <2>2 DEF PathFine, p
<1>4. ASSUME {call.from, call.to} \subseteq N, call.from # call.to
      PROVE  /\ t.verdict \in {"open", "found", "budget"}
             /\ t.verdict = "open" => PathFine(<<>>, call, N, rows)
             /\ t.verdict = "found" => PathFine(path, call, N, rows)
  <2>1. /\ t \in States(N)
        /\ t.verdict = "open" => call.to \notin Within(rows, {call.from}, call.hops)
        /\ t.verdict = "found" => Found(t, rows, call.from, call.to, call.hops)
    BY <1>4, SearchEnds
  <2> HIDE DEF t, N, rows
  <2>2. t.verdict \in {"open", "found", "budget"} /\ t.seen \subseteq N
    BY <2>1 DEF States
  <2>3. t.verdict = "open" => PathFine(<<>>, call, N, rows)
    BY <2>1 DEF PathFine
  <2>4. t.verdict = "found" => PathFine(path, call, N, rows)
    <3> SUFFICES ASSUME t.verdict = "found" PROVE PathFine(path, call, N, rows)
      OBVIOUS
    <3>1. /\ Tree(rows, {call.from}, t.seen, t.parents) /\ call.to \in t.seen
      BY <2>1 DEF Found
    <3>2. PICK d \in Nat : d <= call.hops /\ AtDist(rows, {call.from}, call.to, d)
      BY <2>1 DEF Found
    <3>3. path \in Seq(t.seen) /\ path # <<>> /\ IsShortest(rows, path, call.from, call.to, call.hops)
      BY <3>1, <3>2, TreePath
    <3> HIDE DEF path
    <3>4. \A i \in DOMAIN path : path[i] \in N
      BY <2>2, <3>3
    <3> QED BY <3>3, <3>4 DEF PathFine
  <2> QED BY <2>2, <2>3, <2>4
<1> HIDE DEF a, t, path, N, rows
<1>5. CASE call.hops = 0 \/ call.hops > HopCap
  BY <1>0, <1>1, <1>5 DEF a
<1>6. CASE ~ (call.hops = 0 \/ call.hops > HopCap) /\ ~ {call.from, call.to} \subseteq N
  BY <1>0, <1>1, <1>2, <1>6 DEF a, N, rows
<1>7. CASE ~ (call.hops = 0 \/ call.hops > HopCap) /\ {call.from, call.to} \subseteq N /\ call.from = call.to
  BY <1>0, <1>1, <1>3, <1>7 DEF a, N, rows
<1>8. CASE ~ (call.hops = 0 \/ call.hops > HopCap) /\ {call.from, call.to} \subseteq N /\ call.from # call.to
  <2>1. a = CASE t.verdict = "found" -> Data(call, path)
              [] t.verdict = "budget" -> Blocked("budget")
              [] OTHER -> Data(call, <<>>)
    BY <1>1, <1>8
  <2>2. \/ t.verdict = "found" /\ a = Data(call, path)
        \/ a = Blocked("budget")
        \/ t.verdict = "open" /\ a = Data(call, <<>>)
    <3>1. t.verdict \in {"open", "found", "budget"}
      BY <1>4, <1>8
    <3>2. CASE t.verdict = "found"
      <4>1. t.verdict # "budget"
        BY <3>2
      <4> QED BY <2>1, <3>2, <4>1
    <3>3. CASE t.verdict = "budget"
      <4>1. t.verdict # "found"
        BY <3>3
      <4> QED BY <2>1, <3>3, <4>1
    <3>4. CASE t.verdict = "open"
      <4>1. t.verdict # "found" /\ t.verdict # "budget"
        BY <3>4
      <4> QED BY <2>1, <3>4, <4>1
    <3> QED BY <3>1, <3>2, <3>3, <3>4
  <2> QED BY <1>0, <1>4, <1>8, <2>2 DEF a, N, rows
<1> QED BY <1>5, <1>6, <1>7, <1>8

\* What a page says.
PageFine(data, call, whole) ==
  /\ data[1] = SubSeq(whole, call.cursor + 1, call.cursor + Len(data[1]))
  /\ Len(data[1]) <= call.limit
  /\ data[2] = (IF call.cursor + Len(data[1]) < Len(whole) THEN {call.cursor + Len(data[1])} ELSE {})

\* A page is a part of the whole.
LEMMA PageAnswers ==
  ASSUME NEW V, NEW items \in Seq(V), NEW call, call.cursor \in Nat, call.limit \in Nat
  PROVE  LET a == Page(call, items) IN TurnsDown(a) \/ (\E data : Tells(a, call, data) /\ PageFine(data, call, items))
<1> DEFINE n == Len(items)
           c == call.cursor
           end == IF c + call.limit < n THEN c + call.limit ELSE n
           first == SubSeq(items, c + 1, end)
           next == IF end < n THEN {end} ELSE {}
           data == <<first, next>>
           a == Page(call, items)
<1>1. n \in Nat
  OBVIOUS
<1>2. CASE call.limit = 0 \/ call.limit > PageCap \/ ~ call.same \/ c > n
  <2>1. a = Blocked("arguments")
    BY <1>2 DEF Page
  <2> HIDE DEF a
  <2> QED BY <2>1 DEF TurnsDown, Blocked, a
<1>3. CASE ~ (call.limit = 0 \/ call.limit > PageCap \/ ~ call.same \/ c > n)
  <2>1. a = Data(call, data)
    BY <1>3 DEF Page
  <2>2. c <= n /\ end \in Nat /\ end <= n /\ c <= end /\ end - c <= call.limit
    BY <1>1, <1>3
  <2>3. Len(first) = end - c
    <3> HIDE DEF end, n
    <3>1. c + 1 \in Nat /\ c + 1 <= end + 1 /\ end <= Len(items)
      BY <2>2 DEF n
    <3>2. Len(first) = 1 + end - (c + 1)
      BY <2>2, <3>1
    <3> QED BY <2>2, <3>2
  <2>4. data[1] = first /\ data[2] = next /\ c + Len(first) = end
    <3>1. data[1] = first /\ data[2] = next
      OBVIOUS
    <3> HIDE DEF data, end, first
    <3> QED BY <2>2, <2>3, <3>1
  <2> HIDE DEF data
  <2>5. PageFine(data, call, items)
    BY <2>2, <2>3, <2>4 DEF PageFine
  <2>6. Tells(a, call, data)
    BY <2>1 DEF Tells, Data
  <2> QED BY <2>5, <2>6 DEF a
<1> QED BY <1>2, <1>3

\* The calls, by what they ask for.
LEMMA CallKinds ==
  ASSUME NEW call \in ScopedCall
  PROVE  \/ call.kind \in {"nodes", "rows"} /\ call.cursor \in Nat /\ call.limit \in Nat
         \/ call.kind = "lookup"
         \/ call.kind = "path" /\ call.hops \in Nat
<1>1. call \in CallType
  BY ScopedAssumption
<1> QED BY <1>1 DEF CallType

\* The rows that a page is cut from, and the entities, are in order.
LEMMA ByIdSequence ==
  ASSUME NEW S, IsFiniteSet(S)
  PROVE  \E V : ById(S) \in Seq(V)
<1> DEFINE s == ById(S)
           m == Cardinality(S)
           V == {s[i] : i \in 1 .. m}
<1>1. s = [n \in 1 .. m |-> CHOOSE x \in S : Cardinality({y \in S : y < x}) = n - 1]
  BY DEF ById, Ranked
<1>2. m \in Nat
  BY FS_CardinalityType
<1>3. s \in [1 .. m -> V]
  <2>1. s = [n \in 1 .. m |-> s[n]]
    BY <1>1
  <2> HIDE DEF s, m
  <2> QED BY <2>1
<1> HIDE DEF s, m, V
<1>4. s \in Seq(V)
  BY <1>2, <1>3
<1> QED BY <1>4 DEF s

\* So are rows.
LEMMA InOrderSequence ==
  ASSUME NEW S, IsFiniteSet(S)
  PROVE  \E V : InOrder(S) \in Seq(V)
<1> DEFINE s == InOrder(S)
           m == Cardinality(S)
           V == {s[i] : i \in 1 .. m}
<1>1. s = [n \in 1 .. m |-> CHOOSE x \in S : Cardinality({y \in S : y.id < x.id}) = n - 1]
  BY DEF InOrder, Ranked
<1>2. m \in Nat
  BY FS_CardinalityType
<1>3. s \in [1 .. m -> V]
  <2>1. s = [n \in 1 .. m |-> s[n]]
    BY <1>1
  <2> HIDE DEF s, m
  <2> QED BY <2>1
<1> HIDE DEF s, m, V
<1>4. s \in Seq(V)
  BY <1>2, <1>3
<1> QED BY <1>4 DEF s

\* What an admitted view freezes.
SeenGraph == [nodes |-> build.inside, rows |-> SeenRows]
RowsAbout(call) == {r \in SeenRows : call.about = {} \/ call.about \cap {r.from, r.to} # {}}

\* Its entities are finitely many numbers, and its rows stay among them.
LEMMA ViewFacts ==
  ASSUME build \in Builds
  PROVE  /\ SeenGraph.nodes = build.inside /\ SeenGraph.rows = SeenRows
         /\ build.inside \in SUBSET Nat /\ IsFiniteSet(build.inside)
         /\ IsFiniteSet(SeenRows) /\ Closed(SeenRows, build.inside)
         /\ SeenRows = VisibleRows(build, build.inside)
<1>1. build \in BuildType /\ IsFiniteSet(build.nodes) /\ IsFiniteSet(build.rows) /\ build.inside \subseteq build.nodes
  BY ScopedAssumption
<1>2. IsFiniteSet(build.inside) /\ IsFiniteSet(SeenRows)
  <2>1. SeenRows \subseteq build.rows
    BY DEF SeenRows
  <2> QED BY <1>1, <2>1, FS_Subset
<1>3. build.inside \in SUBSET Nat
  BY <1>1 DEF BuildType
<1>4. Closed(SeenRows, build.inside)
  BY DEF Closed, SeenRows, VisibleNodes
<1>5. SeenRows = VisibleRows(build, build.inside)
  BY DEF SeenRows, VisibleRows, VisibleNodes
<1>6. SeenGraph.nodes = build.inside /\ SeenGraph.rows = SeenRows
  BY DEF SeenGraph
<1> QED BY <1>2, <1>3, <1>4, <1>5, <1>6

\* Every answer of the frozen graph discloses what the view has.
LEMMA AnswersDisclose ==
  ASSUME build \in Builds, NEW call \in ScopedCall
  PROVE  LET a == AnswerOf(SeenGraph, call) IN TurnsDown(a) \/ (a.body = "data" /\ Discloses(a))
<1> DEFINE a == AnswerOf(SeenGraph, call)
           whole == IF call.kind = "nodes" THEN ById(build.inside) ELSE InOrder(RowsAbout(call))
<1>0. /\ SeenGraph.nodes = build.inside /\ SeenGraph.rows = SeenRows
      /\ build.inside \in SUBSET Nat /\ IsFiniteSet(build.inside)
      /\ IsFiniteSet(SeenRows) /\ Closed(SeenRows, build.inside)
  BY ViewFacts
<1>1. CASE call.kind \in {"nodes", "rows"}
  <2>1. call.cursor \in Nat /\ call.limit \in Nat
    BY <1>1, CallKinds
  <2>2. \E V : whole \in Seq(V)
    <3>1. RowsAbout(call) \subseteq SeenRows
      BY DEF RowsAbout
    <3>2. IsFiniteSet(RowsAbout(call))
      BY <1>0, <3>1, FS_Subset
    <3>3. (\E V : ById(build.inside) \in Seq(V)) /\ (\E V : InOrder(RowsAbout(call)) \in Seq(V))
      BY <1>0, <3>2, ByIdSequence, InOrderSequence
    <3>4. CASE call.kind = "nodes"
      BY <3>3, <3>4
    <3>5. CASE call.kind # "nodes"
      BY <3>3, <3>5
    <3> QED BY <3>4, <3>5
  <2>3. a = Page(call, whole)
    <3>1. CASE call.kind = "nodes"
      BY <1>0, <3>1 DEF AnswerOf
    <3>2. CASE call.kind = "rows"
      BY <1>0, <3>2 DEF AnswerOf, RowsAbout
    <3> QED BY <1>1, <3>1, <3>2
  <2> HIDE DEF a, whole
  <2>4. TurnsDown(a) \/ (\E data : Tells(a, call, data) /\ PageFine(data, call, whole))
    BY <2>1, <2>2, <2>3, PageAnswers
  <2>5. ASSUME NEW data, Tells(a, call, data), PageFine(data, call, whole)
        PROVE  a.body = "data" /\ Discloses(a)
    <3>1. a.body = "data" /\ a.about = call /\ a.data = data
      BY <2>5 DEF Tells
    <3>2. whole = IF call.kind = "nodes" THEN ById(VisibleNodes)
                  ELSE InOrder({r \in SeenRows : call.about = {} \/ call.about \cap {r.from, r.to} # {}})
      BY DEF whole, RowsAbout, VisibleNodes
    <3> QED BY <1>1, <2>5, <3>1, <3>2 DEF Discloses, PageFine
  <2> QED BY <2>4, <2>5 DEF a
<1>2. CASE call.kind = "lookup"
  <2>1. a = Data(call, IF call.id \in build.inside THEN <<call.id>> ELSE <<>>)
    BY <1>0, <1>2 DEF AnswerOf
  <2>2. a.body = "data" /\ a.about = call /\ a.data = (IF call.id \in build.inside THEN <<call.id>> ELSE <<>>)
    BY <2>1 DEF Data
  <2> HIDE DEF a
  <2>3. Discloses(a)
    BY <1>2, <2>2 DEF Discloses, VisibleNodes
  <2> QED BY <2>2, <2>3 DEF a
<1>3. CASE call.kind = "path"
  <2>1. call.hops \in Nat
    BY <1>3, CallKinds
  <2>2. a = PathAnswer(SeenGraph, call)
    BY <1>3 DEF AnswerOf
  <2>3. TurnsDown(a) \/ (\E data : Tells(a, call, data) /\ PathFine(data, call, build.inside, SeenRows))
    <3> DEFINE g == SeenGraph
    <3>1. g.nodes \in SUBSET Nat /\ IsFiniteSet(g.nodes) /\ Closed(g.rows, g.nodes)
      BY <1>0
    <3> HIDE DEF g
    <3>2. TurnsDown(PathAnswer(g, call)) \/ \E data : Tells(PathAnswer(g, call), call, data) /\ PathFine(data, call, g.nodes, g.rows)
      BY <2>1, <3>1, PathAnswers
    <3> QED BY <1>0, <2>2, <3>2 DEF g
  <2> HIDE DEF a
  <2>5. ASSUME NEW data, Tells(a, call, data), PathFine(data, call, build.inside, SeenRows)
        PROVE  a.body = "data" /\ Discloses(a)
    <3>1. a.body = "data" /\ a.about = call /\ a.data = data
      BY <2>5 DEF Tells
    <3> QED BY <1>3, <2>5, <3>1 DEF Discloses, PathFine, VisibleNodes
  <2> QED BY <2>3, <2>5 DEF a
<1> QED BY <1>1, <1>2, <1>3, CallKinds

\* What an answer discloses, of a build.
RowsSeen(b) == {r \in b.rows : {r.from, r.to} \subseteq b.inside}
DisclosesOf(b, answer) ==
  LET call == answer.about
      data == answer.data
      whole == IF call.kind = "nodes" THEN ById(b.inside)
               ELSE InOrder({r \in RowsSeen(b) : call.about = {} \/ call.about \cap {r.from, r.to} # {}})
  IN  CASE call.kind \in {"nodes", "rows"} ->
             /\ data[1] = SubSeq(whole, call.cursor + 1, call.cursor + Len(data[1]))
             /\ Len(data[1]) <= call.limit
             /\ data[2] = (IF call.cursor + Len(data[1]) < Len(whole) THEN {call.cursor + Len(data[1])} ELSE {})
        [] call.kind = "lookup" -> data = IF call.id \in b.inside THEN <<call.id>> ELSE <<>>
        [] call.kind = "path" ->
             IF data # <<>>
               THEN /\ \A i \in DOMAIN data : data[i] \in b.inside
                    /\ IsShortest(RowsSeen(b), data, call.from, call.to, call.hops)
               ELSE \/ ~ {call.from, call.to} \subseteq b.inside
                    \/ call.to \notin Within(RowsSeen(b), {call.from}, call.hops)
\* It is what AnswersStayInView asks of an answer.
LEMMA DisclosesIs ==
  ASSUME NEW a
  PROVE  Discloses(a) <=> DisclosesOf(build, a)
BY DEF Discloses, DisclosesOf, SeenRows, RowsSeen, VisibleNodes

\* An answer that the view allows, and one that only an attempt gets.
InsideOnly(b) == \A r \in RowsSeen(b) : r.evidence = "inside"
Honest(b, a) == a.body = "data" => DisclosesOf(b, a) /\ InsideOnly(b)
Counts(a) == a.body = "data" \/ a.about = "denied"
Owes(r) == r.stage = "working" \/ (r.stage = "ready" /\ Counts(r.answer))

\* A task of a connection, what it is about to write, and what it has written.
TaskFine(b, t, r) ==
  /\ DOMAIN r = {"number", "call", "stage", "answer"} /\ r.call \in ScopedCall
  /\ r.stage \in {"spawned", "working", "ready"}
  /\ r.stage = "ready" => Honest(b, r.answer)
  /\ r.stage = "spawned" => r.number \notin t
  /\ Owes(r) => r.number \in t

ViewedFine(b, t, r) == Honest(b, r.answer) /\ (Counts(r.answer) => r.number \in t)

SendingFine(b, t, r) ==
  /\ DOMAIN r = {"number", "answer", "seen"} /\ r.seen \in {"new", "waiting", "valid"}
  /\ ViewedFine(b, t, r)

DeliveredFine(b, t, r) == r.seen = "valid" /\ ViewedFine(b, t, r)

\* A connection, what it has delivered, and the calls it has attempted.
ConnFine(b, c, d, t) ==
  /\ DOMAIN c = {"pc", "initialized", "running", "sending", "frames", "calls"}
  /\ c.frames \in Nat /\ c.calls \in 0 .. CallCap
  /\ \A r, s \in c.running : r = s
  /\ \A r, s \in c.sending : r = s
  /\ \A r \in c.running : TaskFine(b, t, r)
  /\ \A r \in c.sending : SendingFine(b, t, r)
  /\ \A r \in c.running \cup c.sending : r.number \in 1 .. c.frames
  /\ \A r \in c.running, s \in c.sending : r.number # s.number
  /\ (\E D : d \in Seq(D))
  /\ \A i \in DOMAIN d : d[i].number \in 1 .. c.frames /\ DeliveredFine(b, t, d[i])
  /\ \A i, j \in DOMAIN d : d[i].number = d[j].number => i = j
  /\ \A r \in c.running \cup c.sending : \A i \in DOMAIN d : d[i].number # r.number
  /\ t \subseteq 1 .. c.frames /\ IsFiniteSet(t) /\ Cardinality(t) = c.calls

\* Less waits, and nothing else changes.
LEMMA WaitsForLess ==
  ASSUME NEW b, NEW c, NEW d, NEW t, ConnFine(b, c, d, t), NEW e, DOMAIN e = DOMAIN c,
         e.running \subseteq c.running, e.sending \subseteq c.sending, e.frames = c.frames, e.calls = c.calls
  PROVE  ConnFine(b, e, d, t)
BY DEF ConnFine

\* A frame is answered at once.
LEMMA AnswersAtOnce ==
  ASSUME NEW b, NEW c, NEW d, NEW t, ConnFine(b, c, d, t), c.sending = {}, NEW e, DOMAIN e = DOMAIN c, NEW a,
         a.body # "data", ~ Counts(a),
         e.running = c.running, e.sending = {Response(c.frames + 1, a)}, e.frames = c.frames + 1, e.calls = c.calls
  PROVE  ConnFine(b, e, d, t)
<1> DEFINE x == Response(c.frames + 1, a)
<1>0. x.number = c.frames + 1 /\ x.answer = a /\ x.seen = "new" /\ DOMAIN x = {"number", "answer", "seen"}
  BY DEF Response
<1>1. e.sending = {x}
  OBVIOUS
<1> HIDE DEF x
<1>2. SendingFine(b, t, x)
  BY <1>0 DEF SendingFine, ViewedFine, Honest
<1>3. c.frames \in Nat /\ t \subseteq 1 .. e.frames
  BY DEF ConnFine
<1>4. e.frames \in Nat /\ x.number \in 1 .. e.frames /\ \A k \in 1 .. c.frames : k # x.number /\ k \in 1 .. e.frames
  BY <1>0, <1>3
<1>5. \A r \in e.running : r.number # x.number /\ r.number \in 1 .. e.frames
  BY <1>4 DEF ConnFine
<1>6. \A i \in DOMAIN d : /\ d[i].number \in 1 .. e.frames /\ d[i].number # x.number
                         /\ \A r \in e.running : d[i].number # r.number
  BY <1>4 DEF ConnFine
<1> QED BY <1>1, <1>2, <1>3, <1>4, <1>5, <1>6 DEF ConnFine

\* A call is begun.
LEMMA BeginsTask ==
  ASSUME NEW b, NEW c, NEW d, NEW t, ConnFine(b, c, d, t), c.running = {}, NEW e, DOMAIN e = DOMAIN c, NEW r,
         TaskFine(b, t, r), r.stage = "spawned", r.number = c.frames + 1,
         e.running = {r}, e.sending = c.sending, e.frames = c.frames + 1, e.calls = c.calls
  PROVE  ConnFine(b, e, d, t)
<1>1. c.frames \in Nat /\ t \subseteq 1 .. e.frames
  BY DEF ConnFine
<1> QED BY <1>1 DEF ConnFine

\* A task goes on.
LEMMA TaskGoesOn ==
  ASSUME NEW b, NEW c, NEW d, NEW t, ConnFine(b, c, d, t), NEW r \in c.running, NEW e, DOMAIN e = DOMAIN c, NEW u,
         TaskFine(b, t, u), u.number = r.number,
         e.running = {u}, e.sending = c.sending, e.frames = c.frames, e.calls = c.calls
  PROVE  ConnFine(b, e, d, t)
<1>1. \A s \in c.running : s = r
  BY DEF ConnFine
<1> QED BY <1>1 DEF ConnFine

\* A call is attempted: one more call, and one more frame among those tried.
LEMMA TaskIsTried ==
  ASSUME NEW b, NEW c, NEW d, NEW t, ConnFine(b, c, d, t), NEW r \in c.running, r.stage = "spawned",
         NEW e, DOMAIN e = DOMAIN c, NEW v, v = t \cup {r.number}, NEW u, TaskFine(b, v, u), u.number = r.number,
         e.running = {u}, e.sending = c.sending, e.frames = c.frames, c.calls < CallCap, e.calls = c.calls + 1
  PROVE  ConnFine(b, e, d, v)
<1>1. \A s \in c.running : s = r
  BY DEF ConnFine
<1>2. r.number \notin t /\ r.number \in 1 .. c.frames /\ IsFiniteSet(t) /\ Cardinality(t) = c.calls
  BY DEF ConnFine, TaskFine
<1>3. v \subseteq 1 .. e.frames /\ IsFiniteSet(v) /\ Cardinality(v) = e.calls
  <2>1. IsFiniteSet(v) /\ Cardinality(v) = Cardinality(t) + 1
    BY <1>2, FS_AddElement
  <2>2. v \subseteq 1 .. e.frames
    BY <1>2 DEF ConnFine
  <2> QED BY <1>2, <2>1, <2>2
<1>4. e.calls \in 0 .. CallCap
  <2>1. CallCap \in Nat /\ c.calls \in 0 .. CallCap
    BY ScopedAssumption DEF ConnFine
  <2> QED BY <2>1
<1>5. (\A s \in c.sending : SendingFine(b, v, s)) /\ (\A i \in DOMAIN d : DeliveredFine(b, v, d[i]))
  BY DEF ConnFine, SendingFine, DeliveredFine, ViewedFine
<1>6. u.number \in 1 .. e.frames /\ e.frames \in Nat /\ \A s \in e.sending : u.number # s.number /\ s.number \in 1 .. e.frames
  BY DEF ConnFine
<1>7. \A i \in DOMAIN d : /\ d[i].number \in 1 .. e.frames /\ d[i].number # u.number
                         /\ \A s \in e.sending : d[i].number # s.number
  BY DEF ConnFine
<1> QED BY <1>3, <1>4, <1>5, <1>6, <1>7 DEF ConnFine

\* The answer of a call is taken, or the call is cancelled.
LEMMA TaskIsAnswered ==
  ASSUME NEW b, NEW c, NEW d, NEW t, ConnFine(b, c, d, t), c.sending = {}, NEW r \in c.running, NEW e, DOMAIN e = DOMAIN c,
         NEW a, Honest(b, a), Counts(a) => Owes(r),
         e.running = {}, e.sending = {Response(r.number, a)}, e.frames = c.frames, e.calls = c.calls
  PROVE  ConnFine(b, e, d, t)
<1> DEFINE x == Response(r.number, a)
<1>0. x.number = r.number /\ x.answer = a /\ x.seen = "new" /\ DOMAIN x = {"number", "answer", "seen"}
  BY DEF Response
<1>1. e.sending = {x}
  OBVIOUS
<1> HIDE DEF x
<1>2. Counts(a) => r.number \in t
  BY DEF ConnFine, TaskFine
<1>3. SendingFine(b, t, x)
  BY <1>0, <1>2 DEF SendingFine, ViewedFine
<1> QED BY <1>0, <1>1, <1>3 DEF ConnFine

\* A response is looked at.
LEMMA ResponseGoesOn ==
  ASSUME NEW b, NEW c, NEW d, NEW t, ConnFine(b, c, d, t), NEW x \in c.sending, NEW e, DOMAIN e = DOMAIN c, NEW y,
         SendingFine(b, t, y), y.number = x.number,
         e.running = c.running, e.sending = {y}, e.frames = c.frames, e.calls = c.calls
  PROVE  ConnFine(b, e, d, t)
<1>1. \A s \in c.sending : s = x
  BY DEF ConnFine
<1> QED BY <1>1 DEF ConnFine

\* What a sequence is with one more element.
LEMMA OneMore ==
  ASSUME NEW d, \E D : d \in Seq(D), NEW x
  PROVE  LET f == Append(d, x)
             n == Len(d)
         IN  /\ n \in Nat /\ DOMAIN d = 1 .. n /\ DOMAIN f = 1 .. n + 1 /\ f[n + 1] = x /\ Len(f) = n + 1
             /\ \A i \in 1 .. n : f[i] = d[i]
             /\ \E D : f \in Seq(D)
<1>1. PICK D : d \in Seq(D)
  OBVIOUS
<1>2. d \in Seq(D \cup {x})
  BY <1>1, LargerSeq
<1>3. Append(d, x) \in Seq(D \cup {x})
  BY <1>2
<1> QED BY <1>1, <1>3

\* A response is written.
LEMMA ResponseIsDelivered ==
  ASSUME NEW b, NEW c, NEW d, NEW t, ConnFine(b, c, d, t), NEW x \in c.sending, x.seen = "valid",
         NEW y, y.number = x.number, y.answer = x.answer, y.seen = x.seen, NEW e, DOMAIN e = DOMAIN c,
         e.running = c.running, e.sending = {}, e.frames = c.frames, e.calls = c.calls
  PROVE  ConnFine(b, e, Append(d, y), t)
<1> DEFINE f == Append(d, y)
           n == Len(d)
<1>0. \E D : d \in Seq(D)
  BY DEF ConnFine
<1>1. /\ n \in Nat /\ DOMAIN d = 1 .. n /\ DOMAIN f = 1 .. n + 1 /\ f[n + 1] = y
      /\ \A i \in 1 .. n : f[i] = d[i]
      /\ \E D : f \in Seq(D)
  <2>1. LET g == Append(d, y)
            m == Len(d)
        IN  /\ m \in Nat /\ DOMAIN d = 1 .. m /\ DOMAIN g = 1 .. m + 1 /\ g[m + 1] = y /\ Len(g) = m + 1
            /\ \A i \in 1 .. m : g[i] = d[i]
            /\ \E D : g \in Seq(D)
    BY <1>0, OneMore, Zenon
  <2> QED BY <2>1
<1> HIDE DEF f, n
<1>2. \A s \in c.sending : s = x
  BY DEF ConnFine
<1>3. DeliveredFine(b, t, y) /\ y.number \in 1 .. c.frames
  BY DEF ConnFine, SendingFine, DeliveredFine, ViewedFine
<1>4. \A i \in DOMAIN f : f[i].number \in 1 .. e.frames /\ DeliveredFine(b, t, f[i])
  BY <1>1, <1>3 DEF ConnFine
<1>5. \A i, j \in DOMAIN f : f[i].number = f[j].number => i = j
  BY <1>1 DEF ConnFine
<1>6. \A r \in e.running \cup e.sending : \A i \in DOMAIN f : f[i].number # r.number
  BY <1>1, <1>2 DEF ConnFine
<1> QED BY <1>1, <1>4, <1>5, <1>6 DEF ConnFine, f

-----------------------------------------------------------------------------
(* Scoped views: the connection.                                           *)

\* The view of a connection, and the connection.
ViewInv ==
  /\ build \in Builds /\ lease \in {"valid", "expired", "revoked"}
  /\ scope # {} => scope = {SeenGraph} /\ InsideOnly(build)
  /\ conn.pc = "serving" => scope # {}
  /\ ConnFine(build, conn, delivered, tried)

\* A connection begins with nothing running.
LEMMA ScopedBegins == ScopedInit => ViewInv
<1> SUFFICES ASSUME ScopedInit PROVE ViewInv
  OBVIOUS
<1>0. /\ build \in Builds /\ lease = "valid" /\ scope = {} /\ conn = NoConn /\ delivered = <<>> /\ tried = {}
  BY DEF ScopedInit
<1>1. /\ DOMAIN conn = {"pc", "initialized", "running", "sending", "frames", "calls"}
      /\ conn.running = {} /\ conn.sending = {} /\ conn.frames = 0 /\ conn.calls = 0 /\ conn.pc = "admitting"
  BY <1>0 DEF NoConn
<1>2. delivered \in Seq({}) /\ DOMAIN delivered = {}
  BY <1>0
<1>4. tried \subseteq 1 .. conn.frames /\ IsFiniteSet(tried) /\ Cardinality(tried) = 0
  BY <1>0, FS_EmptySet
<1>6. CallCap \in Nat
  BY ScopedAssumption
<1>7. ConnFine(build, conn, delivered, tried)
  BY <1>1, <1>2, <1>4, <1>6 DEF ConnFine
<1> QED BY <1>0, <1>1, <1>7 DEF ViewInv

\* What an action that leaves the view alone has to keep.
LEMMA ViewStays ==
  ASSUME ViewInv, UNCHANGED <<build, lease, scope>>, conn.pc = "serving",
         ConnFine(build, conn', delivered', tried')
  PROVE  ViewInv'
<1>1. SeenGraph' = SeenGraph /\ InsideOnly(build)' = InsideOnly(build)
  BY DEF SeenGraph, InsideOnly, SeenRows, VisibleNodes
<1>2. ConnFine(build, conn, delivered, tried)'
  OBVIOUS
<1>3. scope # {}
  BY DEF ViewInv
<1> QED BY <1>1, <1>2, <1>3 DEF ViewInv

\* What a connection is, also when it ends.
LEMMA ConnShape ==
  ASSUME ViewInv
  PROVE  /\ ConnFine(build, conn, delivered, tried) /\ build \in Builds
         /\ DOMAIN conn = {"pc", "initialized", "running", "sending", "frames", "calls"}
         /\ DOMAIN Ended = DOMAIN conn /\ Ended.pc = "ended" /\ Ended.running = {} /\ Ended.sending = {}
         /\ Ended.frames = conn.frames /\ Ended.calls = conn.calls
<1>1. /\ ConnFine(build, conn, delivered, tried) /\ build \in Builds
      /\ DOMAIN conn = {"pc", "initialized", "running", "sending", "frames", "calls"}
  BY DEF ViewInv, ConnFine
<1> QED BY <1>1 DEF Ended

\* A connection ends.
LEMMA Ends ==
  ASSUME ViewInv, UNCHANGED <<build, scope, delivered, tried>>, conn' = Ended, lease' \in {"valid", "expired", "revoked"}
  PROVE  ViewInv'
<1>1. SeenGraph' = SeenGraph /\ InsideOnly(build)' = InsideOnly(build)
  BY DEF SeenGraph, InsideOnly, SeenRows, VisibleNodes
<1>2. ConnFine(build, Ended, delivered, tried)
  BY ConnShape, WaitsForLess
<1>3. ConnFine(build, conn, delivered, tried)'
  BY <1>2
<1>4. conn'.pc = "ended"
  BY ConnShape
<1> QED BY <1>1, <1>3, <1>4 DEF ViewInv

\* Admission freezes the view, or ends the connection.
LEMMA Admitting ==
  ASSUME ViewInv, Admit \/ AdmissionFails
  PROVE  ViewInv'
<1>1. /\ ConnFine(build, conn, delivered, tried) /\ conn.pc = "admitting" /\ UNCHANGED <<build, lease, delivered, tried>>
      /\ lease \in {"valid", "expired", "revoked"}
  BY DEF Admit, AdmissionFails, ViewInv
<1>2. CASE conn' = Ended /\ UNCHANGED scope
  BY <1>1, <1>2, Ends
<1>3. CASE /\ Admissible(build) /\ conn' = [conn EXCEPT !.pc = "serving"]
           /\ scope' = {[nodes |-> build.inside, rows |-> VisibleRows(build, build.inside)]}
  <2> DEFINE e == [conn EXCEPT !.pc = "serving"]
  <2>1. /\ DOMAIN e = DOMAIN conn /\ e.running = conn.running /\ e.sending = conn.sending
        /\ e.frames = conn.frames /\ e.calls = conn.calls
    BY ConnShape
  <2> HIDE DEF e
  <2>2. ConnFine(build, e, delivered, tried)
    BY <1>1, <2>1, WaitsForLess
  <2>3. ConnFine(build, conn, delivered, tried)'
    BY <1>1, <1>3, <2>2 DEF e
  <2>4. SeenRows = VisibleRows(build, build.inside) /\ build \in Builds
    BY ConnShape, ViewFacts
  <2>5. SeenGraph' = SeenGraph
    BY <1>1 DEF SeenGraph, SeenRows, VisibleNodes
  <2>6. scope' = {SeenGraph'}
    BY <1>3, <2>4, <2>5 DEF SeenGraph
  <2>7. InsideOnly(build')
    <3>1. \A r \in VisibleRows(build, build.inside) : r.evidence = "inside"
      BY <1>3 DEF Admissible
    <3>2. RowsSeen(build) = SeenRows
      BY DEF RowsSeen, SeenRows, VisibleNodes
    <3>3. build' = build
      BY <1>1
    <3> QED BY <2>4, <3>1, <3>2, <3>3 DEF InsideOnly
  <2>8. build' \in Builds /\ lease' \in {"valid", "expired", "revoked"}
    BY <1>1, <2>4
  <2>9. scope' # {}
    BY <2>6
  <2> QED BY <2>3, <2>6, <2>7, <2>8, <2>9 DEF ViewInv
<1> QED BY <1>2, <1>3 DEF Admit, AdmissionFails

\* The lease ends; the view stays what it is.
LEMMA LeaseEnds ==
  ASSUME ViewInv, Revoke \/ Expire
  PROVE  ViewInv'
<1>1. UNCHANGED <<build, scope, conn, delivered, tried>> /\ lease' \in {"valid", "expired", "revoked"}
  BY DEF Revoke, Expire
<1>2. SeenGraph' = SeenGraph /\ InsideOnly(build)' = InsideOnly(build)
  BY <1>1 DEF SeenGraph, InsideOnly, SeenRows, VisibleNodes
<1>3. ConnFine(build, conn, delivered, tried)' = ConnFine(build, conn, delivered, tried)
  BY <1>1
<1> QED BY <1>1, <1>2, <1>3 DEF ViewInv

\* Frames.
LEMMA FrameIs ==
  ASSUME ViewInv
  PROVE  /\ DOMAIN Frame = DOMAIN conn /\ Frame.running = conn.running /\ Frame.sending = conn.sending
         /\ Frame.frames = conn.frames + 1 /\ Frame.calls = conn.calls
BY ConnShape DEF Frame, FrameNumber

\* A frame that needs no task.
LEMMA SendsAtOnce ==
  ASSUME ViewInv, Requested, UNCHANGED <<build, lease, scope, delivered, tried>>,
         NEW f, f = Frame \/ f = [Frame EXCEPT !.initialized = TRUE],
         NEW body \in {"result", "error"}, conn' = Sends(f, FrameNumber, Plain(body))
  PROVE  ViewInv'
<1> DEFINE a == Plain(body)
           e == Sends(f, FrameNumber, a)
<1>1. conn.pc = "serving" /\ conn.sending = {}
  BY DEF Requested, Listening
<1>2. a.body # "data" /\ ~ Counts(a)
  BY DEF Plain, Counts
<1> HIDE DEF a
<1>3. /\ DOMAIN f = DOMAIN conn /\ f.running = conn.running
      /\ f.frames = conn.frames + 1 /\ f.calls = conn.calls
  BY ConnShape, FrameIs
<1>4. /\ DOMAIN e = DOMAIN conn /\ e.running = conn.running /\ e.sending = {Response(conn.frames + 1, a)}
      /\ e.frames = conn.frames + 1 /\ e.calls = conn.calls
  BY <1>3, ConnShape DEF Sends, FrameNumber
<1> HIDE DEF e
<1>5. ConnFine(build, e, delivered, tried)
  BY <1>1, <1>2, <1>4, ConnShape, AnswersAtOnce
<1>6. ConnFine(build, conn', delivered', tried')
  BY <1>5 DEF e, a
<1> QED BY <1>1, <1>6, ViewStays

\* What a frame asks for.
LEMMA Frames ==
  ASSUME ViewInv, InitializeScoped \/ AnswerAtOnce \/ (\E call \in ScopedCall : RequestCall(call))
  PROVE  ViewInv'
<1>1. CASE InitializeScoped
  <2> DEFINE body == IF conn.initialized THEN "error" ELSE "result"
             f == [Frame EXCEPT !.initialized = TRUE]
  <2>1. /\ Requested /\ UNCHANGED <<build, lease, scope, delivered, tried>> /\ body \in {"result", "error"}
        /\ conn' = Sends(f, FrameNumber, Plain(body))
    BY <1>1 DEF InitializeScoped
  <2> HIDE DEF body
  <2> QED BY <2>1, SendsAtOnce
<1>2. CASE AnswerAtOnce
  <2>1. PICK body \in {"result", "error"} : conn' = Sends(Frame, FrameNumber, Plain(body))
    BY <1>2 DEF AnswerAtOnce
  <2>2. Requested /\ UNCHANGED <<build, lease, scope, delivered, tried>>
    BY <1>2 DEF AnswerAtOnce
  <2> QED BY <2>1, <2>2, SendsAtOnce
<1>3. ASSUME NEW call \in ScopedCall, RequestCall(call) PROVE ViewInv'
  <2>1. Requested /\ UNCHANGED <<build, lease, scope, delivered, tried>>
    BY <1>3 DEF RequestCall
  <2>2. CASE conn.running = {} /\ conn' = [Frame EXCEPT !.running =
                 {[number |-> FrameNumber, call |-> call, stage |-> "spawned", answer |-> Plain("none")]}]
    <3> DEFINE r == [number |-> FrameNumber, call |-> call, stage |-> "spawned", answer |-> Plain("none")]
               e == [Frame EXCEPT !.running = {r}]
    <3>1. TaskFine(build, tried, r) /\ r.stage = "spawned" /\ r.number = conn.frames + 1
      <4>1. tried \subseteq 1 .. conn.frames /\ conn.frames \in Nat
        BY ConnShape DEF ConnFine
      <4>2. conn.frames + 1 \notin tried
        BY <4>1
      <4> QED BY <4>2 DEF TaskFine, FrameNumber, Owes
    <3> HIDE DEF r
    <3>2. /\ DOMAIN e = DOMAIN conn /\ e.running = {r} /\ e.sending = conn.sending
          /\ e.frames = conn.frames + 1 /\ e.calls = conn.calls
      BY ConnShape, FrameIs
    <3> HIDE DEF e
    <3>3. ConnFine(build, e, delivered, tried)
      BY <2>2, <3>1, <3>2, ConnShape, BeginsTask
    <3>4. ConnFine(build, conn', delivered', tried') /\ conn.pc = "serving"
      BY <2>1, <2>2, <3>3 DEF e, r, Requested, Listening
    <3> QED BY <2>1, <3>4, ViewStays
  <2>3. CASE conn' = Sends(Frame, FrameNumber, Plain("error"))
    BY <2>1, <2>3, SendsAtOnce
  <2> QED BY <1>3, <2>2, <2>3 DEF RequestCall
<1> QED BY <1>1, <1>2, <1>3

\* OwnerAnswers that disclose nothing.
LEMMA Plainly ==
  ASSUME NEW b, NEW body, body # "data"
  PROVE  Honest(b, Plain(body)) /\ ~ Counts(Plain(body))
BY DEF Honest, Counts, Plain

\* And those that say why.
LEMMA Blockedly ==
  ASSUME NEW b, NEW reason
  PROVE  /\ Honest(b, Blocked(reason)) /\ (reason # "denied" => ~ Counts(Blocked(reason)))
BY DEF Honest, Counts, Blocked

\* A call is cancelled, or its answer taken.
LEMMA SendsAnswer ==
  ASSUME ViewInv, Listening, UNCHANGED <<build, lease, scope, delivered, tried>>, NEW r \in conn.running, NEW a,
         Honest(build, a), Counts(a) => Owes(r), conn' = Sends([conn EXCEPT !.running = {}], r.number, a)
  PROVE  ViewInv'
<1> DEFINE e == Sends([conn EXCEPT !.running = {}], r.number, a)
<1>1. conn.pc = "serving" /\ conn.sending = {}
  BY DEF Listening
<1>2. /\ DOMAIN e = DOMAIN conn /\ e.running = {} /\ e.sending = {Response(r.number, a)}
      /\ e.frames = conn.frames /\ e.calls = conn.calls
  BY ConnShape DEF Sends
<1> HIDE DEF e
<1>3. ConnFine(build, e, delivered, tried)
  BY <1>1, <1>2, ConnShape, TaskIsAnswered
<1>4. ConnFine(build, conn', delivered', tried')
  BY <1>3 DEF e
<1> QED BY <1>1, <1>4, ViewStays

\* The call is answered, once.
LEMMA Answering ==
  ASSUME ViewInv, CancelCall \/ TakeAnswer
  PROVE  ViewInv'
<1>1. Listening /\ UNCHANGED <<build, lease, scope, delivered, tried>>
  BY DEF CancelCall, TakeAnswer
<1>2. CASE CancelCall
  <2>1. PICK r \in conn.running : conn' = Sends([conn EXCEPT !.running = {}], r.number, Plain("cancelled"))
    BY <1>2 DEF CancelCall
  <2>2. Honest(build, Plain("cancelled")) /\ ~ Counts(Plain("cancelled"))
    BY Plainly
  <2> QED BY <1>1, <2>1, <2>2, SendsAnswer
<1>3. CASE TakeAnswer
  <2>1. PICK r \in conn.running : r.stage = "ready" /\ conn' = Sends([conn EXCEPT !.running = {}], r.number, r.answer)
    BY <1>3 DEF TakeAnswer
  <2>2. Honest(build, r.answer)
    BY <2>1, ConnShape DEF ConnFine, TaskFine
  <2>3. Counts(r.answer) => Owes(r)
    BY <2>1 DEF Owes
  <2> QED BY <1>1, <2>1, <2>2, <2>3, SendsAnswer
<1> QED BY <1>2, <1>3

\* A task that becomes ready.
LEMMA ReadyIs ==
  ASSUME NEW b, NEW t, NEW r, TaskFine(b, t, r), NEW a, Honest(b, a), NEW v, Counts(a) => r.number \in v
  PROVE  LET u == [r EXCEPT !.stage = "ready", !.answer = a] IN
         Ready(r, a) = {u} /\ TaskFine(b, v, u) /\ u.number = r.number
BY DEF Ready, TaskFine, Owes

\* Its answer is ready.
LEMMA BecomesReady ==
  ASSUME ViewInv, conn.pc = "serving", UNCHANGED <<build, lease, scope, delivered, tried>>, NEW r \in conn.running, NEW a,
         Honest(build, a), Counts(a) => Owes(r), NEW e, DOMAIN e = DOMAIN conn, e.running = Ready(r, a),
         e.sending = conn.sending, e.frames = conn.frames, e.calls = conn.calls, conn' = e
  PROVE  ViewInv'
<1> DEFINE u == [r EXCEPT !.stage = "ready", !.answer = a]
<1>1. TaskFine(build, tried, r) /\ ConnFine(build, conn, delivered, tried)
  BY ConnShape DEF ConnFine
<1>2. Counts(a) => r.number \in tried
  BY <1>1 DEF TaskFine
<1>3. e.running = {u} /\ TaskFine(build, tried, u) /\ u.number = r.number
  BY <1>1, <1>2, ReadyIs
<1> HIDE DEF u
<1>4. ConnFine(build, e, delivered, tried)
  BY <1>1, <1>3, TaskGoesOn
<1>5. ConnFine(build, conn', delivered', tried')
  BY <1>4
<1> QED BY <1>5, ViewStays

\* A task begins, and is charged.
LEMMA Beginning ==
  ASSUME ViewInv, BeginCall
  PROVE  ViewInv'
<1>1. conn.pc = "serving" /\ UNCHANGED <<build, lease, scope, delivered>>
  BY DEF BeginCall
<1>2. PICK r \in conn.running :
        /\ r.stage = "spawned"
        /\ tried' = IF lease = "valid" /\ conn.calls < CallCap THEN tried \cup {r.number} ELSE tried
        /\ conn' =
             CASE lease # "valid" -> [conn EXCEPT !.running = Ready(r, Blocked(lease))]
               [] lease = "valid" /\ conn.calls >= CallCap ->
                    [conn EXCEPT !.running = Ready(r, Blocked("budget"))]
               [] OTHER -> [conn EXCEPT !.calls = @ + Charge(r), !.running =
                    IF r.call.granted THEN {[r EXCEPT !.stage = "working"]}
                                      ELSE Ready(r, Blocked("denied"))]
  BY DEF BeginCall
<1>3. conn.calls \in 0 .. CallCap /\ CallCap \in Nat /\ TaskFine(build, tried, r)
  BY ConnShape, ScopedAssumption DEF ConnFine
<1>4. ASSUME NEW reason, reason # "denied", UNCHANGED tried, conn' = [conn EXCEPT !.running = Ready(r, Blocked(reason))]
      PROVE  ViewInv'
  <2> DEFINE e == [conn EXCEPT !.running = Ready(r, Blocked(reason))]
  <2>1. /\ DOMAIN e = DOMAIN conn /\ e.running = Ready(r, Blocked(reason)) /\ e.sending = conn.sending
        /\ e.frames = conn.frames /\ e.calls = conn.calls
    BY ConnShape
  <2>2. Honest(build, Blocked(reason)) /\ ~ Counts(Blocked(reason))
    BY <1>4, Blockedly
  <2>3. conn' = e
    BY <1>4
  <2> HIDE DEF e
  <2> QED BY <1>1, <1>4, <2>1, <2>2, <2>3, BecomesReady
<1>5. CASE lease # "valid"
  <2>1. lease # "denied"
    BY DEF ViewInv
  <2> QED BY <1>2, <1>4, <1>5, <2>1
<1>6. CASE lease = "valid" /\ conn.calls >= CallCap
  <2>1. "budget" # "denied"
    OBVIOUS
  <2>2. ~ (conn.calls < CallCap)
    BY <1>3, <1>6
  <2> QED BY <1>2, <1>4, <1>6, <2>1, <2>2
<1>7. CASE lease = "valid" /\ ~ (conn.calls >= CallCap)
  <2> DEFINE w == [r EXCEPT !.stage = "working"]
             v == tried \cup {r.number}
             e == [conn EXCEPT !.calls = @ + Charge(r), !.running =
                     IF r.call.granted THEN {w} ELSE Ready(r, Blocked("denied"))]
  <2>1. /\ DOMAIN e = DOMAIN conn /\ e.sending = conn.sending
        /\ e.running = IF r.call.granted THEN {w} ELSE Ready(r, Blocked("denied"))
        /\ e.frames = conn.frames /\ e.calls = conn.calls + 1
    BY ConnShape DEF Charge
  <2>2. conn.calls < CallCap
    BY <1>3, <1>7
  <2>3. conn' = e /\ tried' = v
    BY <1>2, <1>7, <2>2
  <2>4. TaskFine(build, v, w) /\ w.number = r.number
    BY <1>2, <1>3 DEF TaskFine, Owes
  <2>5. r.number \in v
    OBVIOUS
  <2>6. \E u : e.running = {u} /\ TaskFine(build, v, u) /\ u.number = r.number
    <3> HIDE DEF e, w, v
    <3>1. CASE r.call.granted
      BY <2>1, <2>4, <3>1
    <3>2. CASE ~ r.call.granted
      <4>1. Honest(build, Blocked("denied"))
        BY Blockedly
      <4>2. e.running = Ready(r, Blocked("denied"))
        BY <2>1, <3>2
      <4> DEFINE u == [r EXCEPT !.stage = "ready", !.answer = Blocked("denied")]
      <4>3. Ready(r, Blocked("denied")) = {u} /\ TaskFine(build, v, u) /\ u.number = r.number
        BY <1>3, <2>5, <4>1, ReadyIs
      <4> QED BY <4>2, <4>3
    <3> QED BY <3>1, <3>2
  <2> HIDE DEF e, w
  <2>7. PICK u : e.running = {u} /\ TaskFine(build, v, u) /\ u.number = r.number
    BY <2>6
  <2>8. ConnFine(build, e, delivered, v)
    <3> HIDE DEF v
    <3>1. v = tried \cup {r.number}
      BY DEF v
    <3> QED BY <1>2, <2>1, <2>2, <2>7, <3>1, ConnShape, TaskIsTried
  <2>9. ConnFine(build, conn', delivered', tried')
    <3> HIDE DEF v
    <3> QED BY <1>1, <2>3, <2>8
  <2> QED BY <1>1, <2>9, ViewStays
<1> QED BY <1>5, <1>6, <1>7

\* A task has its answer, or fails.
LEMMA Completing ==
  ASSUME ViewInv, CompleteCall \/ CallFails
  PROVE  ViewInv'
<1>1. conn.pc = "serving" /\ UNCHANGED <<build, lease, scope, delivered, tried>>
  BY DEF CompleteCall, CallFails
<1>2. ASSUME NEW r \in conn.running, NEW a, Honest(build, a), Counts(a) => Owes(r),
             conn' = [conn EXCEPT !.running = Ready(r, a)]
      PROVE  ViewInv'
  <2> DEFINE e == [conn EXCEPT !.running = Ready(r, a)]
  <2>1. /\ DOMAIN e = DOMAIN conn /\ e.running = Ready(r, a) /\ e.sending = conn.sending
        /\ e.frames = conn.frames /\ e.calls = conn.calls
    BY ConnShape
  <2>2. conn' = e
    BY <1>2
  <2> HIDE DEF e
  <2> QED BY <1>1, <1>2, <2>1, <2>2, BecomesReady
<1>3. CASE CompleteCall
  <2>1. PICK r \in conn.running :
          /\ r.stage = "working"
          /\ conn' = [conn EXCEPT !.running =
               Ready(r, IF lease = "valid" THEN AnswerOf(Frozen, r.call) ELSE Blocked(lease))]
    BY <1>3 DEF CompleteCall
  <2> DEFINE a == IF lease = "valid" THEN AnswerOf(Frozen, r.call) ELSE Blocked(lease)
  <2>2. Owes(r) /\ r.call \in ScopedCall /\ build \in Builds
    BY <2>1, ConnShape DEF Owes, ConnFine, TaskFine
  <2>3. Honest(build, a)
    <3>1. CASE lease = "valid"
      <4>1. scope = {SeenGraph} /\ InsideOnly(build)
        BY <1>1 DEF ViewInv
      <4>2. Frozen = SeenGraph
        BY <4>1 DEF Frozen
      <4> DEFINE x == AnswerOf(SeenGraph, r.call)
      <4>3. TurnsDown(x) \/ (x.body = "data" /\ Discloses(x))
        BY <2>2, AnswersDisclose
      <4> HIDE DEF x
      <4>4. Honest(build, x)
        BY <4>1, <4>3, DisclosesIs DEF Honest, TurnsDown
      <4> QED BY <3>1, <4>2, <4>4 DEF x
    <3>2. CASE lease # "valid"
      BY <3>2, Blockedly
    <3> QED BY <3>1, <3>2
  <2>4. conn' = [conn EXCEPT !.running = Ready(r, a)]
    BY <2>1
  <2> HIDE DEF a
  <2> QED BY <1>2, <2>2, <2>3, <2>4
<1>4. CASE CallFails
  <2>1. PICK r \in conn.running : \E reason \in IF r.stage = "spawned" THEN {"deadline"} ELSE {"deadline", "arguments", "budget"} :
          conn' = [conn EXCEPT !.running = Ready(r, Blocked(reason))]
    BY <1>4 DEF CallFails
  <2>2. PICK reason : reason # "denied" /\ conn' = [conn EXCEPT !.running = Ready(r, Blocked(reason))]
    BY <2>1
  <2>3. Honest(build, Blocked(reason)) /\ ~ Counts(Blocked(reason))
    BY <2>2, Blockedly
  <2> QED BY <1>2, <2>2, <2>3
<1> QED BY <1>3, <1>4

\* A write looks at the lease, waits, and goes out.
LEMMA Writing ==
  ASSUME ViewInv, PollWrite \/ WriteStalls \/ WriteResponse
  PROVE  ViewInv'
<1>1. conn.pc = "serving" /\ UNCHANGED <<build, lease, scope, tried>> /\ ConnFine(build, conn, delivered, tried)
  BY ConnShape DEF PollWrite, WriteStalls, WriteResponse
<1>2. ASSUME NEW x \in conn.sending, NEW y, SendingFine(build, tried, y), y.number = x.number,
             conn' = [conn EXCEPT !.sending = {y}], UNCHANGED delivered
      PROVE  ViewInv'
  <2> DEFINE e == [conn EXCEPT !.sending = {y}]
  <2>1. /\ DOMAIN e = DOMAIN conn /\ e.running = conn.running /\ e.sending = {y}
        /\ e.frames = conn.frames /\ e.calls = conn.calls
    BY ConnShape
  <2>2. conn' = e
    BY <1>2
  <2> HIDE DEF e
  <2>3. ConnFine(build, e, delivered, tried)
    BY <1>1, <1>2, <2>1, ResponseGoesOn
  <2>4. ConnFine(build, conn', delivered', tried')
    BY <1>1, <1>2, <2>2, <2>3
  <2> QED BY <1>1, <2>4, ViewStays
<1>3. CASE PollWrite
  <2>1. PICK x \in conn.sending : \E answer \in {x.answer, Blocked("budget")} :
          conn' = [conn EXCEPT !.sending = {[x EXCEPT !.answer = answer, !.seen = lease]}]
    BY <1>3 DEF PollWrite
  <2>2. PICK answer \in {x.answer, Blocked("budget")} :
          conn' = [conn EXCEPT !.sending = {[x EXCEPT !.answer = answer, !.seen = lease]}]
    BY <2>1
  <2> DEFINE y == [x EXCEPT !.answer = answer, !.seen = lease]
  <2>3. lease = "valid" /\ UNCHANGED delivered
    BY <1>3 DEF PollWrite
  <2>4. SendingFine(build, tried, x)
    BY <1>1 DEF ConnFine
  <2>5. DOMAIN y = {"number", "answer", "seen"} /\ y.number = x.number /\ y.answer = answer /\ y.seen = "valid"
    BY <2>3, <2>4 DEF SendingFine
  <2>6. Honest(build, Blocked("budget")) /\ ~ Counts(Blocked("budget"))
    BY Blockedly
  <2>7. conn' = [conn EXCEPT !.sending = {y}]
    BY <2>2
  <2> HIDE DEF y
  <2>8. SendingFine(build, tried, y)
    BY <2>4, <2>5, <2>6 DEF SendingFine, ViewedFine
  <2> QED BY <1>2, <2>3, <2>5, <2>7, <2>8
<1>4. CASE WriteStalls
  <2>1. PICK x \in conn.sending : conn' = [conn EXCEPT !.sending = {[x EXCEPT !.seen = "waiting"]}]
    BY <1>4 DEF WriteStalls
  <2> DEFINE y == [x EXCEPT !.seen = "waiting"]
  <2>2. UNCHANGED delivered
    BY <1>4 DEF WriteStalls
  <2>3. SendingFine(build, tried, x)
    BY <1>1 DEF ConnFine
  <2>4. SendingFine(build, tried, y) /\ y.number = x.number
    BY <2>3 DEF SendingFine, ViewedFine
  <2>5. conn' = [conn EXCEPT !.sending = {y}]
    BY <2>1
  <2> HIDE DEF y
  <2> QED BY <1>2, <2>2, <2>4, <2>5
<1>5. CASE WriteResponse
  <2>1. PICK x \in conn.sending :
          /\ x.seen \notin {"new", "waiting"}
          /\ delivered' = Append(delivered, [number |-> x.number, answer |-> x.answer,
                                             seen |-> x.seen, lease |-> lease])
    BY <1>5 DEF WriteResponse
  <2> DEFINE y == [number |-> x.number, answer |-> x.answer, seen |-> x.seen, lease |-> lease]
             e == [conn EXCEPT !.sending = {}]
  <2>2. conn' = e /\ delivered' = Append(delivered, y)
    BY <1>5, <2>1 DEF WriteResponse
  <2>3. y.number = x.number /\ y.answer = x.answer /\ y.seen = x.seen
    OBVIOUS
  <2>4. x.seen = "valid"
    BY <1>1, <2>1 DEF ConnFine, SendingFine
  <2>5. /\ DOMAIN e = DOMAIN conn /\ e.running = conn.running /\ e.sending = {}
        /\ e.frames = conn.frames /\ e.calls = conn.calls
    BY ConnShape
  <2> HIDE DEF e, y
  <2>6. ConnFine(build, e, Append(delivered, y), tried)
    BY <1>1, <2>3, <2>4, <2>5, ResponseIsDelivered
  <2>7. ConnFine(build, conn', delivered', tried')
    BY <1>1, <2>2, <2>6
  <2> QED BY <1>1, <2>7, ViewStays
<1> QED BY <1>3, <1>4, <1>5

\* Every step of a connection.
LEMMA ScopedSteps == ViewInv /\ [ScopedNext]_scopedVars => ViewInv'
<1> SUFFICES ASSUME ViewInv, [ScopedNext]_scopedVars PROVE ViewInv'
  OBVIOUS
<1>1. CASE Admit \/ AdmissionFails
  BY <1>1, Admitting
<1>2. CASE Revoke \/ Expire
  BY <1>2, LeaseEnds
<1>3. CASE InitializeScoped \/ AnswerAtOnce \/ (\E call \in ScopedCall : RequestCall(call))
  BY <1>3, Frames
<1>4. CASE CancelCall \/ TakeAnswer
  BY <1>4, Answering
<1>5. CASE BeginCall
  BY <1>5, Beginning
<1>6. CASE CompleteCall \/ CallFails
  BY <1>6, Completing
<1>7. CASE PollWrite \/ WriteStalls \/ WriteResponse
  BY <1>7, Writing
<1>8. CASE EndConnection
  <2>1. UNCHANGED <<build, scope, delivered, tried>> /\ conn' = Ended /\ lease' \in {"valid", "expired", "revoked"}
    BY <1>8 DEF EndConnection
  <2> QED BY <2>1, Ends
<1>9. CASE UNCHANGED scopedVars
  <2>1. UNCHANGED <<build, lease, scope, conn, delivered, tried>>
    BY <1>9 DEF scopedVars
  <2>2. SeenGraph' = SeenGraph /\ InsideOnly(build)' = InsideOnly(build)
    BY <2>1 DEF SeenGraph, InsideOnly, SeenRows, VisibleNodes
  <2>3. ConnFine(build, conn, delivered, tried)' = ConnFine(build, conn, delivered, tried)
    BY <2>1
  <2> QED BY <2>1, <2>2, <2>3 DEF ViewInv
<1> QED BY <1>1, <1>2, <1>3, <1>4, <1>5, <1>6, <1>7, <1>8, <1>9 DEF ScopedNext

\* When the lease has ended, nothing follows the response that got out last.
LateInv ==
  \A i \in DOMAIN delivered : delivered[i].lease # "valid" =>
    i = Len(delivered) /\ lease # "valid" /\ conn.sending = {}

\* Nothing is written at first.
LEMMA LateBegins == ScopedInit => LateInv
BY DEF ScopedInit, LateInv

\* What leaves the responses alone, and adds none when the lease has ended.
LEMMA LateStays ==
  ASSUME LateInv, UNCHANGED delivered, lease # "valid" => lease' # "valid",
         lease = "valid" \/ conn.sending # {} \/ conn'.sending = {}
  PROVE  LateInv'
BY DEF LateInv

\* A response is written, and is the last one if the lease has ended.
LEMMA LateWrites ==
  ASSUME ViewInv, LateInv, WriteResponse
  PROVE  LateInv'
<1>1. PICK x \in conn.sending :
        delivered' = Append(delivered, [number |-> x.number, answer |-> x.answer, seen |-> x.seen, lease |-> lease])
  BY DEF WriteResponse
<1> DEFINE y == [number |-> x.number, answer |-> x.answer, seen |-> x.seen, lease |-> lease]
           n == Len(delivered)
           f == Append(delivered, y)
<1>2. y.lease = lease /\ delivered' = f
  BY <1>1
<1>3. conn'.sending = {} /\ lease' = lease
  BY ConnShape DEF WriteResponse
<1> HIDE DEF y
<1>4. /\ n \in Nat /\ DOMAIN delivered = 1 .. n /\ DOMAIN f = 1 .. n + 1 /\ f[n + 1] = y /\ Len(f) = n + 1
      /\ \A i \in 1 .. n : f[i] = delivered[i]
  BY ConnShape, OneMore DEF ConnFine
<1> HIDE DEF f, n
<1>5. \A i \in 1 .. n : f[i].lease = "valid"
  BY <1>1, <1>4 DEF LateInv
<1>6. \A i \in DOMAIN f : f[i].lease # "valid" => i = Len(f) /\ lease # "valid"
  BY <1>2, <1>4, <1>5
<1> QED BY <1>2, <1>3, <1>6 DEF LateInv

\* Every step of a connection.
LEMMA LateSteps == ViewInv /\ LateInv /\ [ScopedNext]_scopedVars => LateInv'
<1> SUFFICES ASSUME ViewInv, LateInv, [ScopedNext]_scopedVars PROVE LateInv'
  OBVIOUS
<1>1. CASE Admit \/ AdmissionFails \/ EndConnection
  <2>1. conn'.sending = {} \/ conn'.sending = conn.sending
    BY <1>1, ConnShape DEF Admit, AdmissionFails, EndConnection
  <2>2. UNCHANGED delivered /\ (lease' = lease \/ lease' = "revoked")
    BY <1>1 DEF Admit, AdmissionFails, EndConnection
  <2> QED BY <2>1, <2>2, LateStays
<1>2. CASE Revoke \/ Expire
  BY <1>2, LateStays DEF Revoke, Expire
<1>3. CASE InitializeScoped \/ AnswerAtOnce \/ (\E call \in ScopedCall : RequestCall(call)) \/ CancelCall \/ TakeAnswer
  <2>1. lease = "valid" /\ UNCHANGED <<delivered, lease>>
    BY <1>3 DEF InitializeScoped, AnswerAtOnce, RequestCall, CancelCall, TakeAnswer, Requested, Listening
  <2> QED BY <2>1, LateStays
<1>4. CASE BeginCall \/ CompleteCall \/ CallFails
  <2>1. UNCHANGED <<delivered, lease>>
    BY <1>4 DEF BeginCall, CompleteCall, CallFails
  <2>2. conn'.sending = conn.sending
    <3>1. CASE BeginCall
      <4>1. PICK r \in conn.running : conn' =
              CASE lease # "valid" -> [conn EXCEPT !.running = Ready(r, Blocked(lease))]
                [] lease = "valid" /\ conn.calls >= CallCap ->
                     [conn EXCEPT !.running = Ready(r, Blocked("budget"))]
                [] OTHER -> [conn EXCEPT !.calls = @ + Charge(r), !.running =
                     IF r.call.granted THEN {[r EXCEPT !.stage = "working"]}
                                       ELSE Ready(r, Blocked("denied"))]
        BY <3>1 DEF BeginCall
      <4>2. CASE lease # "valid"
        BY <4>1, <4>2, ConnShape
      <4>3. CASE lease = "valid" /\ conn.calls >= CallCap
        BY <4>1, <4>3, ConnShape
      <4>4. CASE lease = "valid" /\ ~ (conn.calls >= CallCap)
        BY <4>1, <4>4, ConnShape
      <4> QED BY <4>2, <4>3, <4>4
    <3>2. CASE CompleteCall \/ CallFails
      <4>1. \E x : conn' = [conn EXCEPT !.running = x]
        BY <3>2 DEF CompleteCall, CallFails
      <4> QED BY <4>1, ConnShape
    <3> QED BY <1>4, <3>1, <3>2
  <2> QED BY <2>1, <2>2, LateStays
<1>5. CASE PollWrite \/ WriteStalls
  <2>1. UNCHANGED <<delivered, lease>> /\ conn.sending # {}
    BY <1>5 DEF PollWrite, WriteStalls
  <2> QED BY <2>1, LateStays
<1>6. CASE WriteResponse
  BY <1>6, LateWrites
<1>7. CASE UNCHANGED scopedVars
  BY <1>7 DEF scopedVars, LateInv
<1> QED BY <1>1, <1>2, <1>3, <1>4, <1>5, <1>6, <1>7 DEF ScopedNext

\* What the two are for.
LEMMA ViewInvShows == ViewInv /\ LateInv => AnswersStayInView
<1> SUFFICES ASSUME ViewInv, LateInv PROVE AnswersStayInView
  OBVIOUS
<1>1. ConnFine(build, conn, delivered, tried)
  BY ConnShape
<1>2. Cardinality(tried) <= CallCap
  <2>1. CallCap \in Nat
    BY ScopedAssumption
  <2> QED BY <1>1, <2>1 DEF ConnFine
<1>3. RowsSeen(build) = SeenRows
  BY DEF RowsSeen, SeenRows, VisibleNodes
<1>4. ASSUME NEW i \in DOMAIN delivered
      PROVE  /\ delivered[i].answer.body = "data" =>
                  Discloses(delivered[i].answer) /\ \A r \in SeenRows : r.evidence = "inside"
             /\ delivered[i].answer.body = "data" \/ delivered[i].answer.about = "denied" => delivered[i].number \in tried
             /\ delivered[i].seen = "valid"
             /\ delivered[i].lease # "valid" => i = Len(delivered)
  <2>1. DeliveredFine(build, tried, delivered[i])
    BY <1>1 DEF ConnFine
  <2>2. Honest(build, delivered[i].answer) /\ (Counts(delivered[i].answer) => delivered[i].number \in tried)
        /\ delivered[i].seen = "valid"
    BY <2>1 DEF DeliveredFine, ViewedFine
  <2>3. delivered[i].lease # "valid" => i = Len(delivered)
    BY DEF LateInv
  <2> QED BY <1>3, <2>2, <2>3, DisclosesIs DEF Honest, InsideOnly, Counts
<1>5. /\ \A i, j \in DOMAIN delivered : delivered[i].number = delivered[j].number => i = j
      /\ \A r \in conn.running \cup conn.sending : \A i \in DOMAIN delivered : delivered[i].number # r.number
  BY <1>1 DEF ConnFine
<1> QED BY <1>2, <1>4, <1>5 DEF AnswersStayInView

\* Nothing outside the view is ever written, no call goes beyond the budget, and
\* nothing follows the end of the lease but the response it found on its way out
\* (ScopedReader, serve, write).
THEOREM DisclosureStaysInView == ScopedSpec => []AnswersStayInView
<1>1. ScopedInit => ViewInv /\ LateInv
  BY ScopedBegins, LateBegins
<1>2. ViewInv /\ LateInv /\ [ScopedNext]_scopedVars => (ViewInv /\ LateInv)'
  BY ScopedSteps, LateSteps
<1>3. ViewInv /\ LateInv => AnswersStayInView
  BY ViewInvShows
<1> QED BY <1>1, <1>2, <1>3, PTL DEF ScopedSpec

-----------------------------------------------------------------------------
(* Path searches.                                                          *)

\* A page has the first rows there are: all of them, or all up to its last.
PageIsPrefix(s, S, limit) ==
  /\ s \in Seq(S) /\ Len(s) <= limit
  /\ Len(s) # limit => \A r \in S : \E i \in 1 .. Len(s) : s[i] = r
  /\ Len(s) = limit => /\ Last(s) \in S
                       /\ \A r \in S : r.id <= Last(s).id => \E i \in 1 .. Len(s) : s[i] = r

\* FirstRows returns such a page.
LEMMA FirstRowsAreFirst ==
  ASSUME NEW S, NumberedRows(S), NEW limit \in Nat \ {0}
  PROVE  PageIsPrefix(FirstRows(S, limit), S, limit)
<1> DEFINE o == InOrder(S)
           n == Len(o)
           m == IF n < limit THEN n ELSE limit
           s == SubSeq(o, 1, m)
<1>0. IsInOrder(o, S)
  BY InOrderIsInOrder
<1>1. /\ o \in Seq(S) /\ n \in Nat /\ \A i \in 1 .. n : o[i] \in S
      /\ \A x \in S : \E i \in 1 .. n : o[i] = x
      /\ \A i, j \in 1 .. n : i < j <=> o[i].id < o[j].id
  <2> HIDE DEF o
  <2> QED BY <1>0 DEF IsInOrder
<1>2. FirstRows(S, limit) = s
  BY DEF FirstRows
<1> HIDE DEF o, n
<1>3. m \in Nat /\ m <= n /\ m <= limit
  BY <1>1
<1>4. \A i \in 1 .. m : o[i] \in S
  BY <1>1, <1>3
<1>5. s \in Seq(S) /\ Len(s) = m /\ \A i \in 1 .. m : s[i] = o[i]
  BY <1>1, <1>3, <1>4, SubSeqProperties DEF n
<1>6. m # limit => m = n
  BY <1>1
<1> HIDE DEF m, s
<1>7. m # limit => \A r \in S : \E i \in 1 .. m : s[i] = r
  BY <1>1, <1>5, <1>6
<1>8. ASSUME m = limit
      PROVE  Last(s) \in S /\ \A r \in S : r.id <= Last(s).id => \E i \in 1 .. m : s[i] = r
  <2>1. m \in 1 .. n /\ m \in 1 .. m /\ m >= 1
    BY <1>3, <1>8
  <2>2. Last(s) = o[m]
    BY <1>5, <2>1 DEF Last
  <2>3. Last(s) \in S
    BY <1>1, <2>1, <2>2
  <2>4. ASSUME NEW r \in S, r.id <= Last(s).id PROVE \E i \in 1 .. m : s[i] = r
    <3>1. PICK i \in 1 .. n : o[i] = r
      BY <1>1
    <3>2. r.id \in Nat /\ Last(s).id \in Nat
      BY <2>3 DEF NumberedRows
    <3>3. ~ (o[m].id < o[i].id)
      BY <2>2, <2>4, <3>1, <3>2
    <3>4. ~ (m < i)
      BY <1>1, <2>1, <3>1, <3>3
    <3>5. i \in 1 .. m
      BY <1>3, <3>1, <3>4
    <3> QED BY <1>5, <3>1, <3>5
  <2> QED BY <2>3, <2>4
<1> QED BY <1>2, <1>3, <1>5, <1>7, <1>8 DEF PageIsPrefix

\* A search that meets a new neighbour of what it expands.
LEMMA LookingGrows ==
  ASSUME NEW s, NEW t, NEW rows, NEW from, NEW to, NEW hops \in Nat, NEW v, NEW d \in Nat,
         d < hops, NEW n \in Nat, Looking(s, rows, from, to, hops, {<<v, d>>}, n),
         NEW u, u \notin s.seen, u \in Beside(rows, v),
         t.seen = s.seen \cup {u}, t.parents = s.parents \cup {<<u, v>>},
         t.queue = Append(s.queue, <<u, d + 1>>)
  PROVE  /\ u # to => Looking(t, rows, from, to, hops, {<<v, d>>}, n)
         /\ u = to => Found(t, rows, from, to, hops)
<1> DEFINE S == {from}
<1>1. /\ Tree(rows, S, s.seen, s.parents) /\ Frontier(rows, S, s.seen, s.queue, {<<v, d>>}, hops)
      /\ to \notin s.seen /\ IsFiniteSet(s.seen) /\ Cardinality(s.seen) = n + Len(s.queue)
  BY DEF Looking
<1> HIDE DEF S
<1>2. d <= hops
  OBVIOUS
<1>3. Within(rows, S, d) \subseteq s.seen /\ v \in s.seen /\ AtDist(rows, S, v, d)
  BY <1>1, <1>2, OpenIsNearest
<1> DEFINE seen == s.seen
           parents == s.parents
           queue == s.queue
<1> HIDE DEF seen, parents, queue
<1>a. /\ Tree(rows, S, seen, parents) /\ Frontier(rows, S, seen, queue, {<<v, d>>}, hops)
      /\ Within(rows, S, d) \subseteq seen /\ v \in seen /\ u \notin seen /\ IsFiniteSet(seen)
  BY <1>1, <1>3 DEF seen, parents, queue
<1>b. /\ t.seen = seen \cup {u} /\ t.parents = parents \cup {<<u, v>>}
      /\ t.queue = Append(queue, <<u, d + 1>>)
  BY DEF seen, parents, queue
<1>c. Tree(rows, S, seen \cup {u}, parents \cup {<<u, v>>}) /\ AtDist(rows, S, u, d + 1)
  BY <1>3, <1>a, TreeGrows
<1>d. Frontier(rows, S, seen \cup {u}, Append(queue, <<u, d + 1>>), {<<v, d>>}, hops)
  BY <1>a, <1>c, FrontierGrows
<1>e. IsFiniteSet(seen \cup {u}) /\ Cardinality(seen \cup {u}) = Cardinality(seen) + 1
  BY <1>a, FS_AddElement
<1>4. Tree(rows, S, t.seen, t.parents) /\ AtDist(rows, S, u, d + 1)
  BY <1>b, <1>c
<1>5. Frontier(rows, S, t.seen, t.queue, {<<v, d>>}, hops)
  BY <1>b, <1>d
<1>6. IsFiniteSet(t.seen) /\ Cardinality(t.seen) = Cardinality(s.seen) + 1
  BY <1>b, <1>e DEF seen
<1>7. Len(t.queue) = Len(s.queue) + 1 /\ Len(s.queue) \in Nat
  <2> DEFINE x == <<u, d + 1>>
             A == seen \X Nat
  <2>1. queue \in Seq(A) /\ t.queue = Append(queue, x)
    BY <1>a, <1>b DEF Frontier
  <2> HIDE DEF x, A
  <2>2. Len(Append(queue, x)) = Len(queue) + 1 /\ Len(queue) \in Nat
    BY <2>1
  <2> QED BY <2>1, <2>2 DEF queue
<1>8. Cardinality(t.seen) = n + Len(t.queue)
  BY <1>1, <1>6, <1>7
<1>9. ASSUME u # to PROVE Looking(t, rows, from, to, hops, {<<v, d>>}, n)
  <2>1. to \notin t.seen
    BY <1>1, <1>9
  <2> QED BY <1>4, <1>5, <1>6, <1>8, <2>1 DEF Looking, S
<1>10. ASSUME u = to PROVE Found(t, rows, from, to, hops)
  <2>1. u = to /\ to \in t.seen
    BY <1>10
  <2>2. d + 1 <= hops /\ d + 1 \in Nat
    OBVIOUS
  <2> QED BY <1>4, <2>1, <2>2 DEF Found, S
<1> QED BY <1>9, <1>10

\* The states of a search while it reads a page, and where it stands.
VisitStates ==
  [queue : Seq(Vertex \X Nat), seen : SUBSET Vertex, parents : SUBSET (Vertex \X Vertex),
   verdict : {"open", "found", "exhausted"}]
Spots == [vertex : Vertex, depth : Nat, direction : Directions, after : Nat]

\* What visiting an entity does.
LEMMA VisitIs ==
  ASSUME NEW s \in VisitStates, NEW u \in Vertex, NEW at \in Spots
  PROVE  /\ Visit(s, u, at) \in VisitStates
         /\ s.verdict # "open" \/ u \in s.seen => Visit(s, u, at) = s
         /\ s.verdict = "open" /\ u \notin s.seen =>
              \/ Visit(s, u, at).verdict = "exhausted"
              \/ /\ Visit(s, u, at).seen = s.seen \cup {u}
                 /\ Visit(s, u, at).parents = s.parents \cup {<<u, at.vertex>>}
                 /\ Visit(s, u, at).queue = Append(s.queue, <<u, at.depth + 1>>)
                 /\ Visit(s, u, at).verdict = (IF u = Asked.to THEN "found" ELSE "open")
<1> DEFINE t == Visit(s, u, at)
           b == [s EXCEPT !.verdict = "exhausted"]
           q == Append(s.queue, <<u, at.depth + 1>>)
           w == IF u = Asked.to THEN "found" ELSE "open"
           seen == s.seen \cup {u}
           parents == s.parents \cup {<<u, at.vertex>>}
           e == [s EXCEPT !.seen = seen, !.parents = parents, !.queue = q, !.verdict = w]
<1>0. at.vertex \in Vertex /\ at.depth \in Nat
  BY DEF Spots
<1>1. /\ s.queue \in Seq(Vertex \X Nat) /\ s.seen \in SUBSET Vertex /\ s.parents \in SUBSET (Vertex \X Vertex)
      /\ s.verdict \in {"open", "found", "exhausted"}
      /\ s = [queue |-> s.queue, seen |-> s.seen, parents |-> s.parents, verdict |-> s.verdict]
  BY DEF VisitStates
<1>2. b = [queue |-> s.queue, seen |-> s.seen, parents |-> s.parents, verdict |-> "exhausted"]
  BY <1>1
<1>4. q \in Seq(Vertex \X Nat)
  <2> DEFINE A == Vertex \X Nat
             x == <<u, at.depth + 1>>
  <2>1. x \in A /\ s.queue \in Seq(A)
    BY <1>0, <1>1
  <2> HIDE DEF A, x
  <2>2. Append(s.queue, x) \in Seq(A)
    BY <2>1
  <2> QED BY <2>2 DEF A, x
<1>5. b \in VisitStates /\ b.verdict = "exhausted"
  BY <1>1, <1>2 DEF VisitStates
<1>6. /\ e \in VisitStates /\ e.seen = seen /\ e.parents = parents
      /\ e.queue = q /\ e.verdict = w
  <2>1. parents \in SUBSET (Vertex \X Vertex) /\ seen \in SUBSET Vertex /\ w \in {"found", "open", "exhausted"}
    BY <1>0, <1>1
  <2> HIDE DEF q, w, seen, parents
  <2> QED BY <1>4, <2>1 DEF VisitStates
<1>7. t = IF s.verdict # "open" \/ u \in s.seen THEN s
          ELSE IF Cardinality(s.seen) >= MaxVisits THEN b ELSE e
  BY DEF Visit
<1> HIDE DEF t, b, e
<1>8. s \in VisitStates
  OBVIOUS
<1>9. t \in VisitStates
  BY <1>5, <1>6, <1>7, <1>8
<1>10. s.verdict # "open" \/ u \in s.seen => t = s
  BY <1>7
<1>11. s.verdict = "open" /\ u \notin s.seen => t = b \/ t = e
  BY <1>7
<1> QED BY <1>5, <1>6, <1>9, <1>10, <1>11 DEF t, q

\* One page: all its rows, one after the other.
VisitAll(s, at, page) == FoldLeft(LAMBDA t, r : Visit(t, Other(r, at.direction), at), s, page)
VisitOne(t, r, at) == Visit(t, Other(r, at.direction), at)
VisitSteps(T, at, page) == [x \in T \X (1 .. Len(page)) |-> VisitOne(x[1], page[x[2]], at)]

\* It is a chain of visits.
LEMMA Visiting ==
  ASSUME NEW start, NEW at, NEW R, NEW page \in Seq(R), NEW T, start \in T,
         \A t \in T, r \in R : VisitOne(t, r, at) \in T
  PROVE  \E h : /\ Chain(h, VisitSteps(T, at, page), start, Len(page), T)
                /\ VisitAll(start, at, page) = h[Len(page)]
<1> DEFINE m == Len(page)
           G == [x \in T \X (1 .. m) |-> VisitOne(x[1], page[x[2]], at)]
           Rec(f) == f = [s \in SUBSET DOMAIN page |->
                            IF s = {} THEN start ELSE VisitOne(f[s \ {Max(s)}], page[Max(s)], at)]
           f == CHOOSE f : Rec(f)
<1>1. m \in Nat /\ DOMAIN page = 1 .. m /\ \A i \in 1 .. m : page[i] \in R
  OBVIOUS
<1>2. VisitAll(start, at, page) = f[DOMAIN page]
  BY DEF VisitAll, VisitOne, FoldLeft, MapThenFoldSet
<1>3. G \in FoldSteps(T, m)
  BY <1>1 DEF FoldSteps
<1> HIDE DEF m
<1>4. \A t \in T, i \in 1 .. m : G[<<t, i>>] = VisitOne(t, page[i], at)
  OBVIOUS
<1> HIDE DEF G
<1>5. \E g : Rec(g)
  <2>0. PICK g : IsFold(g, G, start, m, T)
    BY <1>1, <1>3, FoldExists
  <2>1. g \in [SUBSET (1 .. m) -> T] /\ \A s \in SUBSET (1 .. m) : g[s] = Round(g, G, start, s)
    BY <2>0 DEF IsFold
  <2>2. ASSUME NEW s \in SUBSET (1 .. m), s # {}
        PROVE  G[<<g[s \ {Max(s)}], Max(s)>>] = VisitOne(g[s \ {Max(s)}], page[Max(s)], at)
    <3>1. Max(s) \in s
      BY <1>1, <2>2, GreatestIndex
    <3>2. g[s \ {Max(s)}] \in T /\ Max(s) \in 1 .. m
      BY <3>1, <2>1
    <3> QED BY <3>2, <1>4
  <2>3. \A s \in SUBSET (1 .. m) : g[s] = IF s = {} THEN start ELSE VisitOne(g[s \ {Max(s)}], page[Max(s)], at)
    BY <2>1, <2>2 DEF Round
  <2>4. g = [s \in SUBSET (1 .. m) |-> g[s]]
    BY <2>1
  <2> QED BY <1>1, <2>3, <2>4
<1>6. Rec(f)
  BY <1>5
<1> HIDE DEF f
<1>7. \A s \in SUBSET (1 .. m) : f[s] = IF s = {} THEN start ELSE VisitOne(f[s \ {Max(s)}], page[Max(s)], at)
  BY <1>1, <1>6
<1>8. ASSUME NEW s \in SUBSET (1 .. m), s # {}, f[s \ {Max(s)}] \in T
      PROVE  f[s] = G[<<f[s \ {Max(s)}], Max(s)>>]
  <2>1. Max(s) \in 1 .. m
    BY <1>1, <1>8, GreatestIndex
  <2> QED BY <1>4, <1>7, <1>8, <2>1
<1>9. f[{}] = start
  BY <1>7
<1>a. FoldFollows(f, G, start, m, T)
  BY <1>8, <1>9 DEF FoldFollows
<1>10. \E h : Chain(h, G, start, m, T) /\ h[m] = f[1 .. m]
  BY <1>1, <1>3, <1>a, FoldChain
<1>11. G = VisitSteps(T, at, page)
  BY DEF VisitSteps, G, m
<1> QED BY <1>1, <1>2, <1>10, <1>11 DEF m

\* What holds of a search while it reads a page: it goes on, and has seen what
\* the page names so far, or it found its way.
Visited(t, s, g, v, d, from, hops, n, page, direction, k) ==
  /\ t.verdict = "open" =>
       /\ Looking(t, g.rows, from, Asked.to, hops, {<<v, d>>}, n)
       /\ s.seen \subseteq t.seen /\ \A j \in 1 .. k : Other(page[j], direction) \in t.seen
  /\ t.verdict = "found" => Found(t, g.rows, from, Asked.to, hops)

\* One row of a page.
LEMMA VisitsOne ==
  ASSUME NEW s, NEW t \in VisitStates, NEW g, g.rows \subseteq RowType, NEW at \in Spots, NEW from, NEW hops \in Nat,
         at.depth < hops, NEW n \in Nat, NEW page, NEW k \in Nat \ {0},
         page[k] \in g.rows, Anchor(page[k], at.direction) = at.vertex,
         Visited(t, s, g, at.vertex, at.depth, from, hops, n, page, at.direction, k - 1)
  PROVE  /\ VisitOne(t, page[k], at) \in VisitStates
         /\ Visited(VisitOne(t, page[k], at), s, g, at.vertex, at.depth, from, hops, n, page, at.direction, k)
<1> DEFINE r == page[k]
           u == Other(r, at.direction)
           v == at.vertex
           d == at.depth
           t2 == Visit(t, u, at)
           G(x) == g.rows
<1>1. r \in RowType /\ u \in Vertex /\ v \in Vertex /\ d \in Nat /\ u \in {r.from, r.to} /\ v \in {r.from, r.to}
  BY DEF RowType, Other, Anchor, Spots
<1>2. VisitOne(t, page[k], at) = t2
  BY DEF VisitOne
<1>3. /\ t2 \in VisitStates
      /\ (t.verdict # "open" \/ u \in t.seen) => t2 = t
      /\ t.verdict = "open" /\ u \notin t.seen =>
              \/ t2.verdict = "exhausted"
              \/ /\ t2.seen = t.seen \cup {u}
                 /\ t2.parents = t.parents \cup {<<u, v>>}
                 /\ t2.queue = Append(t.queue, <<u, d + 1>>)
                 /\ t2.verdict = (IF u = Asked.to THEN "found" ELSE "open")
  <2>1. u \in Vertex
    BY <1>1
  <2> HIDE DEF u
  <2> QED BY <2>1, VisitIs
<1>4. \A j \in 1 .. k : j = k \/ j \in 1 .. k - 1
  OBVIOUS
<1>5. /\ t.verdict = "open" =>
           /\ Looking(t, g.rows, from, Asked.to, hops, {<<v, d>>}, n)
           /\ s.seen \subseteq t.seen /\ \A j \in 1 .. k - 1 : Other(page[j], at.direction) \in t.seen
      /\ t.verdict = "found" => Found(t, g.rows, from, Asked.to, hops)
  BY DEF Visited
<1>6. Other(page[k], at.direction) = u
  OBVIOUS
<1>7. r \in g.rows
  OBVIOUS
<1> HIDE DEF u, r, t2
<1>8. CASE t.verdict # "open"
  <2>1. t2 = t
    BY <1>3, <1>8
  <2> QED BY <1>2, <1>3, <1>5, <1>8, <2>1 DEF Visited
<1>9. CASE t.verdict = "open" /\ u \in t.seen
  <2>1. t2 = t
    BY <1>3, <1>9
  <2>2. \A j \in 1 .. k : Other(page[j], at.direction) \in t.seen
    BY <1>4, <1>5, <1>6, <1>9
  <2> QED BY <1>2, <1>3, <1>5, <1>9, <2>1, <2>2 DEF Visited
<1>10. CASE t.verdict = "open" /\ u \notin t.seen /\ t2.verdict = "exhausted"
  BY <1>2, <1>3, <1>10 DEF Visited
<1>11. CASE t.verdict = "open" /\ u \notin t.seen /\ t2.verdict # "exhausted"
  <2>1. /\ t2.seen = t.seen \cup {u} /\ t2.parents = t.parents \cup {<<u, v>>}
        /\ t2.queue = Append(t.queue, <<u, d + 1>>)
        /\ t2.verdict = (IF u = Asked.to THEN "found" ELSE "open")
    BY <1>3, <1>11
  <2>2. Looking(t, g.rows, from, Asked.to, hops, {<<v, d>>}, n)
    BY <1>5, <1>11
  <2>3. u \in Beside(g.rows, v)
    <3>1. v \in t.seen
      <4>1. Frontier(g.rows, {from}, t.seen, t.queue, {<<v, d>>}, hops) /\ d <= hops
        BY <1>1, <2>2 DEF Looking
      <4> QED BY <1>1, <4>1, OpenIsNearest
    <3>2. u # v
      BY <1>11, <3>1
    <3> QED BY <1>1, <1>7, <3>2, BesideRows
  <2>4. d < hops /\ d \in Nat
    BY <1>1
  <2> HIDE DEF v, d
  <2>5. /\ u # Asked.to => Looking(t2, g.rows, from, Asked.to, hops, {<<v, d>>}, n)
        /\ u = Asked.to => Found(t2, g.rows, from, Asked.to, hops)
    BY <1>11, <2>1, <2>2, <2>3, <2>4, LookingGrows
  <2>6. s.seen \subseteq t2.seen /\ \A j \in 1 .. k : Other(page[j], at.direction) \in t2.seen
    <3>1. s.seen \subseteq t.seen /\ \A j \in 1 .. k - 1 : Other(page[j], at.direction) \in t.seen
      BY <1>5, <1>11
    <3> QED BY <1>4, <1>6, <2>1, <3>1
  <2>7. Visited(t2, s, g, v, d, from, hops, n, page, at.direction, k)
    BY <2>1, <2>5, <2>6 DEF Visited
  <2> QED BY <1>2, <1>3, <2>7 DEF v, d
<1> QED BY <1>8, <1>9, <1>10, <1>11

\* A whole page.
LEMMA PageVisits ==
  ASSUME NEW s \in VisitStates, NEW g, g.rows \subseteq RowType, NEW at \in Spots, NEW from, NEW hops \in Nat,
         at.depth < hops, NEW n \in Nat, NEW R, R \subseteq g.rows, NEW page \in Seq(R),
         \A r \in R : Anchor(r, at.direction) = at.vertex,
         s.verdict = "open", Looking(s, g.rows, from, Asked.to, hops, {<<at.vertex, at.depth>>}, n)
  PROVE  /\ VisitAll(s, at, page) \in VisitStates
         /\ Visited(VisitAll(s, at, page), s, g, at.vertex, at.depth, from, hops, n, page, at.direction, Len(page))
<1> DEFINE T == VisitStates
           m == Len(page)
           G == VisitSteps(T, at, page)
           Good(i, t) == Visited(t, s, g, at.vertex, at.depth, from, hops, n, page, at.direction, i)
           I == {x \in (0 .. m) \X T : Good(x[1], x[2])}
<1>1. m \in Nat /\ \A i \in 1 .. m : page[i] \in R
  OBVIOUS
<1>2. \A t \in T, r \in R : VisitOne(t, r, at) \in T
  <2> SUFFICES ASSUME NEW t \in T, NEW r \in R PROVE VisitOne(t, r, at) \in T
    OBVIOUS
  <2>1. Other(r, at.direction) \in Vertex
    BY DEF RowType, Other
  <2>2. Visit(t, Other(r, at.direction), at) \in T
    BY <2>1, VisitIs
  <2> QED BY <2>2 DEF VisitOne
<1>3. s \in T
  OBVIOUS
<1>4. PICK h : Chain(h, G, s, m, T) /\ VisitAll(s, at, page) = h[m]
  <2> HIDE DEF T
  <2> QED BY <1>2, <1>3, Visiting
<1>5. \A t \in T, i \in 1 .. m : G[<<t, i>>] = VisitOne(t, page[i], at)
  <2> HIDE DEF T
  <2> QED BY DEF VisitSteps
<1> HIDE DEF G
<1>6. <<0, s>> \in I
  <2>1. Good(0, s)
    BY DEF Visited
  <2> HIDE DEF Good, T
  <2> QED BY <1>1, <1>3, <2>1
<1>7. ASSUME NEW k \in 1 .. m, NEW t \in T, <<k - 1, t>> \in I PROVE <<k, G[<<t, k>>]>> \in I
  <2>1. Good(k - 1, t)
    <3> HIDE DEF Good
    <3> QED BY <1>7
  <2>2. page[k] \in g.rows /\ Anchor(page[k], at.direction) = at.vertex /\ k \in Nat \ {0}
    BY <1>1
  <2>3. VisitOne(t, page[k], at) \in T /\ Good(k, VisitOne(t, page[k], at))
    BY <2>1, <2>2, VisitsOne
  <2> HIDE DEF Good, T
  <2> QED BY <1>5, <2>3
<1>8. h[m] \in T /\ <<m, h[m]>> \in I
  <2>1. \A k \in 0 .. m : h[k] \in T /\ <<k, h[k]>> \in I
    <3>1. Carries(I, G, m, T)
      <4> HIDE DEF I, T, m
      <4> QED BY <1>7 DEF Carries
    <3> HIDE DEF I, T, m
    <3> QED BY <1>1, <1>4, <1>6, <3>1, ChainHolds
  <2>2. m \in 0 .. m
    BY <1>1
  <2> HIDE DEF I, T, m
  <2> QED BY <2>1, <2>2
<1>9. Good(m, h[m])
  <2> HIDE DEF Good, T
  <2> QED BY <1>8
<1> QED BY <1>4, <1>8, <1>9

\* What a path search keeps.
SearchTyped(s) ==
  /\ DOMAIN s = {"queue", "seen", "parents", "at", "rows", "queries", "from", "found"}
  /\ s.queue \in Seq(Vertex \X Nat) /\ s.seen \subseteq Vertex /\ s.parents \subseteq Vertex \X Vertex
  /\ s.at = {} \/ \E at \in Spots : s.at = {at}
  /\ s.rows \in 0 .. MaxRows /\ s.queries \in Int /\ s.queries <= MaxQueries
  /\ s.from = {} \/ \E v \in Vertex : s.from = {v}

\* A search that is not under way.
LEMMA NoSearchTyped == SearchTyped(NoSearch)
<1>1. MaxRows \in Nat /\ MaxQueries \in Nat
  BY ReadingAssumption
<1>2. <<>> \in Seq(Vertex \X Nat)
  <2> DEFINE A == Vertex \X Nat
  <2> HIDE DEF A
  <2>1. <<>> \in Seq(A)
    OBVIOUS
  <2> QED BY <2>1 DEF A
<1> QED BY <1>1, <1>2 DEF NoSearch, SearchTyped

\* Reading a page of a search, in parts.
PathLimit == IF PageSize < read.search.rows + 1 THEN PageSize ELSE read.search.rows + 1
PathPage(at) == NeighborPage(PinnedGraph, at.vertex, at.direction, RelType, at.after, PathLimit)
PathStart == [seen |-> read.search.seen, parents |-> read.search.parents,
              queue |-> read.search.queue, verdict |-> "open"]
PathNext(at, page) ==
  IF Len(page) = PathLimit THEN {[at EXCEPT !.after = Last(page).id]}
  ELSE IF at.direction = "outgoing" THEN {[at EXCEPT !.direction = "incoming", !.after = 0]} ELSE {}
GoesOnWith(s, next, n) ==
  read' = [read EXCEPT !.search.seen = s.seen, !.search.parents = s.parents,
                       !.search.queue = s.queue, !.search.at = next,
                       !.search.rows = @ - n, !.search.queries = @ - 1]
ReadsPage(at, page, s) ==
  IF ~ Spend \/ Len(page) > read.search.rows \/ s.verdict = "exhausted" THEN Exhausts
  ELSE IF s.verdict = "found" THEN ReturnsPath(PathTo(Asked.to, s.parents))
  ELSE GoesOnWith(s, PathNext(at, page), Len(page))

\* It is read where the search stands.
LEMMA ReadPathPageIs ==
  ASSUME ReadPathPage
  PROVE  \E at \in read.search.at : ReadsPage(at, PathPage(at), VisitAll(PathStart, at, PathPage(at)))
BY DEF ReadPathPage, ReadsPage, PathPage, PathLimit, PathStart, PathNext, GoesOnWith, VisitAll

\* What is known of the graph a read is pinned to.
GraphFine(g) ==
  /\ NumberedRows(g.rows) /\ g.rows \subseteq RowType /\ g \in GraphType
  /\ \A r \in g.rows : r.from \in g.nodes /\ r.to \in g.nodes
  /\ IsFiniteSet(g.nodes) /\ IsFiniteSet(g.rows)
  /\ g.exact \subseteq g.similar /\ g.similar \subseteq g.nodes /\ g.nodes \subseteq Vertex

\* Every build is such a graph.
LEMMA BuildsAreFine ==
  ASSUME NEW c \in Contents, NEW b \in Build
  PROVE  GraphFine(c[b])
<1>1. c[b] \in GraphType /\ NumberedRows(c[b].rows) /\ c[b].rows \subseteq RowType
  BY PublishedRows
<1>2. /\ \A r \in c[b].rows : r.from \in c[b].nodes /\ r.to \in c[b].nodes
      /\ IsFiniteSet(c[b].nodes) /\ IsFiniteSet(c[b].rows)
      /\ c[b].exact \subseteq c[b].similar /\ c[b].similar \subseteq c[b].nodes
  BY ReadingAssumption
<1>3. c[b].nodes \subseteq Vertex
  BY <1>1 DEF GraphType
<1> QED BY <1>1, <1>2, <1>3 DEF GraphFine

\* And so is the one that is pinned.
LEMMA PinnedIsFine ==
  ASSUME Readable, read.build # {}
  PROVE  GraphFine(PinnedGraph)
<1>1. (CHOOSE b \in read.build : TRUE) \in Build /\ content \in Contents
  BY DEF Readable
<1> QED BY <1>1, BuildsAreFine DEF PinnedGraph

\* What pages of a search find: rows of one direction after a position.
LEMMA PathPageIs ==
  ASSUME NEW g, GraphFine(g), NEW at \in Spots, NEW limit \in Nat \ {0}
  PROVE  LET R == {r \in g.rows : Anchor(r, at.direction) = at.vertex /\ r.id > at.after}
         IN  PageIsPrefix(NeighborPage(g, at.vertex, at.direction, RelType, at.after, limit), R, limit)
<1> DEFINE R == {r \in g.rows : Anchor(r, at.direction) = at.vertex /\ r.id > at.after}
<1>1. {r \in Neighbors(g, at.vertex, at.direction, RelType) : r.id > at.after} = R
  BY DEF Neighbors, GraphFine, RowType
<1>2. NumberedRows(R)
  <2>1. R \subseteq g.rows /\ NumberedRows(g.rows)
    BY DEF GraphFine
  <2> HIDE DEF R
  <2> QED BY <2>1, FewerAreNumbered
<1> HIDE DEF R
<1>3. NeighborPage(g, at.vertex, at.direction, RelType, at.after, limit) = FirstRows(R, limit)
  BY <1>1 DEF NeighborPage
<1>4. PageIsPrefix(FirstRows(R, limit), R, limit)
  BY <1>2, FirstRowsAreFirst
<1> QED BY <1>3, <1>4 DEF R

\* The step of a page, typed.
LEMMA PageTyped ==
  ASSUME Readable, SearchTyped(read.search), read.build # {}, NEW at, read.search.at = {at}
  PROVE  /\ at \in Spots /\ PathLimit \in Nat \ {0} /\ PathStart \in VisitStates
         /\ PageIsPrefix(PathPage(at), {r \in PinnedGraph.rows : Anchor(r, at.direction) = at.vertex /\ r.id > at.after}, PathLimit)
         /\ PathNext(at, PathPage(at)) = {} \/ \E p \in Spots : PathNext(at, PathPage(at)) = {p}
<1> DEFINE g == PinnedGraph
           R == {r \in g.rows : Anchor(r, at.direction) = at.vertex /\ r.id > at.after}
           page == PathPage(at)
<1>1. at \in Spots
  BY DEF SearchTyped
<1>2. PathLimit \in Nat \ {0}
  BY ReadingAssumption DEF PathLimit, SearchTyped
<1>3. PathStart \in VisitStates
  BY DEF PathStart, VisitStates, SearchTyped
<1>4. GraphFine(g)
  BY PinnedIsFine
<1>5. PageIsPrefix(page, R, PathLimit)
  <2> HIDE DEF g
  <2>1. PageIsPrefix(NeighborPage(g, at.vertex, at.direction, RelType, at.after, PathLimit), R, PathLimit)
    BY <1>1, <1>2, <1>4, PathPageIs
  <2> QED BY <2>1 DEF PathPage, g
<1>6. Len(page) = PathLimit => Last(page).id \in Nat
  <2>1. \A r \in R : r.id \in Nat
    BY <1>4 DEF GraphFine, RowType
  <2> HIDE DEF R, page
  <2> QED BY <1>5, <2>1 DEF PageIsPrefix
<1> HIDE DEF page
<1>7. PathNext(at, page) = {} \/ \E p \in Spots : PathNext(at, page) = {p}
  <2>1. CASE Len(page) = PathLimit
    <3>1. [at EXCEPT !.after = Last(page).id] \in Spots
      BY <1>1, <1>6, <2>1 DEF Spots
    <3> QED BY <2>1, <3>1 DEF PathNext
  <2>2. CASE Len(page) # PathLimit /\ at.direction = "outgoing"
    <3>1. [at EXCEPT !.direction = "incoming", !.after = 0] \in Spots
      BY <1>1 DEF Spots, Directions
    <3> QED BY <2>2, <3>1 DEF PathNext
  <2>3. CASE Len(page) # PathLimit /\ at.direction # "outgoing"
    BY <2>3 DEF PathNext
  <2> QED BY <2>1, <2>2, <2>3
<1> QED BY <1>1, <1>2, <1>3, <1>5, <1>7 DEF page

\* Its visits are typed.
LEMMA VisitsTyped ==
  ASSUME NEW s \in VisitStates, NEW at \in Spots, NEW R, R \subseteq RowType, NEW page \in Seq(R)
  PROVE  VisitAll(s, at, page) \in VisitStates
<1> DEFINE T == VisitStates
           m == Len(page)
<1>1. m \in Nat
  OBVIOUS
<1>2. \A t \in T, r \in R : VisitOne(t, r, at) \in T
  <2> SUFFICES ASSUME NEW t \in T, NEW r \in R PROVE VisitOne(t, r, at) \in T
    OBVIOUS
  <2>1. Other(r, at.direction) \in Vertex
    BY DEF RowType, Other
  <2>2. Visit(t, Other(r, at.direction), at) \in T
    BY <2>1, VisitIs
  <2> QED BY <2>2 DEF VisitOne
<1>3. s \in T
  OBVIOUS
<1> HIDE DEF T
<1>4. PICK h : Chain(h, VisitSteps(T, at, page), s, m, T) /\ VisitAll(s, at, page) = h[m]
  BY <1>2, <1>3, Visiting
<1>5. h[m] \in T
  <2> HIDE DEF m
  <2> QED BY <1>1, <1>4 DEF Chain
<1> QED BY <1>4, <1>5 DEF T

\* A search is typed, and has a build from its first lookup on.
SearchInv ==
  /\ SearchTyped(read.search)
  /\ read.pc \in {"from", "to", "search", "seed", "expand", "export"} => read.build # {}

\* A query of paths, as it is asked, and where its search begins.
LEMMA PathQueries ==
  ASSUME Readable, SearchTyped(read.search), NEW pc, At(pc, "path")
  PROVE  /\ Asked.to \in Vertex /\ Asked.hops \in Nat /\ Asked.from \in Vertex
         /\ From = {} \/ \E v \in Vertex : From = {v}
<1>1. Asked.kind = "path" /\ Asked \in Query
  BY OneQuery
<1>2. Asked.to \in Vertex /\ Asked.hops \in Nat /\ Asked.from \in Vertex
  BY <1>1, ReadingAssumption DEF QueryType
<1>3. From = {} \/ \E v \in Vertex : From = {v}
  BY <1>2 DEF From, SearchTyped
<1> QED BY <1>2, <1>3

\* What the other steps leave of a search.
LEMMA SearchStays ==
  ASSUME Readable, SearchInv, Pages \/ Contexts \/ Export \/ Diff
  PROVE  /\ SearchInv' /\ read'.search = read.search /\ read'.build = read.build /\ read'.query = read.query
         /\ UNCHANGED <<content, published, pointer>>
         /\ \A q \in read.query : q.kind # "path"
<1>1. DOMAIN read = {"pc", "query", "build", "pages", "search", "context", "answer"}
  BY DEF Readable
<1>2. \A pc, kind : At(pc, kind) /\ kind # "path" => \A q \in read.query : q.kind # "path"
  BY DEF At, Readable
<1>3. CASE DirectionalPage("outgoing", "incoming") \/ DirectionalPage("incoming", "returned")
  BY <1>1, <1>2, <1>3 DEF DirectionalPage, SearchInv
<1>4. CASE ReturnPage \/ (\E q \in Query : Continue(q))
  BY <1>1, <1>2, <1>4 DEF ReturnPage, Continue, SearchInv
<1>5. CASE Seed
  BY <1>1, <1>2, <1>5 DEF Seed, SearchInv, At
<1>6. CASE Expand
  BY <1>1, <1>2, <1>6 DEF Expand, SearchInv, At
<1>7. CASE Shorten
  BY <1>1, <1>2, <1>7 DEF Shorten, SearchInv, At
<1>8. CASE ReturnContext
  BY <1>1, <1>2, <1>8 DEF ReturnContext, SearchInv, At
<1>9. CASE Export
  BY <1>1, <1>2, <1>9 DEF Export, SearchInv, At
<1>10. CASE Diff
  BY <1>1, <1>2, <1>10 DEF Diff, SearchInv, At
<1> QED BY <1>3, <1>4, <1>5, <1>6, <1>7, <1>8, <1>9, <1>10 DEF Pages, Contexts

\* A search begins, ends, is given its name and its build.
LEMMA SearchBeginsTyped ==
  ASSUME Readable, SearchInv, (\E q \in Query : Ask(q)) \/ Finish \/ (\E b \in Build : MovePointer(b)) \/ PathFails
  PROVE  SearchInv'
<1>1. DOMAIN read = {"pc", "query", "build", "pages", "search", "context", "answer"}
  BY DEF Readable
<1>2. CASE \E q \in Query : Ask(q)
  <2>1. read'.search = NoSearch /\ read'.pc \in {"name", "pin"}
    BY <1>2 DEF Ask, NoRead
  <2> QED BY <2>1, NoSearchTyped DEF SearchInv
<1>3. CASE Finish
  <2>1. read'.search = NoSearch /\ read'.pc = "idle"
    BY <1>3 DEF Finish, NoRead
  <2> QED BY <2>1, NoSearchTyped DEF SearchInv
<1>4. CASE \E b \in Build : MovePointer(b)
  BY <1>4 DEF MovePointer, SearchInv
<1>5. CASE PathFails
  <2>1. read'.search = read.search /\ read'.pc = "exhausted"
    BY <1>1, <1>5 DEF PathFails, Exhausts
  <2> QED BY <2>1 DEF SearchInv
<1> QED BY <1>2, <1>3, <1>4, <1>5

\* A name is resolved: the search begins at most at one entity.
LEMMA SearchNamedTyped ==
  ASSUME Readable, SearchInv, ResolveName
  PROVE  SearchInv' /\ UNCHANGED <<content, published, pointer>> /\ read'.query = read.query
         /\ read'.build = read.build /\ read'.pc \in {"pin", "refused"}
         /\ read'.search.parents = read.search.parents /\ read'.search.at = read.search.at
<1>1. DOMAIN read = {"pc", "query", "build", "pages", "search", "context", "answer"}
  BY DEF Readable
<1>2. UNCHANGED <<content, published, pointer>>
  BY DEF ResolveName
<1>3. CASE read' = [read EXCEPT !.pc = "refused"]
  BY <1>1, <1>2, <1>3 DEF SearchInv
<1>4. CASE read' # [read EXCEPT !.pc = "refused"]
  <2>1. PICK b \in Selected(Asked.build) :
          LET g == content[b] IN
            \/ Cardinality(g.exact) = 1 /\ read' = [read EXCEPT !.pc = "pin", !.search.from = g.exact]
            \/ read' = [read EXCEPT !.pc = "pin", !.search.from = {}]
    BY <1>4 DEF ResolveName
  <2>2. b \in Build
    BY DEF Selected, Readable
  <2>3. GraphFine(content[b])
    BY <2>2, BuildsAreFine DEF Readable
  <2> DEFINE e == content[b].exact
  <2>4. IsFiniteSet(e) /\ e \subseteq Vertex
    <3>1. e \subseteq content[b].nodes /\ IsFiniteSet(content[b].nodes) /\ content[b].nodes \subseteq Vertex
      BY <2>3 DEF GraphFine
    <3> HIDE DEF e
    <3> QED BY <3>1, FS_Subset
  <2>5. PICK f : /\ read' = [read EXCEPT !.pc = "pin", !.search.from = f]
                 /\ f = {} \/ (f = e /\ Cardinality(e) = 1)
    BY <2>1
  <2> HIDE DEF e
  <2>6. f = {} \/ \E v \in Vertex : f = {v}
    BY <2>4, <2>5, FS_Singleton
  <2>7. /\ read'.pc = "pin" /\ read'.build = read.build /\ read'.query = read.query
        /\ DOMAIN read'.search = DOMAIN read.search /\ read'.search.from = f
        /\ read'.search.queue = read.search.queue /\ read'.search.seen = read.search.seen
        /\ read'.search.parents = read.search.parents /\ read'.search.at = read.search.at
        /\ read'.search.rows = read.search.rows /\ read'.search.queries = read.search.queries
    BY <1>1, <2>5 DEF SearchInv, SearchTyped
  <2>8. SearchTyped(read'.search)
    BY <2>6, <2>7 DEF SearchInv, SearchTyped
  <2> QED BY <1>2, <2>7, <2>8 DEF SearchInv
<1> QED BY <1>3, <1>4

\* The reader is given its build.
LEMMA SearchPinnedTyped ==
  ASSUME Readable, SearchInv, PinBuild
  PROVE  /\ SearchInv' /\ read'.query = read.query /\ UNCHANGED <<content, published, pointer>>
         /\ read'.search.parents = read.search.parents /\ read'.search.at = read.search.at
         /\ \/ read'.pc = "refused"
            \/ read'.build # {} /\ \A q \in read.query : read'.pc = Starts(q)
<1>1. DOMAIN read = {"pc", "query", "build", "pages", "search", "context", "answer"}
  BY DEF Readable
<1>2. PICK q \in read.query :
        IF PinOf(q) = {} THEN read' = [read EXCEPT !.pc = "refused"]
        ELSE read' = [read EXCEPT !.pc = Starts(q), !.build = PinOf(q),
                       !.pages.first = IF @ = {} THEN PinOf(q) ELSE @,
                       !.pages.at = IF q.kind = "page" /\ read.build = {} THEN Opening(q) ELSE @,
                       !.search.queries = IF q.kind = "path" THEN @ - 2 ELSE @]
  BY DEF PinBuild
<1>3. read.query = {q}
  BY DEF Readable
<1>4. UNCHANGED <<content, published, pointer>>
  BY DEF PinBuild
<1>5. CASE PinOf(q) = {}
  BY <1>1, <1>2, <1>4, <1>5 DEF SearchInv
<1>6. CASE PinOf(q) # {}
  <2> DEFINE k == IF q.kind = "path" THEN read.search.queries - 2 ELSE read.search.queries
  <2>1. /\ read'.pc = Starts(q) /\ read'.build = PinOf(q) /\ read'.query = read.query
        /\ read'.search = [read.search EXCEPT !.queries = k]
    BY <1>1, <1>2, <1>6
  <2>2. k \in Int /\ k <= MaxQueries
    BY ReadingAssumption DEF SearchInv, SearchTyped
  <2> HIDE DEF k
  <2>3. /\ DOMAIN read'.search = DOMAIN read.search /\ read'.search.queries = k
        /\ read'.search.queue = read.search.queue /\ read'.search.seen = read.search.seen
        /\ read'.search.parents = read.search.parents /\ read'.search.at = read.search.at
        /\ read'.search.rows = read.search.rows /\ read'.search.from = read.search.from
    BY <2>1 DEF SearchInv, SearchTyped
  <2>4. SearchTyped(read'.search)
    BY <2>2, <2>3 DEF SearchInv, SearchTyped
  <2> QED BY <1>3, <1>4, <1>6, <2>1, <2>3, <2>4 DEF SearchInv
<1> QED BY <1>5, <1>6

\* A queue that has the beginning alone.
QueueOf(S) == [i \in 1 .. Cardinality(S) |-> <<CHOOSE v \in S : TRUE, 0>>]

\* It is a sequence, and has the beginning.
LEMMA QueueBegins ==
  ASSUME NEW S, NEW T, S = {} \/ (\E v \in T : S = {v})
  PROVE  /\ QueueOf(S) \in Seq(T \X Nat)
         /\ \A v : S = {v} => QueueOf(S) = << <<v, 0>> >>
<1> DEFINE queue == [i \in 1 .. Cardinality(S) |-> <<CHOOSE v \in S : TRUE, 0>>]
<1>0. QueueOf(S) = queue
  BY DEF QueueOf
<1>1. CASE S = {}
  <2>1. Cardinality(S) = 0
    BY <1>1, FS_EmptySet
  <2> DEFINE A == T \X Nat
  <2>2. queue = <<>>
    BY <2>1
  <2> HIDE DEF A, queue
  <2>3. queue \in Seq(A)
    BY <2>2
  <2> QED BY <1>0, <1>1, <2>3 DEF A
<1>2. CASE \E v \in T : S = {v}
  <2>1. PICK v \in T : S = {v}
    BY <1>2
  <2>2. Cardinality(S) = 1
    BY <2>1, FS_Singleton
  <2>3. (CHOOSE u \in S : TRUE) = v
    BY <2>1
  <2> DEFINE A == T \X Nat
             x == <<v, 0>>
  <2>4. queue = [i \in 1 .. 1 |-> x]
    BY <2>2, <2>3
  <2>5. x \in A
    BY <2>1
  <2>6. \A w : S = {w} => w = v
    BY <2>1
  <2>8. queue = << x >>
    <3> HIDE DEF x
    <3> QED BY <2>4
  <2>a. queue = << <<v, 0>> >>
    BY <2>8
  <2> HIDE DEF A, x
  <2>9. [i \in 1 .. 1 |-> x] \in Seq(A)
    BY <2>5
  <2> QED BY <1>0, <2>4, <2>6, <2>a, <2>9 DEF A
<1> QED BY <1>1, <1>2

\* Looking up an endpoint.
FindsEndpoint(next) ==
  read' = [read EXCEPT !.pc = next, !.search.queries = @ - 1, !.search.seen = From,
                       !.search.queue = [i \in 1 .. Cardinality(From) |-> <<CHOOSE v \in From : TRUE, 0>>]]
EndpointStep(ids, next) ==
  \/ Exhausts
  \/ ids \cap PinnedGraph.nodes = {} /\ ReturnsPath(<<>>)
  \/ ids \cap PinnedGraph.nodes # {} /\ From = {Asked.to} /\ ReturnsPath(<<Asked.to>>)
  \/ ids \cap PinnedGraph.nodes # {} /\ From # {Asked.to} /\ FindsEndpoint(next)

\* A lookup exhausts the budget, answers, or goes on.
LEMMA FindEndpointIs ==
  ASSUME NEW pc, NEW ids, NEW next, FindEndpoint(pc, ids, next)
  PROVE  EndpointStep(ids, next) /\ UNCHANGED <<content, published, pointer>> /\ At(pc, "path")
BY DEF FindEndpoint, EndpointStep, FindsEndpoint

\* The reader goes on from what it looked up.
LEMMA FoundEndpoint ==
  ASSUME Readable, SearchTyped(read.search), NEW pc, At(pc, "path"), NEW next, FindsEndpoint(next)
  PROVE  /\ read'.pc = next /\ read'.query = read.query /\ read'.build = read.build
         /\ SearchTyped(read'.search) /\ read'.search.seen = From /\ read'.search.at = read.search.at
         /\ read'.search.parents = read.search.parents /\ read'.search.from = read.search.from
         /\ \A v : From = {v} => read'.search.queue = << <<v, 0>> >>
<1> DEFINE queue == [i \in 1 .. Cardinality(From) |-> <<CHOOSE v \in From : TRUE, 0>>]
           S == From
<1>1. DOMAIN read = {"pc", "query", "build", "pages", "search", "context", "answer"}
  BY DEF Readable
<1>2. S = {} \/ \E v \in Vertex : S = {v}
  BY PathQueries
<1>3. /\ queue \in Seq(Vertex \X Nat)
      /\ \A v : S = {v} => queue = << <<v, 0>> >>
  <2> HIDE DEF S
  <2>1. QueueOf(S) = queue
    BY DEF S, QueueOf
  <2> HIDE DEF queue
  <2> QED BY <1>2, <2>1, QueueBegins
<1> HIDE DEF S
<1>4. read' = [read EXCEPT !.pc = next, !.search.queries = @ - 1, !.search.seen = S, !.search.queue = queue]
  BY DEF FindsEndpoint, S
<1> HIDE DEF queue
<1>5. /\ read'.pc = next /\ read'.query = read.query /\ read'.build = read.build
      /\ DOMAIN read'.search = DOMAIN read.search /\ read'.search.queries = read.search.queries - 1
      /\ read'.search.queue = queue /\ read'.search.seen = S
      /\ read'.search.parents = read.search.parents /\ read'.search.at = read.search.at
      /\ read'.search.rows = read.search.rows /\ read'.search.from = read.search.from
  BY <1>1, <1>4 DEF SearchTyped
<1>6. S \subseteq Vertex
  BY <1>2
<1>7. read.search.queries - 1 \in Int /\ read.search.queries - 1 <= MaxQueries
  BY ReadingAssumption DEF SearchTyped
<1>8. SearchTyped(read'.search)
  BY <1>3, <1>5, <1>6, <1>7 DEF SearchTyped
<1> QED BY <1>3, <1>5, <1>8 DEF S

\* The search ends, and keeps what it has.
LEMMA SearchOver ==
  ASSUME Readable, SearchTyped(read.search), NEW path, ReturnsPath(path) \/ Exhausts
  PROVE  /\ read'.query = read.query /\ read'.build = read.build
         /\ SearchTyped(read'.search) /\ read'.search.from = read.search.from
         /\ read'.search.at = read.search.at /\ read'.search.parents = read.search.parents
         /\ ReturnsPath(path) => read'.pc = "done" /\ read'.answer = path
         /\ Exhausts => read'.pc = "exhausted"
<1>1. DOMAIN read = {"pc", "query", "build", "pages", "search", "context", "answer"}
  BY DEF Readable
<1>2. CASE Exhausts
  <2>1. read' = [read EXCEPT !.pc = "exhausted"]
    BY <1>2 DEF Exhausts
  <2>2. ~ ReturnsPath(path)
    BY <1>1, <2>1 DEF ReturnsPath
  <2> QED BY <1>1, <1>2, <2>1, <2>2
<1>3. CASE ReturnsPath(path)
  <2> DEFINE f == path # <<>>
  <2> HIDE DEF f
  <2>1. read' = [read EXCEPT !.pc = "done", !.answer = path, !.search.found = f]
    BY <1>3 DEF ReturnsPath, f
  <2>2. /\ read'.pc = "done" /\ read'.answer = path /\ read'.query = read.query /\ read'.build = read.build
        /\ read'.search = [read.search EXCEPT !.found = f]
    BY <1>1, <2>1
  <2>3. ~ Exhausts
    BY <1>1, <2>2 DEF Exhausts
  <2>4. /\ DOMAIN read'.search = DOMAIN read.search /\ read'.search.queries = read.search.queries
        /\ read'.search.queue = read.search.queue /\ read'.search.seen = read.search.seen
        /\ read'.search.parents = read.search.parents /\ read'.search.at = read.search.at
        /\ read'.search.rows = read.search.rows /\ read'.search.from = read.search.from
    BY <2>2 DEF SearchTyped
  <2>5. SearchTyped(read'.search)
    BY <2>4 DEF SearchTyped
  <2> QED BY <2>2, <2>3, <2>4, <2>5
<1> QED BY <1>2, <1>3

\* The next entity of the queue.
LEMMA NextVertexIs ==
  ASSUME Readable, SearchTyped(read.search), NextVertex, read.search.queue # <<>>
  PROVE  LET next == Head(read.search.queue) IN
         /\ read'.pc = read.pc /\ read'.query = read.query /\ read'.build = read.build
         /\ SearchTyped(read'.search) /\ read'.search.from = read.search.from
         /\ read'.search.seen = read.search.seen /\ read'.search.parents = read.search.parents
         /\ read'.search.queue = Tail(read.search.queue) /\ next \in Vertex \X Nat
         /\ read'.search.at = IF next[2] >= Asked.hops THEN {}
              ELSE {[vertex |-> next[1], depth |-> next[2], direction |-> "outgoing", after |-> 0]}
<1> DEFINE next == Head(read.search.queue)
           p == [vertex |-> next[1], depth |-> next[2], direction |-> "outgoing", after |-> 0]
           at == IF next[2] >= Asked.hops THEN {} ELSE {p}
           A == Vertex \X Nat
           queue == Tail(read.search.queue)
<1>1. DOMAIN read = {"pc", "query", "build", "pages", "search", "context", "answer"}
  BY DEF Readable
<1>2. read' = [read EXCEPT !.search.queue = queue, !.search.at = at]
  BY DEF NextVertex
<1>3. next \in A /\ queue \in Seq(A)
  <2>1. read.search.queue \in Seq(A)
    BY DEF SearchTyped
  <2> HIDE DEF A
  <2> QED BY <2>1
<1>4. p \in Spots
  <2>1. next[1] \in Vertex /\ next[2] \in Nat
    BY <1>3
  <2> HIDE DEF next
  <2> QED BY <2>1 DEF Spots, Directions
<1>5. at = {} \/ \E x \in Spots : at = {x}
  BY <1>4
<1> HIDE DEF next, p, at, queue
<1>6. /\ read'.pc = read.pc /\ read'.query = read.query /\ read'.build = read.build
      /\ DOMAIN read'.search = DOMAIN read.search /\ read'.search.queries = read.search.queries
      /\ read'.search.queue = queue /\ read'.search.seen = read.search.seen
      /\ read'.search.parents = read.search.parents /\ read'.search.at = at
      /\ read'.search.rows = read.search.rows /\ read'.search.from = read.search.from
  BY <1>1, <1>2 DEF SearchTyped
<1>7. SearchTyped(read'.search)
  BY <1>3, <1>5, <1>6 DEF SearchTyped, A
<1> QED BY <1>3, <1>6, <1>7 DEF next, at, queue, p, A

\* The search goes on after a page.
LEMMA GoesOnTyped ==
  ASSUME Readable, SearchTyped(read.search), NEW s \in VisitStates, NEW at,
         at = {} \/ (\E p \in Spots : at = {p}), NEW n \in Nat, n <= read.search.rows, GoesOnWith(s, at, n)
  PROVE  /\ read'.pc = read.pc /\ read'.query = read.query /\ read'.build = read.build
         /\ SearchTyped(read'.search) /\ read'.search.from = read.search.from
         /\ read'.search.seen = s.seen /\ read'.search.parents = s.parents /\ read'.search.queue = s.queue
         /\ read'.search.at = at
<1>1. DOMAIN read = {"pc", "query", "build", "pages", "search", "context", "answer"}
  BY DEF Readable
<1> DEFINE a == s.seen
           b == s.parents
           c == s.queue
<1>2. a \subseteq Vertex /\ b \subseteq Vertex \X Vertex /\ c \in Seq(Vertex \X Nat)
  BY DEF VisitStates
<1>3. read' = [read EXCEPT !.search.seen = a, !.search.parents = b, !.search.queue = c, !.search.at = at,
                           !.search.rows = @ - n, !.search.queries = @ - 1]
  BY DEF GoesOnWith
<1> HIDE DEF a, b, c
<1>4. /\ read'.pc = read.pc /\ read'.query = read.query /\ read'.build = read.build
      /\ DOMAIN read'.search = DOMAIN read.search /\ read'.search.queries = read.search.queries - 1
      /\ read'.search.queue = c /\ read'.search.seen = a
      /\ read'.search.parents = b /\ read'.search.at = at
      /\ read'.search.rows = read.search.rows - n /\ read'.search.from = read.search.from
  BY <1>1, <1>3 DEF SearchTyped
<1>5. /\ read.search.rows - n \in 0 .. MaxRows
      /\ read.search.queries - 1 \in Int /\ read.search.queries - 1 <= MaxQueries
  BY ReadingAssumption DEF SearchTyped
<1>6. SearchTyped(read'.search)
  BY <1>2, <1>4, <1>5 DEF SearchTyped
<1> QED BY <1>4, <1>6 DEF a, b, c

\* What is being expanded, and what of it was read.
Opened(at) == {<<a.vertex, a.depth>> : a \in at}
PlaceFine(a, g, seen, hops) ==
  /\ a.depth < hops
  /\ \A r \in g.rows : Anchor(r, a.direction) = a.vertex /\ r.id <= a.after => Other(r, a.direction) \in seen
  /\ a.direction = "incoming" => \A r \in g.rows : r.from = a.vertex => r.to \in seen

\* Where a search stands after a page of at most limit rows.
NextPlace(at, page, limit) ==
  IF Len(page) = limit THEN {[at EXCEPT !.after = Last(page).id]}
  ELSE IF at.direction = "outgoing" THEN {[at EXCEPT !.direction = "incoming", !.after = 0]} ELSE {}

\* A page of a search.
LEMMA PageGoesOn ==
  ASSUME NEW g, GraphFine(g), NEW at \in Spots, NEW s \in VisitStates, s.verdict = "open",
         NEW from, NEW hops \in Nat, NEW n \in Nat,
         Looking(s, g.rows, from, Asked.to, hops, {<<at.vertex, at.depth>>}, n), PlaceFine(at, g, s.seen, hops),
         NEW limit \in Nat \ {0}, NEW page,
         PageIsPrefix(page, {r \in g.rows : Anchor(r, at.direction) = at.vertex /\ r.id > at.after}, limit)
  PROVE  /\ VisitAll(s, at, page) \in VisitStates
         /\ VisitAll(s, at, page).verdict = "found" =>
              Found(VisitAll(s, at, page), g.rows, from, Asked.to, hops)
         /\ VisitAll(s, at, page).verdict = "open" =>
              /\ Looking(VisitAll(s, at, page), g.rows, from, Asked.to, hops, Opened(NextPlace(at, page, limit)), n)
              /\ \A a \in NextPlace(at, page, limit) : PlaceFine(a, g, VisitAll(s, at, page).seen, hops)
<1> DEFINE R == {r \in g.rows : Anchor(r, at.direction) = at.vertex /\ r.id > at.after}
           t == VisitAll(s, at, page)
           v == at.vertex
           d == at.depth
           next == NextPlace(at, page, limit)
<1>1. /\ page \in Seq(R) /\ Len(page) <= limit
      /\ Len(page) # limit => \A r \in R : \E i \in 1 .. Len(page) : page[i] = r
      /\ Len(page) = limit => /\ Last(page) \in R
                              /\ \A r \in R : r.id <= Last(page).id => \E i \in 1 .. Len(page) : page[i] = r
  BY DEF PageIsPrefix
<1>2. R \subseteq g.rows /\ g.rows \subseteq RowType /\ \A r \in R : Anchor(r, at.direction) = at.vertex
  BY DEF GraphFine
<1>3. at.depth < hops /\ v \in Vertex /\ d \in Nat /\ at.after \in Nat /\ at.direction \in Directions
  BY DEF PlaceFine, Spots
<1>4. \A r \in g.rows : r.id \in Nat /\ r.id > 0
  BY <1>2 DEF RowType
<1>5. \A r \in g.rows : Anchor(r, at.direction) = at.vertex => r.id <= at.after \/ r \in R
  BY <1>3, <1>4
<1> HIDE DEF R
<1>6. t \in VisitStates /\ Visited(t, s, g, at.vertex, at.depth, from, hops, n, page, at.direction, Len(page))
  BY <1>1, <1>2, <1>3, PageVisits
<1>7. t.verdict = "found" => Found(t, g.rows, from, Asked.to, hops)
  BY <1>6 DEF Visited
<1> SUFFICES ASSUME t.verdict = "open"
             PROVE  /\ Looking(t, g.rows, from, Asked.to, hops, Opened(next), n)
                    /\ \A a \in next : PlaceFine(a, g, t.seen, hops)
  BY <1>6, <1>7
<1>8. /\ Looking(t, g.rows, from, Asked.to, hops, {<<v, d>>}, n)
      /\ s.seen \subseteq t.seen /\ \A j \in 1 .. Len(page) : Other(page[j], at.direction) \in t.seen
  BY <1>6 DEF Visited
<1> HIDE DEF t
<1>9. \A r \in g.rows : Anchor(r, at.direction) = v /\ r.id <= at.after => Other(r, at.direction) \in t.seen
  BY <1>8 DEF PlaceFine
<1>10. at.direction = "incoming" => \A r \in g.rows : r.from = v => r.to \in t.seen
  BY <1>8 DEF PlaceFine
<1>11. CASE Len(page) = limit
  <2> DEFINE a == [at EXCEPT !.after = Last(page).id]
  <2>1. next = {a}
    BY <1>11 DEF NextPlace
  <2>2. a.vertex = v /\ a.depth = d /\ a.direction = at.direction /\ a.after = Last(page).id
    BY DEF Spots
  <2>3. Opened(next) = {<<v, d>>}
    <3> HIDE DEF a, next
    <3> QED BY <2>1, <2>2 DEF Opened
  <2>4. \A r \in g.rows : Anchor(r, at.direction) = v /\ r.id <= Last(page).id => Other(r, at.direction) \in t.seen
    BY <1>1, <1>5, <1>8, <1>9, <1>11
  <2>5. PlaceFine(a, g, t.seen, hops)
    <3> HIDE DEF a
    <3> QED BY <1>3, <1>10, <2>2, <2>4 DEF PlaceFine
  <2> QED BY <1>8, <2>1, <2>3, <2>5
<1>12. CASE Len(page) # limit /\ at.direction = "outgoing"
  <2> DEFINE a == [at EXCEPT !.direction = "incoming", !.after = 0]
  <2>1. next = {a}
    BY <1>12 DEF NextPlace
  <2>2. a.vertex = v /\ a.depth = d /\ a.direction = "incoming" /\ a.after = 0
    BY DEF Spots
  <2>3. Opened(next) = {<<v, d>>}
    <3> HIDE DEF a, next
    <3> QED BY <2>1, <2>2 DEF Opened
  <2>4. \A r \in g.rows : r.from = v => r.to \in t.seen
    <3> SUFFICES ASSUME NEW r \in g.rows, r.from = v PROVE r.to \in t.seen
      OBVIOUS
    <3>1. Anchor(r, at.direction) = v /\ Other(r, at.direction) = r.to
      BY <1>12 DEF Anchor, Other
    <3> QED BY <1>1, <1>5, <1>8, <1>9, <1>12, <3>1
  <2>5. PlaceFine(a, g, t.seen, hops)
    <3> HIDE DEF a
    <3>1. \A r \in g.rows : ~ (r.id <= 0)
      BY <1>4
    <3> QED BY <1>3, <2>2, <2>4, <3>1 DEF PlaceFine
  <2> QED BY <1>8, <2>1, <2>3, <2>5
<1>13. CASE Len(page) # limit /\ at.direction # "outgoing"
  <2>1. next = {} /\ at.direction = "incoming"
    BY <1>3, <1>13 DEF NextPlace, Directions
  <2>2. Opened(next) = {}
    BY <2>1 DEF Opened
  <2>3. Beside(g.rows, v) \subseteq t.seen
    <3> SUFFICES ASSUME NEW u \in Beside(g.rows, v) PROVE u \in t.seen
      OBVIOUS
    <3>1. PICK r \in g.rows : u # v /\ v \in {r.from, r.to} /\ u \in {r.from, r.to}
      BY BesideRows
    <3>2. CASE r.from = v
      BY <1>10, <2>1, <3>1, <3>2
    <3>3. CASE r.to = v /\ r.from # v
      <4>1. Anchor(r, at.direction) = v /\ Other(r, at.direction) = u
        BY <2>1, <3>1, <3>3 DEF Anchor, Other
      <4> QED BY <1>1, <1>5, <1>8, <1>9, <1>13, <4>1
    <3> QED BY <3>1, <3>2, <3>3
  <2>4. Frontier(g.rows, {from}, t.seen, t.queue, {}, hops)
    <3>1. Frontier(g.rows, {from}, t.seen, t.queue, {<<v, d>>}, hops)
      BY <1>8 DEF Looking
    <3> HIDE DEF v, d
    <3> QED BY <1>3, <2>3, <3>1, FrontierCloses
  <2>5. Looking(t, g.rows, from, Asked.to, hops, {}, n)
    BY <1>8, <2>4 DEF Looking
  <2> QED BY <2>1, <2>2, <2>5
<1> QED BY <1>11, <1>12, <1>13

\* Nothing that is within reach of a graph's entities is none of them.
LEMMA WithinStays ==
  ASSUME NEW rows, NEW N, \A r \in rows : r.from \in N /\ r.to \in N, NEW S \in SUBSET N, NEW n \in Nat
  PROVE  Within(rows, S, n) \subseteq N
<1>1. \A v \in N : Beside(rows, v) \subseteq N
  BY StaysInside
<1> QED BY <1>1, Covers

\* A path search that is under way, and an answer of one.
SearchFine(s, g, F, to, hops) ==
  \E v \in g.nodes, n \in Nat :
    /\ F = {v} /\ Looking(s, g.rows, v, to, hops, Opened(s.at), n)
    /\ \A a \in s.at : PlaceFine(a, g, s.seen, hops)
AnswerFine(path, g, F, to, hops) ==
  IF path # <<>> THEN F = {Head(path)} /\ IsShortest(g.rows, path, Head(path), to, hops)
  ELSE to \notin Within(g.rows, F \cap g.nodes, hops)

\* A search begins.
LEMMA SearchStarts ==
  ASSUME NEW s, NEW g, NEW v \in g.nodes, NEW to, v # to, NEW hops \in Nat,
         s.seen = {v}, s.parents = {}, s.at = {}, s.queue = << <<v, 0>> >>
  PROVE  SearchFine(s, g, {v}, to, hops)
<1> DEFINE x == <<v, 0>>
           q == <<x>>
<1>1. Tree(g.rows, {v}, {v}, {})
  BY TreeBegins
<1>2. Frontier(g.rows, {v}, {v}, q, {}, hops)
  <2>1. DOMAIN q = {1} /\ q[1] = x /\ x[1] = v /\ x[2] = 0
    OBVIOUS
  <2>2. AtDist(g.rows, {v}, v, 0)
    BY WithinSteps DEF AtDist
  <2>3. q \in Seq({v} \X Nat)
    <3> DEFINE F == {v} \X Nat
    <3>1. x \in F
      OBVIOUS
    <3> HIDE DEF F, x
    <3>2. <<x>> \in Seq(F)
      BY <3>1
    <3> QED BY <3>2 DEF F, x
  <2> HIDE DEF q, x
  <2> QED BY <2>1, <2>2, <2>3 DEF Frontier
<1>3. IsFiniteSet({v}) /\ Cardinality({v}) = 1
  BY FS_Singleton
<1>4. Len(q) = 1
  <2> HIDE DEF x
  <2> QED OBVIOUS
<1>5. s.queue = q /\ s.seen = {v} /\ s.parents = {} /\ Opened(s.at) = {} /\ to \notin s.seen
  BY DEF Opened
<1> HIDE DEF q
<1>6. Looking(s, g.rows, v, to, hops, Opened(s.at), 0)
  BY <1>1, <1>2, <1>3, <1>4, <1>5 DEF Looking
<1> QED BY <1>6 DEF SearchFine

\* What it takes next, or that there is no path.
LEMMA SearchPops ==
  ASSUME NEW s, NEW t, NEW g, NEW F, NEW to, NEW hops \in Nat, SearchFine(s, g, F, to, hops), s.at = {},
         \A r \in g.rows : r.id \in Nat /\ r.id > 0
  PROVE  /\ s.queue = <<>> => AnswerFine(<<>>, g, F, to, hops)
         /\ (/\ s.queue # <<>> /\ t.seen = s.seen /\ t.parents = s.parents /\ t.queue = Tail(s.queue)
             /\ t.at = IF Head(s.queue)[2] >= hops THEN {}
                       ELSE {[vertex |-> Head(s.queue)[1], depth |-> Head(s.queue)[2],
                              direction |-> "outgoing", after |-> 0]})
            => SearchFine(t, g, F, to, hops)
<1>1. PICK v \in g.nodes, n \in Nat : F = {v} /\ Looking(s, g.rows, v, to, hops, Opened(s.at), n)
  BY DEF SearchFine
<1>2. Opened(s.at) = {}
  BY DEF Opened
<1>3. /\ Tree(g.rows, {v}, s.seen, s.parents) /\ Frontier(g.rows, {v}, s.seen, s.queue, {}, hops)
      /\ to \notin s.seen /\ IsFiniteSet(s.seen) /\ Cardinality(s.seen) = n + Len(s.queue)
  BY <1>1, <1>2 DEF Looking
<1>4. ASSUME s.queue = <<>> PROVE AnswerFine(<<>>, g, F, to, hops)
  <2>1. Frontier(g.rows, {v}, s.seen, <<>>, {}, hops)
    BY <1>3, <1>4
  <2>2. Within(g.rows, {v}, hops) \subseteq s.seen
    BY <2>1, FrontierEnds
  <2>3. F \cap g.nodes = {v}
    BY <1>1
  <2> QED BY <1>3, <2>2, <2>3 DEF AnswerFine
<1>5. ASSUME s.queue # <<>>, t.seen = s.seen, t.parents = s.parents, t.queue = Tail(s.queue),
             t.at = IF Head(s.queue)[2] >= hops THEN {}
                    ELSE {[vertex |-> Head(s.queue)[1], depth |-> Head(s.queue)[2],
                           direction |-> "outgoing", after |-> 0]}
      PROVE  SearchFine(t, g, F, to, hops)
  <2> DEFINE o == Head(s.queue)
             u == o[1]
             d == o[2]
             a == [vertex |-> u, depth |-> d, direction |-> "outgoing", after |-> 0]
  <2>1. /\ Frontier(g.rows, {v}, s.seen, Tail(s.queue), {o}, hops) /\ o = <<u, d>> /\ d \in Nat
        /\ Len(s.queue) = Len(Tail(s.queue)) + 1
    <3> DEFINE q == s.queue
    <3>1. Frontier(g.rows, {v}, s.seen, q, {}, hops) /\ q # <<>>
      BY <1>3, <1>5
    <3> HIDE DEF q
    <3>2. /\ Frontier(g.rows, {v}, s.seen, Tail(q), {Head(q)}, hops)
          /\ Head(q) = <<Head(q)[1], Head(q)[2]>> /\ Head(q)[2] \in Nat
          /\ Len(q) = Len(Tail(q)) + 1
      BY <3>1, FrontierPops
    <3> QED BY <3>2 DEF q
  <2>2. t.at = IF d >= hops THEN {} ELSE {a}
    BY <1>5
  <2>a. a.vertex = u /\ a.depth = d /\ a.direction = "outgoing" /\ a.after = 0
    OBVIOUS
  <2> HIDE DEF o, u, d, a
  <2>3. Frontier(g.rows, {v}, s.seen, Tail(s.queue), Opened(t.at), hops)
    <3>1. CASE d >= hops
      <4>1. Opened(t.at) = {} /\ ~ (d < hops)
        BY <2>1, <2>2, <3>1 DEF Opened
      <4> QED BY <2>1, <4>1, FrontierCloses
    <3>2. CASE ~ (d >= hops)
      <4>1. t.at = {a}
        BY <2>2, <3>2
      <4>2. Opened(t.at) = {<<u, d>>}
        BY <2>a, <4>1 DEF Opened
      <4> QED BY <2>1, <4>2
    <3> QED BY <3>1, <3>2
  <2>4. Len(Tail(s.queue)) \in Nat
    <3> DEFINE A == s.seen \X Nat
    <3>1. s.queue \in Seq(A)
      BY <1>3 DEF Frontier
    <3> HIDE DEF A
    <3> QED BY <1>5, <3>1
  <2>5. Cardinality(t.seen) = (n + 1) + Len(t.queue)
    <3>1. Cardinality(s.seen) = n + Len(s.queue) /\ t.seen = s.seen /\ t.queue = Tail(s.queue)
      BY <1>3, <1>5
    <3> DEFINE l == Len(Tail(s.queue))
               c == Cardinality(s.seen)
    <3>2. l \in Nat /\ Len(s.queue) = l + 1 /\ Len(t.queue) = l /\ Cardinality(t.seen) = c /\ c = n + Len(s.queue)
      BY <2>1, <2>4, <3>1
    <3> HIDE DEF l, c
    <3>3. c = (n + 1) + l
      BY <3>2
    <3> QED BY <3>2, <3>3
  <2>6. Looking(t, g.rows, v, to, hops, Opened(t.at), n + 1)
    BY <1>3, <1>5, <2>3, <2>5 DEF Looking
  <2>7. \A x \in t.at : PlaceFine(x, g, t.seen, hops)
    <3> SUFFICES ASSUME NEW x \in t.at PROVE PlaceFine(x, g, t.seen, hops)
      OBVIOUS
    <3>1. x = a /\ d < hops
      BY <2>1, <2>2
    <3>2. \A r \in g.rows : ~ (r.id <= 0)
      <4> SUFFICES ASSUME NEW r \in g.rows, r.id <= 0 PROVE FALSE
        OBVIOUS
      <4>1. r.id > 0 /\ r.id \in Nat
        OBVIOUS
      <4> QED BY <4>1
    <3> QED BY <2>a, <3>1, <3>2 DEF PlaceFine
  <2> QED BY <1>1, <2>6, <2>7 DEF SearchFine
<1> QED BY <1>4, <1>5

\* A path query, whenever it is looked at.
SearchIsFine(q) ==
  /\ read.pc \in {"name", "pin", "from", "to", "search", "refused", "exhausted", "done"}
  /\ read.pc \in {"name", "pin", "from", "to"} => read.search.at = {} /\ read.search.parents = {}
  /\ read.pc = "to" => \E v \in PinnedGraph.nodes : From = {v} /\ v # q.to
  /\ read.pc = "search" => SearchFine(read.search, PinnedGraph, From, q.to, q.hops)
  /\ read.pc = "done" => AnswerFine(read.answer, PinnedGraph, From, q.to, q.hops)
PathInv == \A q \in read.query : q.kind = "path" => SearchIsFine(q)

PathReaderInv == Readable /\ SearchInv /\ PathInv

\* What a step leaves alone that a search depends on.
LEMMA SameSearch ==
  ASSUME read'.query = read.query, read'.search.from = read.search.from, read'.build = read.build,
         content' = content
  PROVE  PinnedGraph' = PinnedGraph /\ From' = From /\ Asked' = Asked
BY DEF PinnedGraph, From, Asked

\* A path query that is over.
LEMMA PathOver ==
  ASSUME Readable, SearchTyped(read.search), NEW pc, At(pc, "path"), UNCHANGED <<content, published, pointer>>,
         NEW path, ReturnsPath(path) \/ Exhausts,
         ReturnsPath(path) => AnswerFine(path, PinnedGraph, From, Asked.to, Asked.hops)
  PROVE  SearchInv' /\ PathInv'
<1>1. /\ read'.query = read.query /\ read'.build = read.build
      /\ SearchTyped(read'.search) /\ read'.search.from = read.search.from
      /\ ReturnsPath(path) => read'.pc = "done" /\ read'.answer = path
      /\ Exhausts => read'.pc = "exhausted"
  BY SearchOver
<1>2. PinnedGraph' = PinnedGraph /\ From' = From /\ \A q \in read.query : q = Asked
  BY <1>1, SameSearch, OneQuery
<1>3. read'.pc \in {"done", "exhausted"}
  BY <1>1
<1>4. SearchInv'
  BY <1>1, <1>3 DEF SearchInv
<1>5. PathInv'
  <2> SUFFICES ASSUME NEW q \in read'.query PROVE SearchIsFine(q)'
    BY DEF PathInv
  <2>1. q = Asked
    BY <1>1, <1>2
  <2>2. read'.pc = "done" => AnswerFine(read'.answer, PinnedGraph', From', q.to, q.hops)
    BY <1>1, <1>2, <2>1
  <2> QED BY <1>3, <2>2 DEF SearchIsFine
<1> QED BY <1>4, <1>5

\* The lookup of an endpoint.
LEMMA PathEndpoints ==
  ASSUME PathReaderInv, FindEndpoint("from", From, "to") \/ FindEndpoint("to", {Asked.to}, "search")
  PROVE  SearchInv' /\ PathInv'
<1> DEFINE g == PinnedGraph
           to == Asked.to
           hops == Asked.hops
           F == From
<1>0. Readable /\ SearchInv /\ PathInv /\ SearchTyped(read.search)
  BY DEF PathReaderInv, SearchInv
<1>1. PICK pc, ids, next : /\ FindEndpoint(pc, ids, next)
                           /\ \/ pc = "from" /\ ids = F /\ next = "to"
                              \/ pc = "to" /\ ids = {to} /\ next = "search"
  OBVIOUS
<1>2. EndpointStep(ids, next) /\ UNCHANGED <<content, published, pointer>> /\ At(pc, "path")
  BY <1>1, FindEndpointIs
<1>3. /\ read.pc = pc /\ read.query = {Asked} /\ Asked.kind = "path" /\ \A q \in read.query : q = Asked
      /\ SearchIsFine(Asked)
  BY <1>0, <1>2, OneQuery DEF PathInv
<1>4. to \in Vertex /\ hops \in Nat /\ (F = {} \/ \E v \in Vertex : F = {v})
  BY <1>0, <1>2, PathQueries
<1>5. read.build # {} /\ GraphFine(g)
  BY <1>0, <1>1, <1>3, PinnedIsFine DEF SearchInv
<1>6. read.search.at = {} /\ read.search.parents = {} /\ (pc = "to" => \E v \in g.nodes : F = {v} /\ v # to)
  BY <1>1, <1>3 DEF SearchIsFine
<1> HIDE DEF g, F
<1>7. CASE Exhausts
  BY <1>0, <1>2, <1>7, PathOver, SearchOver
<1>8. CASE ids \cap g.nodes = {} /\ ReturnsPath(<<>>)
  <2>1. to \notin Within(g.rows, F \cap g.nodes, hops)
    <3>1. CASE pc = "from"
      <4>1. F \cap g.nodes = {}
        BY <1>1, <1>8, <3>1
      <4>2. Within(g.rows, {}, hops) \subseteq {}
        <5> DEFINE S == {}
        <5>1. S \subseteq S /\ \A v \in S, d \in Nat : AtDist(g.rows, S, v, d) /\ d < hops => Beside(g.rows, v) \subseteq S
          OBVIOUS
        <5> HIDE DEF S
        <5>2. Within(g.rows, S, hops) \subseteq S
          BY <1>4, <5>1, Covers
        <5> QED BY <5>2 DEF S
      <4> QED BY <4>1, <4>2
    <3>2. CASE pc = "to"
      <4>1. to \notin g.nodes
        BY <1>1, <1>8, <3>2
      <4>2. \A r \in g.rows : r.from \in g.nodes /\ r.to \in g.nodes
        BY <1>5 DEF GraphFine
      <4>3. Within(g.rows, F \cap g.nodes, hops) \subseteq g.nodes
        <5> DEFINE S == F \cap g.nodes
        <5>1. S \in SUBSET g.nodes
          OBVIOUS
        <5> HIDE DEF S
        <5>2. Within(g.rows, S, hops) \subseteq g.nodes
          BY <1>4, <4>2, <5>1, WithinStays
        <5> QED BY <5>2 DEF S
      <4> QED BY <4>1, <4>3
    <3> QED BY <1>1, <3>1, <3>2
  <2>2. AnswerFine(<<>>, g, F, to, hops)
    BY <2>1 DEF AnswerFine
  <2> QED BY <1>0, <1>2, <1>8, <2>2, PathOver DEF g, F
<1>9. CASE F = {to} /\ ReturnsPath(<<to>>)
  <2>1. <<to>> # <<>> /\ Head(<<to>>) = to /\ Last(<<to>>) = to /\ Len(<<to>>) = 1
    BY DEF Last
  <2>2. IsShortest(g.rows, <<to>>, to, to, hops)
    BY <1>4, <2>1 DEF IsShortest
  <2>3. AnswerFine(<<to>>, g, F, to, hops)
    BY <1>9, <2>1, <2>2 DEF AnswerFine
  <2> QED BY <1>0, <1>2, <1>9, <2>3, PathOver DEF g, F
<1>10. CASE ids \cap g.nodes # {} /\ F # {to} /\ FindsEndpoint(next)
  <2>1. /\ read'.pc = next /\ read'.query = read.query /\ read'.build = read.build
        /\ SearchTyped(read'.search) /\ read'.search.seen = F /\ read'.search.at = {}
        /\ read'.search.parents = {} /\ read'.search.from = read.search.from
        /\ \A v : F = {v} => read'.search.queue = << <<v, 0>> >>
    BY <1>0, <1>2, <1>6, <1>10, FoundEndpoint DEF F
  <2>2. PinnedGraph' = g /\ From' = F /\ Asked' = Asked
    BY <1>2, <2>1, SameSearch DEF g, F
  <2>3. SearchInv'
    BY <1>5, <2>1 DEF SearchInv
  <2>4. \E v \in g.nodes : F = {v} /\ v # to
    <3>1. CASE pc = "to"
      BY <1>6, <3>1
    <3>2. CASE pc = "from"
      BY <1>1, <1>4, <1>10, <3>2
    <3> QED BY <1>1, <3>1, <3>2
  <2>5. next = "search" => SearchFine(read'.search, g, F, to, hops)
    <3>1. PICK v \in g.nodes : F = {v} /\ v # to
      BY <2>4
    <3> DEFINE s == read'.search
    <3>2. s.seen = {v} /\ s.parents = {} /\ s.at = {} /\ s.queue = << <<v, 0>> >>
      BY <2>1, <3>1
    <3> HIDE DEF s
    <3>3. SearchFine(s, g, {v}, to, hops)
      BY <1>4, <3>1, <3>2, SearchStarts
    <3> QED BY <3>1, <3>3 DEF s
  <2>6. PathInv'
    <3> SUFFICES ASSUME NEW q \in read'.query PROVE SearchIsFine(q)'
      BY DEF PathInv
    <3>1. q = Asked
      BY <1>3, <2>1
    <3>2. next \in {"to", "search"}
      BY <1>1
    <3> QED BY <2>1, <2>2, <2>4, <2>5, <3>1, <3>2 DEF SearchIsFine
  <2> QED BY <2>3, <2>6
<1> QED BY <1>2, <1>7, <1>8, <1>9, <1>10 DEF EndpointStep, g, F

\* The search takes the next entity.
LEMMA PathPops ==
  ASSUME PathReaderInv, NextVertex
  PROVE  SearchInv' /\ PathInv'
<1> DEFINE g == PinnedGraph
           to == Asked.to
           hops == Asked.hops
           F == From
           s == read.search
<1>0. Readable /\ SearchInv /\ PathInv /\ SearchTyped(s)
  BY DEF PathReaderInv, SearchInv
<1>2. UNCHANGED <<content, published, pointer>> /\ At("search", "path") /\ s.at = {}
  BY DEF NextVertex
<1>3. /\ read.pc = "search" /\ read.query = {Asked} /\ Asked.kind = "path" /\ \A q \in read.query : q = Asked
      /\ SearchIsFine(Asked)
  BY <1>0, <1>2, OneQuery DEF PathInv
<1>4. to \in Vertex /\ hops \in Nat
  BY <1>0, <1>2, PathQueries
<1>5. read.build # {} /\ GraphFine(g)
  BY <1>0, <1>3, PinnedIsFine DEF SearchInv
<1>6. SearchFine(s, g, F, to, hops)
  BY <1>3 DEF SearchIsFine
<1>7. \A r \in g.rows : r.id \in Nat /\ r.id > 0
  BY <1>5 DEF GraphFine, RowType
<1> HIDE DEF g, F
<1>8. CASE s.queue = <<>>
  <2>1. ReturnsPath(<<>>)
    BY <1>8 DEF NextVertex
  <2>2. AnswerFine(<<>>, g, F, to, hops)
    <3> HIDE DEF s
    <3> QED BY <1>2, <1>4, <1>6, <1>7, <1>8, SearchPops
  <2> QED BY <1>0, <1>2, <2>1, <2>2, PathOver DEF g, F
<1>9. CASE s.queue # <<>>
  <2> DEFINE t == read'.search
  <2>1. /\ read'.pc = "search" /\ read'.query = read.query /\ read'.build = read.build
        /\ SearchTyped(t) /\ t.from = s.from /\ t.seen = s.seen /\ t.parents = s.parents
        /\ t.queue = Tail(s.queue)
        /\ t.at = IF Head(s.queue)[2] >= hops THEN {}
              ELSE {[vertex |-> Head(s.queue)[1], depth |-> Head(s.queue)[2], direction |-> "outgoing", after |-> 0]}
    BY <1>0, <1>3, <1>9, NextVertexIs
  <2>2. PinnedGraph' = g /\ From' = F /\ Asked' = Asked
    BY <1>2, <2>1, SameSearch DEF g, F
  <2>3. SearchInv'
    BY <1>5, <2>1 DEF SearchInv
  <2>4. SearchFine(t, g, F, to, hops)
    <3> HIDE DEF s, t
    <3> QED BY <1>2, <1>4, <1>6, <1>7, <1>9, <2>1, SearchPops
  <2>5. PathInv'
    <3> SUFFICES ASSUME NEW q \in read'.query PROVE SearchIsFine(q)'
      BY DEF PathInv
    <3>1. q = Asked
      BY <1>3, <2>1
    <3> QED BY <2>1, <2>2, <2>4, <3>1 DEF SearchIsFine
  <2> QED BY <2>3, <2>5
<1> QED BY <1>8, <1>9

\* The search reads a page.
LEMMA PathReads ==
  ASSUME PathReaderInv, ReadPathPage
  PROVE  SearchInv' /\ PathInv'
<1> DEFINE g == PinnedGraph
           to == Asked.to
           hops == Asked.hops
           F == From
           s == read.search
<1>0. Readable /\ SearchInv /\ PathInv /\ SearchTyped(s)
  BY DEF PathReaderInv, SearchInv
<1>2. UNCHANGED <<content, published, pointer>> /\ At("search", "path")
  BY DEF ReadPathPage
<1>3. /\ read.pc = "search" /\ read.query = {Asked} /\ Asked.kind = "path" /\ \A q \in read.query : q = Asked
      /\ SearchIsFine(Asked)
  BY <1>0, <1>2, OneQuery DEF PathInv
<1>4. to \in Vertex /\ hops \in Nat
  BY <1>0, <1>2, PathQueries
<1>5. read.build # {} /\ GraphFine(g)
  BY <1>0, <1>3, PinnedIsFine DEF SearchInv
<1>6. PICK v \in g.nodes, n \in Nat :
         /\ F = {v} /\ Looking(s, g.rows, v, to, hops, Opened(s.at), n)
         /\ \A a \in s.at : PlaceFine(a, g, s.seen, hops)
  BY <1>3 DEF SearchIsFine, SearchFine
<1>7. PICK at \in s.at : ReadsPage(at, PathPage(at), VisitAll(PathStart, at, PathPage(at)))
  BY ReadPathPageIs
<1>8. s.at = {at}
  BY <1>0, <1>7 DEF SearchTyped
<1> DEFINE page == PathPage(at)
           t == VisitAll(PathStart, at, page)
           next == PathNext(at, page)
           R == {r \in g.rows : Anchor(r, at.direction) = at.vertex /\ r.id > at.after}
<1>9. /\ at \in Spots /\ PathLimit \in Nat \ {0} /\ PathStart \in VisitStates
      /\ PageIsPrefix(page, R, PathLimit)
      /\ next = {} \/ \E p \in Spots : next = {p}
  BY <1>0, <1>5, <1>8, PageTyped
<1>10. next = NextPlace(at, page, PathLimit)
  BY DEF PathNext, NextPlace
<1>11. /\ Looking(PathStart, g.rows, v, to, hops, {<<at.vertex, at.depth>>}, n)
       /\ PathStart.verdict = "open" /\ PathStart.seen = s.seen
  <2>1. Opened(s.at) = {<<at.vertex, at.depth>>}
    BY <1>8 DEF Opened
  <2>2. /\ PathStart.seen = s.seen /\ PathStart.parents = s.parents /\ PathStart.queue = s.queue
        /\ PathStart.verdict = "open"
    BY DEF PathStart
  <2> QED BY <1>6, <2>1, <2>2 DEF Looking
<1>12. PlaceFine(at, g, PathStart.seen, hops)
  BY <1>6, <1>7, <1>11
<1> HIDE DEF g, F, next
<1>13. /\ t \in VisitStates
       /\ t.verdict = "found" => Found(t, g.rows, v, to, hops)
       /\ t.verdict = "open" =>
            /\ Looking(t, g.rows, v, to, hops, Opened(next), n)
            /\ \A a \in next : PlaceFine(a, g, t.seen, hops)
  <2>1. PageIsPrefix(page, {r \in g.rows : Anchor(r, at.direction) = at.vertex /\ r.id > at.after}, PathLimit)
    BY <1>9
  <2> HIDE DEF page, s, R
  <2> QED BY <1>4, <1>5, <1>9, <1>10, <1>11, <1>12, <2>1, PageGoesOn
<1>14. Len(page) \in Nat
  <2> HIDE DEF R, page
  <2> QED BY <1>9 DEF PageIsPrefix
<1>15. IF ~ Spend \/ Len(page) > read.search.rows \/ t.verdict = "exhausted" THEN Exhausts
       ELSE IF t.verdict = "found" THEN ReturnsPath(PathTo(Asked.to, t.parents))
       ELSE GoesOnWith(t, next, Len(page))
  BY <1>7 DEF ReadsPage, next
<1> HIDE DEF page, t, R
<1>16. CASE Exhausts
  BY <1>0, <1>2, <1>16, PathOver, SearchOver
<1>17. CASE t.verdict = "found" /\ ReturnsPath(PathTo(to, t.parents))
  <2> DEFINE path == PathTo(to, t.parents)
  <2>1. PICK d \in Nat : d <= hops /\ AtDist(g.rows, {v}, to, d)
    BY <1>13, <1>17 DEF Found
  <2>2. Tree(g.rows, {v}, t.seen, t.parents) /\ to \in t.seen
    BY <1>13, <1>17 DEF Found
  <2>3. path # <<>> /\ IsShortest(g.rows, path, v, to, hops)
    BY <1>4, <2>1, <2>2, TreePath
  <2> HIDE DEF path
  <2>4. Head(path) = v
    BY <2>3 DEF IsShortest
  <2>5. AnswerFine(path, g, F, to, hops)
    BY <1>6, <2>3, <2>4 DEF AnswerFine, F
  <2> QED BY <1>0, <1>2, <1>17, <2>5, PathOver DEF g, F, path
<1>18. CASE /\ ~ (~ Spend \/ Len(page) > read.search.rows \/ t.verdict = "exhausted")
            /\ t.verdict # "found" /\ GoesOnWith(t, next, Len(page))
  <2>1. t.verdict = "open"
    BY <1>13, <1>18 DEF VisitStates
  <2>2. Len(page) <= read.search.rows
    BY <1>0, <1>14, <1>18 DEF SearchTyped
  <2> DEFINE u == read'.search
  <2>3. /\ read'.pc = "search" /\ read'.query = read.query /\ read'.build = read.build
        /\ SearchTyped(u) /\ u.from = s.from /\ u.seen = t.seen /\ u.parents = t.parents
        /\ u.queue = t.queue /\ u.at = next
    BY <1>0, <1>3, <1>9, <1>13, <1>14, <1>18, <2>2, GoesOnTyped
  <2>4. PinnedGraph' = g /\ From' = F /\ Asked' = Asked
    BY <1>2, <2>3, SameSearch DEF g, F
  <2>5. SearchInv'
    BY <1>5, <2>3 DEF SearchInv
  <2>6. SearchFine(u, g, F, to, hops)
    <3>1. /\ Looking(t, g.rows, v, to, hops, Opened(next), n)
          /\ \A a \in next : PlaceFine(a, g, t.seen, hops)
      BY <1>13, <2>1
    <3> HIDE DEF u
    <3>2. Looking(u, g.rows, v, to, hops, Opened(u.at), n)
      BY <2>3, <3>1 DEF Looking
    <3>3. F = {v} /\ v \in g.nodes
      BY <1>6 DEF F, g
    <3> QED BY <2>3, <3>1, <3>2, <3>3 DEF SearchFine
  <2>7. PathInv'
    <3> SUFFICES ASSUME NEW q \in read'.query PROVE SearchIsFine(q)'
      BY DEF PathInv
    <3>1. q = Asked
      BY <1>3, <2>3
    <3> QED BY <2>3, <2>4, <2>6, <3>1 DEF SearchIsFine
  <2> QED BY <2>5, <2>7
<1> QED BY <1>15, <1>16, <1>17, <1>18

\* A path query is asked, named, and given its build; the reader does something else.
LEMMA PathOthers ==
  ASSUME PathReaderInv,
         \/ (\E q \in Query : Ask(q)) \/ Finish \/ (\E b \in Build : MovePointer(b)) \/ PathFails
         \/ ResolveName \/ PinBuild \/ Pages \/ Contexts \/ Export \/ Diff
  PROVE  SearchInv' /\ PathInv'
<1>0. Readable /\ SearchInv /\ PathInv /\ SearchTyped(read.search)
  BY DEF PathReaderInv, SearchInv
<1>1. DOMAIN read = {"pc", "query", "build", "pages", "search", "context", "answer"}
  BY <1>0 DEF Readable
<1>2. CASE \E q \in Query : Ask(q)
  <2>1. SearchInv'
    BY <1>0, <1>2, SearchBeginsTyped
  <2>2. read'.pc \in {"name", "pin"} /\ read'.search.at = {} /\ read'.search.parents = {}
    <3>1. read'.search = NoSearch /\ read'.pc \in {"name", "pin"}
      BY <1>2 DEF Ask, NoRead
    <3> QED BY <3>1 DEF NoSearch
  <2> QED BY <2>1, <2>2 DEF PathInv, SearchIsFine
<1>3. CASE Finish
  <2>1. SearchInv'
    BY <1>0, <1>3, SearchBeginsTyped
  <2>2. read'.query = {}
    BY <1>3 DEF Finish, NoRead
  <2> QED BY <2>1, <2>2 DEF PathInv
<1>4. CASE \E b \in Build : MovePointer(b)
  <2>1. SearchInv'
    BY <1>0, <1>4, SearchBeginsTyped
  <2>2. read' = read /\ content' = content
    BY <1>4 DEF MovePointer
  <2>3. PinnedGraph' = PinnedGraph /\ From' = From
    BY <2>2, SameSearch
  <2> QED BY <1>0, <2>1, <2>2, <2>3 DEF PathInv, SearchIsFine
<1>5. CASE PathFails
  <2>1. SearchInv'
    BY <1>0, <1>5, SearchBeginsTyped
  <2>2. read'.pc = "exhausted"
    BY <1>1, <1>5 DEF PathFails, Exhausts
  <2> QED BY <2>1, <2>2 DEF PathInv, SearchIsFine
<1>6. CASE ResolveName
  <2>1. /\ SearchInv' /\ read'.query = read.query /\ read'.pc \in {"pin", "refused"}
        /\ read'.search.parents = read.search.parents /\ read'.search.at = read.search.at
    BY <1>0, <1>6, SearchNamedTyped
  <2>2. read.pc = "name"
    BY <1>6 DEF ResolveName, At
  <2> QED BY <1>0, <2>1, <2>2 DEF PathInv, SearchIsFine
<1>7. CASE PinBuild
  <2>1. /\ SearchInv' /\ read'.query = read.query
        /\ read'.search.parents = read.search.parents /\ read'.search.at = read.search.at
        /\ \/ read'.pc = "refused"
           \/ read'.build # {} /\ \A q \in read.query : read'.pc = Starts(q)
    BY <1>0, <1>7, SearchPinnedTyped
  <2>2. read.pc = "pin"
    BY <1>7 DEF PinBuild
  <2>3. PathInv'
    <3> SUFFICES ASSUME NEW q \in read.query, q.kind = "path" PROVE SearchIsFine(q)'
      BY <2>1 DEF PathInv
    <3>1. read'.pc \in {"refused", "from"}
      BY <2>1 DEF Starts
    <3>2. read'.search.at = {} /\ read'.search.parents = {}
      BY <1>0, <2>1, <2>2 DEF PathInv, SearchIsFine
    <3> QED BY <3>1, <3>2 DEF SearchIsFine
  <2> QED BY <2>1, <2>3
<1>8. CASE Pages \/ Contexts \/ Export \/ Diff
  <2>1. SearchInv' /\ read'.query = read.query /\ \A q \in read.query : q.kind # "path"
    BY <1>0, <1>8, SearchStays
  <2> QED BY <2>1 DEF PathInv
<1> QED BY <1>2, <1>3, <1>4, <1>5, <1>6, <1>7, <1>8

\* Every step of the reader keeps what is known of path queries.
LEMMA PathSteps == ReaderInv /\ SearchInv /\ PathInv /\ [ReadingNext]_readingVars => SearchInv' /\ PathInv'
<1> SUFFICES ASSUME ReaderInv, SearchInv, PathInv, [ReadingNext]_readingVars PROVE SearchInv' /\ PathInv'
  OBVIOUS
<1>1. PathReaderInv
  BY DEF PathReaderInv, ReaderInv
<1>2. CASE UNCHANGED readingVars
  <2>1. read' = read /\ content' = content
    BY <1>2 DEF readingVars
  <2>2. PinnedGraph' = PinnedGraph /\ From' = From
    BY <2>1, SameSearch
  <2> QED BY <2>1, <2>2 DEF SearchInv, PathInv, SearchIsFine
<1>3. CASE ReadingNext
  BY <1>1, <1>3, PathOthers, PathEndpoints, PathPops, PathReads DEF ReadingNext, Paths
<1> QED BY <1>2, <1>3

\* It is known at the beginning, and shows that answers are shortest paths.
LEMMA PathBegins == ReadingInit => SearchInv /\ PathInv
<1> SUFFICES ASSUME ReadingInit PROVE SearchInv /\ PathInv
  OBVIOUS
<1>1. read.search = NoSearch /\ read.pc = "idle" /\ read.query = {}
  BY DEF ReadingInit, NoRead
<1> QED BY <1>1, NoSearchTyped DEF SearchInv, PathInv

\* What the invariant is for.
LEMMA PathInvShows == PathInv => PathIsShortest
<1> SUFFICES ASSUME PathInv, NEW q \in read.query, q.kind = "path", read.pc = "done"
             PROVE  LET path == read.answer IN
                    IF path # <<>>
                      THEN From = {Head(path)} /\ IsShortest(PinnedGraph.rows, path, Head(path), q.to, q.hops)
                      ELSE q.to \notin Within(PinnedGraph.rows, From \cap PinnedGraph.nodes, q.hops)
  BY DEF PathIsShortest
<1>1. AnswerFine(read.answer, PinnedGraph, From, q.to, q.hops)
  BY DEF PathInv, SearchIsFine
<1> QED BY <1>1 DEF AnswerFine

\* A path that is answered is a shortest one of the pinned build, and that there
\* is none is answered only when there is none within the bound: a search that
\* ran out of anything says so (path_inner, visit_path_neighbor).
THEOREM PathsAreShortest == ReadingSpec => []PathIsShortest
<1>1. ReaderInv /\ SearchInv /\ PathInv /\ [ReadingNext]_readingVars => (ReaderInv /\ SearchInv /\ PathInv)'
  BY ReaderSteps, PathSteps
<1>2. ReadingInit => ReaderInv /\ SearchInv /\ PathInv
  BY ReaderBegins, PathBegins
<1>3. PathInv => PathIsShortest
  BY PathInvShows
<1> QED BY <1>1, <1>2, <1>3, PTL DEF ReadingSpec
=============================================================================
