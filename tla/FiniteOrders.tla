---------------------------- MODULE FiniteOrders ----------------------------
(***************************************************************************)
(* Induction and recursion over the numbers up to a bound, and what "the   *)
(* first k" of a finite ordered set has in it.  The library's induction    *)
(* theorems take an operator as a parameter, which no prover here can      *)
(* instantiate; these take a set or a function, and come from the          *)
(* well-foundedness of strict inclusion.                                   *)
(***************************************************************************)
EXTENDS Integers, FiniteSets, FiniteSetTheorems, TLAPS

\* Some family of subsets of a finite set has a member none of the others is
\* strictly inside of.
LEMMA SmallestSet ==
  ASSUME NEW U, IsFiniteSet(U), NEW Family, Family \subseteq SUBSET U, Family # {}
  PROVE  \E T \in Family : \A V \in Family : V \subseteq T => V = T
<1>1. IsWellFoundedOn(StrictSubsetOrdering(U), SUBSET U)
  BY FS_StrictSubsetOrderingWellFounded, FS_FiniteSubsetsOfFinite
<1>2. PICK T \in Family : \A V \in Family : ~ (<<V, T>> \in StrictSubsetOrdering(U))
  BY <1>1, WFMin
<1> QED BY <1>2 DEF StrictSubsetOrdering

\* A bounded set of naturals has a smallest member.
LEMMA Smallest ==
  ASSUME NEW M \in Nat, NEW S, S \subseteq 0..M, S # {}
  PROVE  \E m \in S : \A k \in S : m <= k
<1> DEFINE Upto(n) == 0..n
           Family == {Upto(n) : n \in S}
<1>1. IsFiniteSet(0..M)
  BY FS_Interval
<1>2. Family # {} /\ \A T \in Family : T \in SUBSET (0..M)
  <2>1. \A n \in S : Upto(n) \in SUBSET (0..M)
    OBVIOUS
  <2>2. \A T \in Family : \E n \in S : T = Upto(n)
    OBVIOUS
  <2>3. PICK n \in S : TRUE
    OBVIOUS
  <2>4. Upto(n) \in Family
    OBVIOUS
  <2> HIDE DEF Family, Upto
  <2> QED BY <2>1, <2>2, <2>4
<1>3. PICK T \in Family : \A V \in Family : V \subseteq T => V = T
  <2> DEFINE U == 0..M
  <2>1. IsFiniteSet(U) /\ Family \subseteq SUBSET U /\ Family # {}
    BY <1>1, <1>2
  <2> HIDE DEF Family, U
  <2> QED BY <2>1, SmallestSet
<1>4. PICK m \in S : T = Upto(m)
  OBVIOUS
<1>5. ASSUME NEW k \in S PROVE m <= k
  <2>1. Upto(k) \subseteq Upto(m) => Upto(k) = Upto(m)
    BY <1>3, <1>4
  <2> SUFFICES ASSUME k < m PROVE FALSE
    OBVIOUS
  <2>2. Upto(k) \subseteq Upto(m) /\ m \in Upto(m) /\ m \notin Upto(k)
    OBVIOUS
  <2> QED BY <2>1, <2>2
<1> QED BY <1>5

\* And a largest one.
LEMMA Largest ==
  ASSUME NEW M \in Nat, NEW S, S \subseteq 0..M, S # {}
  PROVE  \E m \in S : \A k \in S : k <= m
<1> DEFINE Turned == {i \in 0..M : M - i \in S}
<1>1. \A n \in S : M - n \in Turned
  OBVIOUS
<1>2. PICK i \in Turned : \A k \in Turned : i <= k
  <2>1. Turned # {} /\ Turned \subseteq 0..M
    BY <1>1
  <2> QED BY <2>1, Smallest
<1>3. ASSUME NEW k \in S PROVE k <= M - i
  <2>1. i <= M - k
    BY <1>1, <1>2
  <2> QED BY <2>1
<1> QED BY <1>3

\* Induction: a set with 0 and the successor of each of its members.
LEMMA Upwards ==
  ASSUME NEW M \in Nat, NEW S, 0 \in S, \A n \in 1..M : n - 1 \in S => n \in S
  PROVE  \A n \in 0..M : n \in S
<1> DEFINE Bad == {n \in 0..M : n \notin S}
<1> SUFFICES ASSUME Bad # {} PROVE FALSE
  OBVIOUS
<1>1. PICK m \in Bad : \A k \in Bad : m <= k
  <2>1. Bad \subseteq 0..M
    OBVIOUS
  <2> HIDE DEF Bad
  <2> QED BY <2>1, Smallest
<1>2. m \in 1..M /\ m - 1 \in 0..M /\ ~(m <= m - 1)
  OBVIOUS
<1>3. m - 1 \in S
  BY <1>1, <1>2
<1> QED BY <1>2, <1>3

\* Recursion: from a first value and a step for each number, there is a function
\* that takes the steps in turn.
Unrolls(f, M, V, v, next) ==
  /\ f \in [0..M -> V]
  /\ f[0] = v /\ \A n \in 1..M : f[n] = next[n][f[n - 1]]

LEMMA Recursion ==
  ASSUME NEW M \in Nat, NEW V, NEW v \in V, NEW next \in [1..M -> [V -> V]]
  PROVE  \E f : Unrolls(f, M, V, v, next)
<1> DEFINE Good == {k \in 0..M : \E f \in [0..k -> V] :
                      f[0] = v /\ \A n \in 1..k : f[n] = next[n][f[n - 1]]}
<1>1. 0 \in Good
  <2> DEFINE f == [n \in 0..0 |-> v]
  <2>1. f \in [0..0 -> V] /\ f[0] = v /\ 1..0 = {} /\ 0 \in 0..M
    OBVIOUS
  <2> HIDE DEF f
  <2> QED BY <2>1
<1>2. ASSUME NEW k \in 1..M, k - 1 \in Good PROVE k \in Good
  <2>1. PICK f \in [0..(k - 1) -> V] : f[0] = v /\ \A n \in 1..(k - 1) : f[n] = next[n][f[n - 1]]
    BY <1>2
  <2> DEFINE g == [n \in 0..k |-> IF n = k THEN next[k][f[k - 1]] ELSE f[n]]
  <2>2. k - 1 \in 0..(k - 1) /\ k \in 0..k /\ 0 \in 0..k /\ k # 0
    OBVIOUS
  <2>3. f[k - 1] \in V /\ next[k][f[k - 1]] \in V
    BY <2>2
  <2>4. \A n \in 0..k : n # k => n \in 0..(k - 1) /\ g[n] = f[n]
    OBVIOUS
  <2>5. g \in [0..k -> V] /\ g[0] = v /\ g[k] = next[k][f[k - 1]]
    BY <2>1, <2>2, <2>3, <2>4
  <2>6. ASSUME NEW n \in 1..k PROVE g[n] = next[n][g[n - 1]]
    <3>1. n - 1 \in 0..k /\ n - 1 # k
      OBVIOUS
    <3>2. g[n - 1] = f[n - 1]
      BY <2>4, <3>1
    <3>3. CASE n = k
      BY <2>5, <3>2, <3>3
    <3>4. CASE n # k
      <4>1. n \in 1..(k - 1) /\ n \in 0..k
        BY <3>4
      <4> HIDE DEF g
      <4> QED BY <2>1, <2>4, <3>2, <3>4, <4>1
    <3> QED BY <3>3, <3>4
  <2> HIDE DEF g
  <2>7. k \in 0..M
    OBVIOUS
  <2> QED BY <2>5, <2>6, <2>7
<1>3. M \in Good
  <2> HIDE DEF Good
  <2>1. \A n \in 0..M : n \in Good
    BY <1>1, <1>2, Upwards
  <2> QED BY <2>1
<1> QED BY <1>3 DEF Unrolls

-----------------------------------------------------------------------------
\* A strict total order of S, given by what is before each element, and its
\* first k elements.
Ordered(S, before) ==
  /\ before \in [S -> SUBSET S]
  /\ \A x \in S : x \notin before[x]
  /\ \A x, y \in S : x # y => x \in before[y] \/ y \in before[x]
  /\ \A x, y \in S : y \in before[x] => before[y] \subseteq before[x]

FirstOf(S, before, k) == {x \in S : Cardinality(before[x]) < k}

\* An element is before another just if fewer are before it.
LEMMA RankOrders ==
  ASSUME NEW S, IsFiniteSet(S), NEW before, Ordered(S, before)
  PROVE  /\ \A x \in S : Cardinality(before[x]) \in 0..Cardinality(S)
         /\ \A x, y \in S : y \in before[x] <=> Cardinality(before[y]) < Cardinality(before[x])
<1> USE DEF Ordered
<1>1. ASSUME NEW x \in S
      PROVE  /\ IsFiniteSet(before[x]) /\ Cardinality(before[x]) \in Nat
             /\ Cardinality(before[x]) <= Cardinality(S)
  <2>1. before[x] \in SUBSET S
    OBVIOUS
  <2> QED BY <2>1, FS_Subset, FS_CardinalityType
<1>2. ASSUME NEW x \in S, NEW y \in before[x]
      PROVE  Cardinality(before[y]) < Cardinality(before[x])
  <2>1. y \in S /\ before[y] \in SUBSET before[x] /\ before[y] # before[x]
    OBVIOUS
  <2>2. Cardinality(before[y]) <= Cardinality(before[x]) /\ Cardinality(before[y]) # Cardinality(before[x])
    BY <1>1, <2>1, FS_Subset
  <2> QED BY <1>1, <2>1, <2>2
<1>3. ASSUME NEW x \in S, NEW y \in S, Cardinality(before[y]) < Cardinality(before[x])
      PROVE  y \in before[x]
  <2> SUFFICES ASSUME y \notin before[x] PROVE FALSE
    OBVIOUS
  <2>1. CASE x = y
    BY <1>1, <1>3, <2>1
  <2>2. CASE x # y
    <3>1. Cardinality(before[x]) < Cardinality(before[y])
      BY <1>2, <2>2
    <3> QED BY <1>1, <1>3, <3>1
  <2> QED BY <2>1, <2>2
<1>4. Cardinality(S) \in Nat
  BY FS_CardinalityType
<1> QED BY <1>1, <1>2, <1>3, <1>4

\* The first k are k, or all there are.
LEMMA FirstOnes ==
  ASSUME NEW S, IsFiniteSet(S), NEW before, Ordered(S, before), NEW k \in Nat
  PROVE  LET T == FirstOf(S, before, k)
         IN  /\ T \in SUBSET S /\ IsFiniteSet(T) /\ Cardinality(T) \in Nat /\ Cardinality(T) <= k
             /\ T = S \/ Cardinality(T) = k
<1> USE DEF Ordered
<1> DEFINE T == FirstOf(S, before, k)
<1>t. T \in SUBSET S /\ \A x \in S : x \in T <=> Cardinality(before[x]) < k
  BY DEF FirstOf
<1> HIDE DEF T
<1> DEFINE rank(x) == Cardinality(before[x])
<1>0. /\ Cardinality(S) \in Nat
      /\ \A x \in S : rank(x) \in 0..Cardinality(S)
      /\ \A x, y \in S : y \in before[x] <=> rank(y) < rank(x)
  BY RankOrders, FS_CardinalityType
<1>1. T \in SUBSET S /\ IsFiniteSet(T) /\ Cardinality(T) \in Nat
  BY <1>t, FS_Subset, FS_CardinalityType
<1>2. \A x \in S : before[x] \in SUBSET S /\ IsFiniteSet(before[x])
  BY FS_Subset
<1>3. Cardinality(T) <= k
  <2>1. CASE T = {}
    BY <2>1, FS_EmptySet
  <2>2. CASE T # {}
    <3> DEFINE Ranks == {rank(x) : x \in T}
    <3>1. Ranks # {} /\ Ranks \subseteq 0..Cardinality(S)
      BY <1>0, <1>1, <2>2
    <3>2. PICK m \in Ranks : \A i \in Ranks : i <= m
      <4> HIDE DEF Ranks
      <4> QED BY <1>0, <3>1, Largest
    <3>3. PICK x \in T : rank(x) = m
      OBVIOUS
    <3>4. \A y \in T : rank(y) <= rank(x)
      BY <3>2, <3>3
    <3>5. T \in SUBSET (before[x] \cup {x})
      <4> SUFFICES ASSUME NEW y \in T, y # x PROVE y \in before[x]
        OBVIOUS
      <4>1. y \in S /\ x \in S
        BY <1>1
      <4>2. x \in before[y] \/ y \in before[x]
        BY <4>1
      <4>3. x \in before[y] => rank(x) < rank(y)
        BY <1>0, <4>1
      <4>4. rank(x) \in Int /\ rank(y) \in Int /\ rank(y) <= rank(x)
        BY <1>0, <3>4, <4>1
      <4> HIDE DEF rank
      <4> QED BY <4>2, <4>3, <4>4
    <3>6. x \in S /\ rank(x) < k /\ rank(x) \in Nat
      BY <1>0, <1>1, <1>t
    <3>7. IsFiniteSet(before[x] \cup {x}) /\ Cardinality(before[x] \cup {x}) <= rank(x) + 1
      <4>1. rank(x) + 1 <= rank(x) + 1 /\ rank(x) <= rank(x) + 1
        BY <3>6
      <4> QED BY <1>2, <3>6, <4>1, FS_AddElement
    <3>8. Cardinality(T) <= Cardinality(before[x] \cup {x})
      BY <3>5, <3>7, FS_Subset
    <3>9. Cardinality(before[x] \cup {x}) \in Nat
      BY <3>7, FS_CardinalityType
    <3> HIDE DEF rank
    <3> QED BY <1>1, <3>6, <3>7, <3>8, <3>9
  <2> QED BY <2>1, <2>2
<1>4. ASSUME T # S PROVE k <= Cardinality(T)
  <2> DEFINE Ranks == {rank(x) : x \in S \ T}
  <2>1. Ranks # {} /\ Ranks \subseteq 0..Cardinality(S)
    BY <1>0, <1>1, <1>t, <1>4
  <2>2. PICK m \in Ranks : \A i \in Ranks : m <= i
    <3> HIDE DEF Ranks
    <3> QED BY <1>0, <2>1, Smallest
  <2>3. PICK x \in S \ T : rank(x) = m
    OBVIOUS
  <2>4. \A y \in S \ T : rank(x) <= rank(y)
    BY <2>2, <2>3
  <2>5. before[x] \in SUBSET T
    <3> SUFFICES ASSUME NEW y \in before[x], y \notin T PROVE FALSE
      BY <1>2
    <3>1. y \in S /\ rank(y) < rank(x)
      BY <1>0, <1>2
    <3>2. rank(y) \in Int /\ rank(x) \in Int /\ rank(x) <= rank(y)
      BY <1>0, <2>4, <3>1
    <3> HIDE DEF rank
    <3> QED BY <3>1, <3>2
  <2>6. rank(x) >= k /\ rank(x) \in Nat
    BY <1>0, <1>t
  <2>7. rank(x) <= Cardinality(T)
    BY <1>1, <2>5, FS_Subset
  <2> HIDE DEF rank
  <2> QED BY <1>1, <2>6, <2>7
<1>5. T = S \/ Cardinality(T) = k
  BY <1>1, <1>3, <1>4
<1>6. T \in SUBSET S /\ IsFiniteSet(T) /\ Cardinality(T) \in Nat /\ Cardinality(T) <= k
  BY <1>1, <1>3
<1> QED BY <1>5, <1>6 DEF T
================================================================================
