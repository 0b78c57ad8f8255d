-------------------------- MODULE IterationLemmas --------------------------
(***************************************************************************)
(* What the proofs about loops need.  A loop over n rounds is a function   *)
(* f[i \in 0..n] == IF i = 0 THEN start ELSE Round(f[i - 1], i); the       *)
(* induction theorems of the library take an operator, which the provers   *)
(* cannot be given, so everything here is about sets and functions.        *)
(***************************************************************************)
EXTENDS Integers, FiniteSets, FiniteSetTheorems, WellFoundedInduction, TLAPS

LEMMA LeastNatural ==
  ASSUME NEW T \in SUBSET Nat, T # {}
  PROVE  \E x \in T : \A y \in T : x <= y
<1>1. \E x \in T : \A y \in T : ~ (<<y, x>> \in OpToRel(<, Nat))
  BY WFMin, NatLessThanWellFounded
<1>2. \A x, y \in Nat : <<y, x>> \in OpToRel(<, Nat) <=> y < x
  BY DEF OpToRel
<1>3. PICK x \in T : \A y \in T : ~ (<<y, x>> \in OpToRel(<, Nat))
  BY <1>1
<1>4. \A y \in T : x \in Nat /\ y \in Nat /\ ~ (y < x)
  BY <1>2, <1>3
<1> QED BY <1>4

LEMMA GreatestNatural ==
  ASSUME NEW n \in Nat, NEW T \in SUBSET (1..n), T # {}
  PROVE  \E x \in T : \A y \in T : y <= x
<1> DEFINE U == {k \in Nat : n - k \in T}
<1>1. U # {}
  <2>1. PICK x \in T : TRUE
    OBVIOUS
  <2>2. n - x \in Nat /\ n - (n - x) = x
    BY <2>1
  <2>3. n - x \in U
    BY <2>1, <2>2
  <2> QED BY <2>3
<1>2. PICK k \in U : \A l \in U : k <= l
  <2>1. U \in SUBSET Nat
    OBVIOUS
  <2> QED BY <1>1, <2>1, LeastNatural
<1>3. ASSUME NEW y \in T PROVE y <= n - k
  <2>1. y \in Nat /\ n - y \in Nat /\ n - (n - y) = y
    OBVIOUS
  <2>2. n - y \in U
    BY <2>1
  <2>3. k <= n - y /\ k \in Nat
    BY <1>2, <2>2
  <2> QED BY <2>1, <2>3
<1>4. n - k \in T
  BY <1>2
<1> QED BY <1>3, <1>4

\* Induction over the rounds: what holds at the start and is kept by every
\* round holds after each of them.  T is the set of rounds where it holds.
LEMMA EveryRound ==
  ASSUME NEW n \in Nat, NEW T, 0 \in T, \A i \in 1..n : i - 1 \in T => i \in T
  PROVE  \A i \in 0..n : i \in T
<1> DEFINE bad == (0..n) \ T
<1> SUFFICES ASSUME bad # {} PROVE FALSE
  OBVIOUS
<1>1. PICK x \in bad : \A y \in bad : x <= y
  <2>1. bad \in SUBSET Nat
    OBVIOUS
  <2> QED BY <2>1, LeastNatural
<1>2. x \in 1..n /\ x - 1 \in 0..n
  BY <1>1
<1>3. x - 1 \in T
  BY <1>1, <1>2
<1> QED BY <1>1, <1>2, <1>3

\* The states of a loop whose rounds stay in S.
RoundsOn(n, S) == [(1..n) \X S -> S]

IsLoop(f, n, S, start, round) ==
  /\ f \in [0..n -> S] /\ f[0] = start
  /\ \A i \in 1..n : f[i] = round[<<i, f[i - 1]>>]

LEMMA RoundsExist ==
  ASSUME NEW n \in Nat, NEW S, NEW start \in S, NEW round \in RoundsOn(n, S)
  PROVE  \E f : IsLoop(f, n, S, start, round)
<1> DEFINE Upto(k, f) == f[0] = start /\ \A i \in 1..k : f[i] = round[<<i, f[i - 1]>>]
           T == {k \in 0..n : \E f \in [0..k -> S] : Upto(k, f)}
<1>1. 0 \in T
  <2> DEFINE f == [i \in 0..0 |-> start]
  <2>1. f \in [0..0 -> S] /\ Upto(0, f)
    OBVIOUS
  <2> HIDE DEF f, Upto
  <2> QED BY <2>1
<1>2. ASSUME NEW i \in 1..n, i - 1 \in T PROVE i \in T
  <2>1. PICK f \in [0..(i - 1) -> S] : Upto(i - 1, f)
    BY <1>2
  <2> DEFINE g == [k \in 0..i |-> IF k = i THEN round[<<i, f[i - 1]>>] ELSE f[k]]
  <2>2. f[i - 1] \in S /\ round[<<i, f[i - 1]>>] \in S
    BY DEF RoundsOn
  <2>3. \A k \in 0..i : k # i => k \in 0..(i - 1)
    OBVIOUS
  <2>4. g \in [0..i -> S]
    BY <2>2, <2>3
  <2>5. g[0] = start
    BY <2>1
  <2>6. ASSUME NEW k \in 1..i PROVE g[k] = round[<<k, g[k - 1]>>]
    <3>1. k - 1 \in 0..i /\ k - 1 # i /\ g[k - 1] = f[k - 1]
      OBVIOUS
    <3>2. CASE k = i
      BY <3>1, <3>2
    <3>3. CASE k # i
      <4>1. k \in 1..(i - 1)
        BY <3>3
      <4> QED BY <4>1, <2>1, <3>1
    <3> QED BY <3>2, <3>3
  <2>7. Upto(i, g)
    BY <2>5, <2>6
  <2> HIDE DEF g, Upto
  <2> QED BY <2>4, <2>7
<1> HIDE DEF T
<1>3. n \in T
  BY <1>1, <1>2, EveryRound
<1> QED BY <1>3 DEF T, IsLoop

\* Among finitely many, as many as they are values of.
LEMMA NoMoreValues ==
  ASSUME NEW S, IsFiniteSet(S), NEW f, NEW T, T \subseteq {f[x] : x \in S}
  PROVE  IsFiniteSet(T) /\ Cardinality(T) <= Cardinality(S)
<1> DEFINE g == [x \in S |-> f[x]]
           V == {f[x] : x \in S}
<1>1. g \in Surjection(S, V)
  BY DEF Surjection
<1>2. IsFiniteSet(V) /\ Cardinality(V) <= Cardinality(S)
  BY <1>1, FS_Surjection
<1>3. IsFiniteSet(T) /\ Cardinality(T) <= Cardinality(V)
  BY <1>2, FS_Subset
<1>4. Cardinality(T) \in Nat /\ Cardinality(V) \in Nat /\ Cardinality(S) \in Nat
  BY <1>2, <1>3, FS_CardinalityType
<1> QED BY <1>2, <1>3, <1>4

\* What one set has at most more than another.
LEMMA NoMoreMembers ==
  ASSUME NEW S, IsFiniteSet(S), NEW T, T \subseteq S
  PROVE  IsFiniteSet(T) /\ Cardinality(T) <= Cardinality(S)
BY FS_Subset

LEMMA OneMoreMember ==
  ASSUME NEW S, IsFiniteSet(S), NEW new, NEW T, T \subseteq S \union {new}
  PROVE  IsFiniteSet(T) /\ Cardinality(T) <= Cardinality(S) + 1
<1>1. /\ IsFiniteSet(S \union {new}) /\ Cardinality(S) \in Nat
      /\ Cardinality(S \union {new}) = IF new \in S THEN Cardinality(S) ELSE Cardinality(S) + 1
  BY FS_AddElement, FS_CardinalityType
<1>2. IsFiniteSet(T) /\ Cardinality(T) <= Cardinality(S \union {new})
  BY <1>1, FS_Subset
<1>3. Cardinality(T) \in Nat
  BY <1>2, FS_CardinalityType
<1> QED BY <1>1, <1>2, <1>3

LEMMA MemberExchanged ==
  ASSUME NEW S, IsFiniteSet(S), NEW old \in S, NEW new, NEW T, T \subseteq (S \ {old}) \union {new}
  PROVE  IsFiniteSet(T) /\ Cardinality(T) <= Cardinality(S)
<1>1. /\ IsFiniteSet(S \ {old}) /\ Cardinality(S) \in Nat
      /\ Cardinality(S \ {old}) = Cardinality(S) - 1
  BY FS_RemoveElement, FS_CardinalityType
<1>2. IsFiniteSet(T) /\ Cardinality(T) <= Cardinality(S \ {old}) + 1
  BY <1>1, OneMoreMember
<1>3. Cardinality(T) \in Nat
  BY <1>2, FS_CardinalityType
<1> QED BY <1>1, <1>2, <1>3

-----------------------------------------------------------------------------
\* Induction over the subsets of a finite set: T is the set of those where
\* something holds, and it holds of s if it does of s without any one element.
LEMMA EverySubset ==
  ASSUME NEW S, IsFiniteSet(S), NEW T, {} \in T,
         \A s \in SUBSET S : (s # {} /\ \A x \in s : s \ {x} \in T) => s \in T
  PROVE  \A s \in SUBSET S : s \in T
<1> DEFINE n == Cardinality(S)
           R == {i \in 0..n : \A s \in SUBSET S : Cardinality(s) = i => s \in T}
<1>1. n \in Nat /\ \A s \in SUBSET S : IsFiniteSet(s) /\ Cardinality(s) \in 0..n
  <2>1. n \in Nat
    BY FS_CardinalityType
  <2>2. ASSUME NEW s \in SUBSET S PROVE IsFiniteSet(s) /\ Cardinality(s) \in 0..n
    <3>1. IsFiniteSet(s) /\ Cardinality(s) <= n
      BY FS_Subset
    <3>2. Cardinality(s) \in Nat
      BY <3>1, FS_CardinalityType
    <3> QED BY <2>1, <3>1, <3>2
  <2> QED BY <2>1, <2>2
<1> HIDE DEF n
<1>2. 0 \in R
  <2>1. \A s \in SUBSET S : Cardinality(s) = 0 => s = {}
    BY <1>1, FS_EmptySet
  <2>2. 0 \in 0..n
    BY <1>1
  <2>3. \A s \in SUBSET S : Cardinality(s) = 0 => s \in T
    BY <2>1
  <2> QED BY <2>2, <2>3
<1>3. ASSUME NEW i \in 1..n, i - 1 \in R PROVE i \in R
  <2>1. ASSUME NEW s \in SUBSET S, Cardinality(s) = i PROVE s \in T
    <3>1. IsFiniteSet(s) /\ s # {}
      BY <2>1, <1>1, FS_EmptySet
    <3>2. ASSUME NEW x \in s PROVE s \ {x} \in T
      <4>1. Cardinality(s \ {x}) = i - 1 /\ s \ {x} \in SUBSET S
        BY <2>1, <3>1, FS_RemoveElement
      <4> QED BY <1>3, <4>1
    <3> QED BY <3>1, <3>2
  <2>2. i \in 0..n
    BY <1>1
  <2> QED BY <2>1, <2>2
<1>4. \A i \in 0..n : i \in R
  <2> HIDE DEF R
  <2> QED BY <1>1, <1>2, <1>3, EveryRound
<1> QED BY <1>1, <1>4

-----------------------------------------------------------------------------
\* Sums over the subsets of S.  sum adds up the values of f, in any order.
Adds(sum, f, S) ==
  /\ sum \in [SUBSET S -> Int] /\ sum[{}] = 0
  /\ \A s \in SUBSET S, x \in S : x \notin s => sum[s \union {x}] = f[x] + sum[s]

LEMMA SumsExist ==
  ASSUME NEW S, IsFiniteSet(S), NEW f \in [S -> Int]
  PROVE  \E sum : Adds(sum, f, S)
<1> DEFINE T == {s \in SUBSET S : \E sum : Adds(sum, f, s)}
<1>1. {} \in T
  <2> DEFINE z == [s \in SUBSET {} |-> 0]
  <2>1. Adds(z, f, {})
    BY DEF Adds
  <2> HIDE DEF z
  <2> QED BY <2>1
<1>2. ASSUME NEW u \in SUBSET S, u # {}, \A x \in u : u \ {x} \in T PROVE u \in T
  <2>a. PICK y \in u : TRUE
    BY <1>2
  <2> DEFINE t == u \ {y}
  <2>b. t \in T /\ u = t \union {y} /\ y \notin t /\ u \subseteq S
    BY <1>2, <2>a
  <2>1. PICK sum : Adds(sum, f, t)
    BY <2>b
  <2> HIDE DEF t
  <2> DEFINE more == [s \in SUBSET u |-> IF y \in s THEN f[y] + sum[s \ {y}] ELSE sum[s]]
  <2>2. /\ sum[{}] = 0 /\ \A s \in SUBSET t : sum[s] \in Int
        /\ \A s \in SUBSET t, x \in t : x \notin s => sum[s \union {x}] = f[x] + sum[s]
    BY <2>1 DEF Adds
  <2>3. \A s \in SUBSET u : s \ {y} \in SUBSET t /\ (y \notin s => s \in SUBSET t)
    BY <2>b
  <2>4. \A s \in SUBSET u : more[s] = IF y \in s THEN f[y] + sum[s \ {y}] ELSE sum[s]
    OBVIOUS
  <2>5. f[y] \in Int /\ \A x \in u : f[x] \in Int
    BY <2>a, <2>b
  <2>6. more \in [SUBSET u -> Int]
    BY <2>2, <2>3, <2>5
  <2>7. {} \in SUBSET u /\ more[{}] = 0
    BY <2>2, <2>4
  <2> HIDE DEF more
  <2>8. ASSUME NEW s \in SUBSET u, NEW x \in u, x \notin s
        PROVE  more[s \union {x}] = f[x] + more[s]
    <3> DEFINE r == s \union {x}
    <3>0. r \in SUBSET u
      OBVIOUS
    <3>1. CASE x = y
      <4>1. y \in r /\ r \ {y} = s /\ y \notin s
        BY <2>8, <3>1
      <4>2. more[r] = f[y] + sum[s] /\ more[s] = sum[s]
        BY <4>1, <3>0, <2>4
      <4> QED BY <4>2, <3>1
    <3>2. CASE x # y /\ y \in s
      <4>1. y \in r /\ r \ {y} = (s \ {y}) \union {x} /\ x \in t /\ x \notin s \ {y} /\ s \ {y} \in SUBSET t
        BY <2>8, <2>b, <3>2
      <4>2. more[r] = f[y] + sum[(s \ {y}) \union {x}] /\ more[s] = f[y] + sum[s \ {y}]
        BY <4>1, <3>0, <3>2, <2>4
      <4>3. sum[(s \ {y}) \union {x}] = f[x] + sum[s \ {y}] /\ sum[s \ {y}] \in Int
        BY <4>1, <2>2
      <4>4. f[x] \in Int /\ f[y] \in Int
        BY <2>5
      <4> HIDE DEF r
      <4>5. f[y] + (f[x] + sum[s \ {y}]) = f[x] + (f[y] + sum[s \ {y}])
        BY <4>3, <4>4
      <4> QED BY <4>2, <4>3, <4>5 DEF r
    <3>3. CASE x # y /\ y \notin s
      <4>1. y \notin r /\ x \in t /\ s \in SUBSET t
        BY <2>8, <2>b, <3>3
      <4>2. more[r] = sum[s \union {x}] /\ more[s] = sum[s]
        BY <4>1, <3>0, <3>3, <2>4
      <4> QED BY <4>1, <4>2, <2>8, <2>2
    <3> QED BY <3>1, <3>2, <3>3
  <2>9. Adds(more, f, u)
    BY <2>6, <2>7, <2>8 DEF Adds
  <2> QED BY <2>9
<1>3. S \in T
  <2> HIDE DEF T
  <2>1. \A s \in SUBSET S : s \in T
    BY <1>1, <1>2, EverySubset
  <2> QED BY <2>1
<1> QED BY <1>3

\* A sum does not depend on which element is taken next: whatever g takes
\* them one by one is that sum.
TakesOneByOne(g, f, S) ==
  g = [s \in SUBSET S |-> IF s = {} THEN 0
                          ELSE f[CHOOSE x \in s : TRUE] + g[s \ {CHOOSE x \in s : TRUE}]]

LEMMA SumTakesOneByOne ==
  ASSUME NEW S, NEW f, NEW sum, Adds(sum, f, S) PROVE TakesOneByOne(sum, f, S)
<1>1. ASSUME NEW s \in SUBSET S
      PROVE  sum[s] = IF s = {} THEN 0 ELSE f[CHOOSE x \in s : TRUE] + sum[s \ {CHOOSE x \in s : TRUE}]
  <2>1. CASE s = {}
    BY <2>1 DEF Adds
  <2>2. CASE s # {}
    <3> DEFINE x == CHOOSE y \in s : TRUE
    <3>1. x \in s
      BY <2>2
    <3> HIDE DEF x
    <3>2. (s \ {x}) \union {x} = s /\ s \ {x} \in SUBSET S /\ x \in S /\ x \notin s \ {x}
      BY <3>1
    <3>3. sum[s] = f[x] + sum[s \ {x}]
      BY <3>2 DEF Adds
    <3> QED BY <2>2, <3>3 DEF x
  <2> QED BY <2>1, <2>2
<1>2. sum = [s \in SUBSET S |-> sum[s]]
  BY DEF Adds
<1>3. [s \in SUBSET S |-> sum[s]]
        = [s \in SUBSET S |-> IF s = {} THEN 0
                              ELSE f[CHOOSE x \in s : TRUE] + sum[s \ {CHOOSE x \in s : TRUE}]]
  BY <1>1
<1> QED BY <1>2, <1>3 DEF TakesOneByOne

LEMMA OneByOneIsTheSum ==
  ASSUME NEW S, IsFiniteSet(S), NEW f, NEW sum, Adds(sum, f, S), NEW g, TakesOneByOne(g, f, S)
  PROVE  g[S] = sum[S]
<1> DEFINE T == {s \in SUBSET S : g[s] = sum[s]}
           first(s) == CHOOSE x \in s : TRUE
<1>1. \A s \in SUBSET S : g[s] = IF s = {} THEN 0 ELSE f[first(s)] + g[s \ {first(s)}]
  BY DEF TakesOneByOne
<1>2. TakesOneByOne(sum, f, S)
  BY SumTakesOneByOne
<1>3. \A s \in SUBSET S : sum[s] = IF s = {} THEN 0 ELSE f[first(s)] + sum[s \ {first(s)}]
  BY <1>2 DEF TakesOneByOne
<1>4. \A s \in SUBSET S : s # {} => first(s) \in s
  OBVIOUS
<1> HIDE DEF first
<1>5. {} \in T
  BY <1>1, <1>3
<1>6. ASSUME NEW s \in SUBSET S, s # {}, \A x \in s : s \ {x} \in T PROVE s \in T
  <2>1. g[s \ {first(s)}] = sum[s \ {first(s)}]
    BY <1>4, <1>6
  <2> QED BY <1>1, <1>3, <1>6, <2>1
<1>7. S \in T
  <2> HIDE DEF T
  <2>1. \A s \in SUBSET S : s \in T
    BY <1>5, <1>6, EverySubset
  <2> QED BY <2>1
<1> QED BY <1>7

\* Sums over fewer elements.
LEMMA SumNarrowed ==
  ASSUME NEW S, NEW f, NEW sum, Adds(sum, f, S), NEW R \in SUBSET S
  PROVE  Adds([s \in SUBSET R |-> sum[s]], f, R)
<1> DEFINE less == [s \in SUBSET R |-> sum[s]]
<1>1. less \in [SUBSET R -> Int] /\ less[{}] = 0
  BY DEF Adds
<1>2. ASSUME NEW s \in SUBSET R, NEW x \in R, x \notin s PROVE less[s \union {x}] = f[x] + less[s]
  <2>1. s \union {x} \in SUBSET R
    OBVIOUS
  <2>2. sum[s \union {x}] = f[x] + sum[s]
    BY <1>2 DEF Adds
  <2> QED BY <2>1, <2>2
<1> QED BY <1>1, <1>2 DEF Adds
=============================================================================
