-------------------------- MODULE LocLimiterProofs --------------------------
(* Proofs about LocLimiter. *)
EXTENDS LocLimiter, FiniteSetTheorems, WellFoundedInduction, TLAPS

(***************************************************************************)
(* Sums.  The theorems of the library about folds take the operator they   *)
(* fold as a parameter, which no prover at hand can instantiate.  A sum of *)
(* natural numbers is therefore counted: it is the cardinality of a set of *)
(* units, and what follows is about that set.                              *)
(***************************************************************************)

\* The sum of f over S.
Total(f, S) == MapThenSumSet(LAMBDA x : f[x], S)

\* A unit for each item that f counts: as many as the sum of f over S.
Units(f, S) == {u \in S \X Nat : 1 <= u[2] /\ u[2] <= f[u[1]]}

Counts(f, S) == \A x \in S : f[x] \in Nat

\* The equation that a fold over the subsets of S satisfies.
Some(s) == CHOOSE x \in s : TRUE
IsFold(f, S, g) ==
  g = [s \in SUBSET S |-> IF s = {} THEN 0 ELSE f[Some(s)] + g[s \ {Some(s)}]]

Less == {p \in Nat \X Nat : p[1] < p[2]}

\* Induction over the natural numbers: a set of them has a least one.
LEMMA LessIsWellFounded == IsWellFoundedOn(Less, Nat)
  BY NatLessThanWellFounded DEF OpToRel, Less

\* One element more.
LEMMA UnitsOfOneMore ==
  ASSUME NEW S, IsFiniteSet(S), NEW x, x \notin S, NEW f, f[x] \in Nat,
         IsFiniteSet(Units(f, S))
  PROVE  /\ IsFiniteSet(Units(f, S \union {x}))
         /\ Cardinality(Units(f, S \union {x})) = Cardinality(Units(f, S)) + f[x]
<1> DEFINE U == Units(f, S)  V == {x} \X (1..f[x])
<1>1. IsFiniteSet(1..f[x]) /\ Cardinality(1..f[x]) = f[x]
  <2> SUFFICES ASSUME NEW k \in Nat, k = f[x]
               PROVE  IsFiniteSet(1..k) /\ Cardinality(1..k) = k
    OBVIOUS
  <2>1. 1 \in Int /\ k \in Int  OBVIOUS
  <2>2. IsFiniteSet(1..k) /\ Cardinality(1..k) = IF 1 > k THEN 0 ELSE k - 1 + 1
    BY <2>1, FS_Interval, Zenon
  <2>3. (IF 1 > k THEN 0 ELSE k - 1 + 1) = k  OBVIOUS
  <2> QED BY <2>2, <2>3
<1>2. IsFiniteSet({x}) /\ Cardinality({x}) = 1  BY FS_Singleton
<1>3. IsFiniteSet(V) /\ Cardinality(V) = f[x]
  <2> DEFINE A == {x}  B == 1..f[x]
  <2>1. IsFiniteSet(A) /\ Cardinality(A) = 1 /\ IsFiniteSet(B) /\ Cardinality(B) = f[x]
    BY <1>1, <1>2
  <2> HIDE DEF A, B
  <2>2. IsFiniteSet(A \X B) /\ Cardinality(A \X B) = Cardinality(A) * Cardinality(B)
    BY <2>1, FS_Product, Zenon
  <2>3. IsFiniteSet(A \X B) /\ Cardinality(A \X B) = f[x]
    BY <2>1, <2>2
  <2> QED BY <2>3 DEF A, B
<1>4. Units(f, S \union {x}) = U \union V
  <2>1. \A u \in U \union V : u \in Units(f, S \union {x})
    BY DEF Units
  <2>2. \A u \in Units(f, S \union {x}) : u \in U \union V
    BY DEF Units
  <2> QED BY <2>1, <2>2
<1>5. U \intersect V = {}
  BY DEF Units
<1>6. IsFiniteSet(U \union V) /\ Cardinality(U \union V) = Cardinality(U) + Cardinality(V) - Cardinality({})
  <2> HIDE DEF U, V
  <2>1. IsFiniteSet(U) /\ IsFiniteSet(V)  BY <1>3 DEF U
  <2>2. Cardinality(U \union V) = Cardinality(U) + Cardinality(V) - Cardinality(U \intersect V)
    BY <2>1, FS_Union
  <2> QED BY <1>5, <2>1, <2>2, FS_Union
<1>7. Cardinality({}) = 0  BY FS_EmptySet
<1>8. Cardinality(U) \in Nat  BY FS_CardinalityType
<1>9. Cardinality(U \union V) = Cardinality(U) + f[x]
  <2> HIDE DEF U, V
  <2> QED BY <1>3, <1>6, <1>7, <1>8
<1>10. IsFiniteSet(U \union V)  BY <1>6
<1> HIDE DEF V
<1> QED BY <1>4, <1>9, <1>10, Zenon

\* A finite sum has finitely many units.
LEMMA UnitsAreFinite ==
  ASSUME NEW S, IsFiniteSet(S), NEW f, Counts(f, S)
  PROVE  IsFiniteSet(Units(f, S))
<1> DEFINE Size == {n \in Nat : \E s \in SUBSET S : Cardinality(s) = n /\ ~ IsFiniteSet(Units(f, s))}
<1>1. ASSUME Size # {}  PROVE FALSE
  <2>1. PICK n \in Size : \A k \in Size : ~ (<<k, n>> \in Less)
    BY <1>1, LessIsWellFounded, WFMin
  <2>2. PICK s \in SUBSET S : Cardinality(s) = n /\ ~ IsFiniteSet(Units(f, s))
    BY <2>1
  <2>3. IsFiniteSet(s)  BY FS_Subset
  <2>4. s # {}
    <3>1. Units(f, {}) = {}  BY DEF Units
    <3> QED BY <3>1, <2>2, FS_EmptySet
  <2>5. PICK x : x \in s  BY <2>4
  <2>6. IsFiniteSet(s \ {x}) /\ Cardinality(s \ {x}) = n - 1
    BY <2>2, <2>3, <2>5, FS_RemoveElement
  <2>7. Cardinality(s \ {x}) \in Nat /\ n \in Nat
    BY <2>6, FS_CardinalityType
  <2>8. <<n - 1, n>> \in Less  BY <2>6, <2>7 DEF Less
  <2>9. IsFiniteSet(Units(f, s \ {x}))
    BY <2>1, <2>6, <2>7, <2>8
  <2>10. f[x] \in Nat /\ (s \ {x}) \union {x} = s  BY <2>5 DEF Counts
  <2>11. IsFiniteSet(Units(f, (s \ {x}) \union {x}))
    BY <2>6, <2>9, <2>10, UnitsOfOneMore
  <2> QED BY <2>2, <2>10, <2>11
<1>2. Cardinality(S) \in Nat  BY FS_CardinalityType
<1> QED BY <1>1, <1>2

\* A sum is the number of its units: that number satisfies the equation of the
\* fold, which no other function does.
LEMMA TotalIsCardinality ==
  ASSUME NEW S, IsFiniteSet(S), NEW f, Counts(f, S)
  PROVE  Total(f, S) = Cardinality(Units(f, S))
<1> DEFINE w == [s \in SUBSET S |-> Cardinality(Units(f, s))]
           g == CHOOSE h : IsFold(f, S, h)
<1>1. \A s \in SUBSET S : IsFiniteSet(s) /\ Counts(f, s)
  BY FS_Subset DEF Counts
<1>2. \A s \in SUBSET S : s # {} => Some(s) \in s
  BY DEF Some
<1>3. \A s \in SUBSET S : w[s] = IF s = {} THEN 0 ELSE f[Some(s)] + w[s \ {Some(s)}]
  <2> SUFFICES ASSUME NEW s \in SUBSET S
               PROVE  w[s] = IF s = {} THEN 0 ELSE f[Some(s)] + w[s \ {Some(s)}]
    OBVIOUS
  <2>1. CASE s = {}
    <3>1. Units(f, {}) = {}  BY DEF Units
    <3> QED BY <2>1, <3>1, FS_EmptySet
  <2>2. CASE s # {}
    <3> DEFINE x == Some(s)  r == s \ {x}
    <3>1. x \in s  BY <1>2, <2>2
    <3> HIDE DEF x
    <3>2. r \in SUBSET S /\ x \notin r /\ r \union {x} = s  BY <3>1
    <3>3. IsFiniteSet(r) /\ Counts(f, r) /\ f[x] \in Nat
      BY <1>1, <3>1, <3>2 DEF Counts
    <3>4. IsFiniteSet(Units(f, r))  BY <3>3, UnitsAreFinite
    <3>5. Cardinality(Units(f, r \union {x})) = Cardinality(Units(f, r)) + f[x]
      BY <3>2, <3>3, <3>4, UnitsOfOneMore
    <3>6. Cardinality(Units(f, r)) \in Nat  BY <3>4, FS_CardinalityType
    <3>7. w[s] = Cardinality(Units(f, s)) /\ w[r] = Cardinality(Units(f, r))
      BY <3>2
    <3>8. w[s] = f[x] + w[r]
      <4> HIDE DEF w, r
      <4> QED BY <3>2, <3>3, <3>5, <3>6, <3>7
    <3> QED BY <2>2, <3>8 DEF x
  <2> QED BY <2>1, <2>2
<1>4. IsFold(f, S, w)
  <2> HIDE DEF w
  <2>1. w = [s \in SUBSET S |-> w[s]]  BY DEF w
  <2>2. w = [s \in SUBSET S |-> IF s = {} THEN 0 ELSE f[Some(s)] + w[s \ {Some(s)}]]
    BY <1>3, <2>1
  <2> QED BY <2>2 DEF IsFold
<1>5. IsFold(f, S, g)  BY <1>4
<1>6. \A s \in SUBSET S : g[s] = w[s]
  <2> HIDE DEF w, g
  <2> DEFINE Size == {n \in Nat : \E s \in SUBSET S : Cardinality(s) = n /\ g[s] # w[s]}
  <2>1. ASSUME Size # {}  PROVE FALSE
    <3>1. PICK n \in Size : \A k \in Size : ~ (<<k, n>> \in Less)
      BY <2>1, LessIsWellFounded, WFMin
    <3>2. PICK s \in SUBSET S : Cardinality(s) = n /\ g[s] # w[s]  BY <3>1
    <3>3. g[s] = IF s = {} THEN 0 ELSE f[Some(s)] + g[s \ {Some(s)}]
      BY <1>5 DEF IsFold
    <3>4. s # {}  BY <1>3, <3>2, <3>3
    <3> DEFINE x == Some(s)  r == s \ {x}
    <3>5. x \in s  BY <1>2, <3>4
    <3> HIDE DEF x
    <3>6. r \in SUBSET S /\ Cardinality(r) = n - 1 /\ Cardinality(r) \in Nat
      BY <1>1, <3>2, <3>5, FS_RemoveElement, FS_CardinalityType
    <3>7. <<n - 1, n>> \in Less  BY <3>6 DEF Less
    <3>8. g[r] = w[r]  BY <3>1, <3>6, <3>7
    <3> QED BY <1>3, <3>2, <3>3, <3>4, <3>8 DEF x
  <2>2. \A s \in SUBSET S : Cardinality(s) \in Nat  BY <1>1, FS_CardinalityType
  <2> QED BY <2>1, <2>2
<1>7. Total(f, S) = g[S]
  BY DEF MapThenSumSet, MapThenFoldSet, IsFold, Some, Total
<1> QED BY <1>6, <1>7

\* The sum is a number.
LEMMA TotalType ==
  ASSUME NEW S, IsFiniteSet(S), NEW f, Counts(f, S)
  PROVE  Total(f, S) \in Nat
BY TotalIsCardinality, UnitsAreFinite, FS_CardinalityType

\* One element more.
LEMMA TotalOfOneMore ==
  ASSUME NEW S, IsFiniteSet(S), NEW x, x \notin S, NEW f, Counts(f, S \union {x})
  PROVE  Total(f, S \union {x}) = Total(f, S) + f[x]
<1>1. Counts(f, S) /\ f[x] \in Nat  BY DEF Counts
<1>2. IsFiniteSet(S \union {x})  BY FS_AddElement
<1> QED BY <1>1, <1>2, TotalIsCardinality, UnitsAreFinite, UnitsOfOneMore

\* The sum is that of the values.
LEMMA TotalOfEquals ==
  ASSUME NEW S, IsFiniteSet(S), NEW f, NEW g, Counts(f, S), \A x \in S : f[x] = g[x]
  PROVE  Total(g, S) = Total(f, S)
<1>1. Counts(g, S)  BY DEF Counts
<1>2. Units(f, S) = Units(g, S)  BY DEF Units
<1> QED BY <1>1, <1>2, TotalIsCardinality

\* One value changed.
LEMMA TotalOfUpdate ==
  ASSUME NEW S, IsFiniteSet(S), NEW f, NEW g, Counts(f, S), Counts(g, S),
         NEW x \in S, \A y \in S \ {x} : f[y] = g[y]
  PROVE  Total(g, S) = Total(f, S) - f[x] + g[x]
<1> DEFINE R == S \ {x}
<1>1. IsFiniteSet(R) /\ x \notin R /\ R \union {x} = S  BY FS_RemoveElement
<1>2. Counts(f, R) /\ Counts(g, R)  BY DEF Counts
<1>3. Total(g, R) = Total(f, R)  BY <1>1, <1>2, TotalOfEquals
<1>4. Total(f, R) \in Nat  BY <1>1, <1>2, TotalType
<1> HIDE DEF R
<1>5. Total(f, S) = Total(f, R) + f[x] /\ Total(g, S) = Total(g, R) + g[x]
  BY <1>1, TotalOfOneMore
<1>6. f[x] \in Nat /\ g[x] \in Nat  BY DEF Counts
<1> QED BY <1>3, <1>4, <1>5, <1>6

\* The sum over nothing.
LEMMA TotalOfNone ==
  ASSUME NEW f
  PROVE  Total(f, {}) = 0
<1>1. Units(f, {}) = {}  BY DEF Units
<1>2. IsFiniteSet({}) /\ Counts(f, {})  BY FS_EmptySet DEF Counts
<1> QED BY <1>1, <1>2, TotalIsCardinality, FS_EmptySet

(* Sums over the first ticks of a history. *)

\* A prefix sum is a number that grows with the prefix.
LEMMA PrefixSums ==
  ASSUME NEW H \in Nat, NEW f, \A i \in 1..H : f[i] \in Nat
  PROVE  /\ Total(f, 1..0) = 0
         /\ \A n \in 0..H : Total(f, 1..n) \in Nat
         /\ \A n \in 0..H - 1 : Total(f, 1..n + 1) = Total(f, 1..n) + f[n + 1]
<1>1. 1..0 = {}  OBVIOUS
<1>2. ASSUME NEW n \in 0..H
      PROVE  IsFiniteSet(1..n) /\ Counts(f, 1..n)
  <2>1. 1 \in Int /\ n \in Int  OBVIOUS
  <2>2. IsFiniteSet(1..n)  BY <2>1, FS_Interval
  <2>3. \A i \in 1..n : i \in 1..H  OBVIOUS
  <2> QED BY <2>2, <2>3 DEF Counts
<1>3. ASSUME NEW n \in 0..H - 1
      PROVE  Total(f, 1..n + 1) = Total(f, 1..n) + f[n + 1]
  <2>1. n \in 0..H /\ n + 1 \in 0..H  OBVIOUS
  <2> DEFINE W == 1..n
  <2>2. W \union {n + 1} = 1..n + 1 /\ n + 1 \notin W  OBVIOUS
  <2>3. IsFiniteSet(W) /\ Counts(f, W \union {n + 1})
    BY <1>2, <2>1, <2>2
  <2> HIDE DEF W
  <2>4. Total(f, W \union {n + 1}) = Total(f, W) + f[n + 1]
    BY <2>2, <2>3, TotalOfOneMore
  <2> QED BY <2>2, <2>4 DEF W
<1>4. \A n \in 0..H : Total(f, 1..n) \in Nat  BY <1>2, TotalType
<1>5. Total(f, 1..0) = 0  BY <1>1, TotalOfNone
<1> QED BY <1>3, <1>4, <1>5

\* A longer window holds no less.
LEMMA PrefixGrows ==
  ASSUME NEW H \in Nat, NEW f, \A i \in 1..H : f[i] \in Nat, NEW n \in 0..H - 1
  PROVE  Total(f, 1..n) <= Total(f, 1..n + 1)
<1>1. n \in 0..H /\ n + 1 \in 1..H  OBVIOUS
<1>2. Total(f, 1..n) \in Nat /\ f[n + 1] \in Nat  BY <1>1, PrefixSums
<1>3. Total(f, 1..n + 1) = Total(f, 1..n) + f[n + 1]  BY PrefixSums
<1> QED BY <1>2, <1>3

\* One more in the latest tick is one more in every window.
LEMMA PrefixOfOneMore ==
  ASSUME NEW H \in Nat, NEW f, \A i \in 1..H : f[i] \in Nat,
         NEW g, \A i \in 1..H : g[i] = IF i = 1 THEN f[1] + 1 ELSE f[i], NEW n \in 1..H
  PROVE  Total(g, 1..n) = Total(f, 1..n) + 1
<1>1. 1 \in Int /\ n \in Int  OBVIOUS
<1>2. IsFiniteSet(1..n)  BY <1>1, FS_Interval
<1>3. 1 \in 1..n /\ \A i \in 1..n : i \in 1..H  OBVIOUS
<1>4. Counts(f, 1..n) /\ Counts(g, 1..n)  BY <1>3 DEF Counts
<1>5. \A i \in (1..n) \ {1} : f[i] = g[i]  BY <1>3
<1>6. Total(g, 1..n) = Total(f, 1..n) - f[1] + g[1]
  BY <1>2, <1>3, <1>4, <1>5, TotalOfUpdate
<1>7. Total(f, 1..n) \in Nat  BY <1>2, <1>4, TotalType
<1>8. f[1] \in Nat /\ g[1] = f[1] + 1  BY <1>3
<1> QED BY <1>6, <1>7, <1>8

\* g is f, one tick later.
Shifted(f, g, H) == \A i \in 1..H : g[i] = IF i = 1 THEN 0 ELSE f[i - 1]

\* A tick moves every window by one.
LEMMA PrefixShifts ==
  ASSUME NEW H \in Nat, NEW f, \A i \in 1..H : f[i] \in Nat,
         NEW g, Shifted(f, g, H)
  PROVE  \A n \in 0..H - 1 : Total(g, 1..n + 1) = Total(f, 1..n)
<1>1. \A i \in 1..H : g[i] \in Nat
  <2>1. \A i \in 1..H : i = 1 \/ i - 1 \in 1..H  OBVIOUS
  <2> QED BY <2>1 DEF Shifted
<1> DEFINE Odd == {k \in Nat : k <= H - 1 /\ Total(g, 1..k + 1) # Total(f, 1..k)}
<1>2. ASSUME Odd # {}  PROVE FALSE
  <2>1. PICK k \in Odd : \A j \in Odd : ~ (<<j, k>> \in Less)
    BY <1>2, LessIsWellFounded, WFMin
  <2>2. CASE k = 0
    <3>1. 0 \in 0..H - 1 /\ 1 \in 1..H  BY <2>1, <2>2
    <3>2. Total(g, 1..0 + 1) = Total(g, 1..0) + g[0 + 1]  BY <1>1, <3>1, PrefixSums
    <3>3. Total(g, 1..0) = 0 /\ Total(f, 1..0) = 0  BY <1>1, PrefixSums
    <3>4. g[0 + 1] = 0  BY <3>1 DEF Shifted
    <3> QED BY <2>1, <2>2, <3>2, <3>3, <3>4
  <2>3. CASE k # 0
    <3> DEFINE j == k - 1
    <3>1. j \in Nat /\ j <= H - 1 /\ k = j + 1 /\ k \in 0..H - 1 /\ j \in 0..H - 1 /\ k + 1 \in 1..H
      BY <2>1, <2>3
    <3>2. j \notin Odd
      <4>1. <<j, k>> \in Less  BY <3>1 DEF Less
      <4> QED BY <2>1, <4>1
    <3>3. Total(g, 1..j + 1) = Total(f, 1..j)  BY <3>1, <3>2
    <3>4. Total(g, 1..k + 1) = Total(g, 1..k) + g[k + 1]  BY <1>1, <3>1, PrefixSums
    <3>5. Total(f, 1..j + 1) = Total(f, 1..j) + f[j + 1]  BY <3>1, PrefixSums
    <3>6. g[k + 1] = f[k]
      <4>1. k + 1 # 1 /\ (k + 1) - 1 = k  BY <2>3, <3>1
      <4> QED BY <3>1, <4>1 DEF Shifted
    <3> HIDE DEF j
    <3>7. Total(g, 1..k + 1) = Total(f, 1..k)
      BY <3>1, <3>3, <3>4, <3>5, <3>6
    <3> QED BY <2>1, <3>7
  <2> QED BY <2>2, <2>3
<1> QED BY <1>2
-----------------------------------------------------------------------------
(* Divisions that round up. *)

\* The quotient and its remainder.
LEMMA Division ==
  ASSUME NEW n \in Nat, NEW d \in Nat \ {0}
  PROVE  /\ n \div d \in Nat
         /\ d * (n \div d) <= n
         /\ n < d * (n \div d) + d
OBVIOUS

\* A division that rounds up covers what it divides.
LEMMA Covers ==
  ASSUME NEW n \in Nat, NEW d \in Nat \ {0}
  PROVE  Ceiling(n, d) \in Nat /\ d * Ceiling(n, d) >= n
<1>1. n + d - 1 \in Nat  OBVIOUS
<1> DEFINE q == (n + d - 1) \div d
<1>2. q \in Nat /\ n + d - 1 < d * q + d  BY <1>1, Division
<1>3. d * q \in Nat  BY <1>2
<1> HIDE DEF q
<1>4. d * q >= n  BY <1>2, <1>3
<1> QED BY <1>2, <1>4 DEF q, Ceiling

\* It is monotone.
LEMMA Ordered ==
  ASSUME NEW n \in Nat, NEW m \in Nat, n <= m, NEW d \in Nat \ {0}
  PROVE  Ceiling(n, d) <= Ceiling(m, d)
<1> DEFINE a == n + d - 1  b == m + d - 1 p == a \div d  q == b \div d
<1>1. a \in Nat /\ b \in Nat /\ a <= b  OBVIOUS
<1>2. p \in Nat /\ q \in Nat /\ d * p <= a /\ b < d * q + d
  BY <1>1, Division
<1> HIDE DEF p, q
<1>3. d * p < d * (q + 1)
  <2>1. d * (q + 1) = d * q + d /\ d * p \in Nat /\ d * q \in Nat BY <1>2
  <2> HIDE DEF a, b
  <2> QED BY <1>1, <1>2, <2>1
<1>4. p < q + 1  BY <1>2, <1>3
<1> QED BY <1>2, <1>4 DEF p, q, Ceiling

\* An age that is no more than the window, modulo the window.
LEMMA Remainder ==
  ASSUME NEW n \in Nat \ {0}, NEW a \in 0..n
  PROVE  a % n = IF a = n THEN 0 ELSE a
OBVIOUS
-----------------------------------------------------------------------------
(* The inductive invariant. *)

\* A window of n ticks, in which the bucket was last filled age ticks ago and
\* holds so many tokens of at most limit.
Window(history, n, age, tokens, limit) ==
  /\ Total(history, 1..n) + tokens <= 2 * limit
  /\ Total(history, 1..age) + tokens <= limit

BucketInv ==
  /\ Window(admitted, Minute, minuteAge, minuteTokens, Most(Rpm))
  /\ Window(admitted, Hour, hourAge, hourTokens, Most(Rph))

\* Each request that has been let in since lines remained, and is over now, may
\* have taken the usage past the limit by one charge.
Idle == {r \in Request : pc[r] = "idle"}
OvershootInv ==
  usage < LocLimit \/ usage < LocLimit + Cardinality(Idle) * MaxWeight

IInv ==
  /\ TypeOK
  /\ BucketInv
  /\ OvershootInv
  /\ UnpaidIsBuffered
-----------------------------------------------------------------------------
(* The bucket. *)

\* A client's limit is no more than the largest one.
LEMMA Limits ==
  ASSUME NEW limit \in Nat, NEW client \in Client
  PROVE  Most(limit) \in Nat /\ PerClient(limit, client) \in 0..Most(limit)
<1>1. limit * 3 \in Nat /\ 2 \in Nat \ {0}  OBVIOUS
<1>2. (limit * 3) \div 2 \in Nat /\ limit * 3 < 2 * ((limit * 3) \div 2) + 2
  BY <1>1, Division
<1>3. limit <= (limit * 3) \div 2  BY <1>2
<1> QED BY <1>2, <1>3 DEF Most, PerClient, Client

\* What a reset that is due makes of a bucket.
Filled(n, age, tokens, fill) == IF age >= n THEN fill ELSE tokens

\* A bucket that was reset, and from which nothing was taken for a request.
LEMMA WindowOfReset ==
  ASSUME NEW h, NEW n \in Nat \ {0}, \A i \in 1..n : h[i] \in Nat,
         NEW age \in 0..n, NEW limit \in Nat, NEW tokens \in 0..limit,
         Window(h, n, age, tokens, limit), NEW fill \in 0..limit,
         NEW left \in 0..Filled(n, age, tokens, fill)
  PROVE  Window(h, n, age % n, left, limit)
<1>1. Total(h, 1..0) = 0 /\ Total(h, 1..n) \in Nat /\ Total(h, 1..age) \in Nat
  <2>1. n \in Nat /\ n \in 0..n  OBVIOUS
  <2>2. Total(h, 1..0) = 0 /\ \A k \in 0..n : Total(h, 1..k) \in Nat  BY <2>1, PrefixSums
  <2> QED BY <2>1, <2>2
<1>2. CASE age = n
  <2>1. age % n = 0  BY <1>2, Remainder
  <2>2. Total(h, 1..age % n) = 0  BY <1>1, <2>1
  <2>3. left <= limit /\ left \in Nat  BY <1>2 DEF Filled
  <2>4. Total(h, 1..n) <= limit  BY <1>1, <1>2 DEF Window
  <2> QED BY <1>1, <2>2, <2>3, <2>4 DEF Window
<1>3. CASE age # n
  <2>1. age % n = age  BY <1>3, Remainder
  <2>2. left <= tokens /\ left \in Nat  BY <1>3 DEF Filled
  <2>3. Window(h, n, age, left, limit)  BY <1>1, <2>2 DEF Window
  <2> QED BY <2>1, <2>3
<1> QED BY <1>2, <1>3

\* A bucket from which a token was taken for a request that is let in.
LEMMA WindowOfTake ==
  ASSUME NEW h, NEW n \in Nat \ {0}, \A i \in 1..n : h[i] \in Nat,
         NEW age \in 0..n, NEW limit \in Nat, NEW tokens \in 0..limit,
         Window(h, n, age, tokens, limit), NEW fill \in 0..limit,
         Filled(n, age, tokens, fill) > 0,
         NEW g, \A i \in 1..n : g[i] = IF i = 1 THEN h[1] + 1 ELSE h[i]
  PROVE  Window(g, n, age % n, Filled(n, age, tokens, fill) - 1, limit)
<1> DEFINE t == Filled(n, age, tokens, fill)
<1>1. t \in 0..limit /\ t \in 0..t /\ t \in Nat  BY DEF Filled
<1>2. Window(h, n, age % n, t, limit)  BY <1>1, WindowOfReset
<1>3. age % n \in 0..n /\ n \in 1..n /\ n \in 0..n  BY Remainder
<1>4. Total(g, 1..n) = Total(h, 1..n) + 1  BY <1>3, PrefixOfOneMore
<1>5. \A i \in 1..n : g[i] \in Nat
  <2>1. n \in Nat /\ 1 \in 1..n  OBVIOUS
  <2> QED BY <2>1
<1>6. Total(g, 1..0) = 0 /\ Total(h, 1..0) = 0
  BY <1>5, PrefixSums
<1>7. \A k \in 0..n : Total(g, 1..k) <= Total(h, 1..k) + 1
  <2> TAKE k \in 0..n
  <2>1. CASE k = 0  BY <1>6, <2>1
  <2>2. CASE k # 0
    <3>1. k \in 1..n  BY <2>2
    <3>2. Total(g, 1..k) = Total(h, 1..k) + 1
      <4>1. n \in Nat  OBVIOUS
      <4> QED BY <3>1, <4>1, PrefixOfOneMore, SMTT(60)
    <3>3. Total(h, 1..k) \in Nat  BY PrefixSums
    <3> QED BY <3>2, <3>3
  <2> QED BY <2>1, <2>2
<1>8. /\ Total(h, 1..n) \in Nat /\ Total(h, 1..age % n) \in Nat
      /\ Total(g, 1..n) \in Nat /\ Total(g, 1..age % n) \in Nat
  BY <1>3, <1>5, PrefixSums
<1>9. Total(g, 1..age % n) <= Total(h, 1..age % n) + 1  BY <1>3, <1>7
<1> HIDE DEF t
<1> DEFINE a == age % n
<1>10. Window(g, n, a, t - 1, limit)
  <2>1. /\ Total(h, 1..n) + t <= 2 * limit
        /\ Total(h, 1..a) + t <= limit
    BY <1>2 DEF Window
  <2>2. /\ Total(g, 1..n) + (t - 1) <= 2 * limit
        /\ Total(g, 1..a) + (t - 1) <= limit
    <3> HIDE DEF a
    <3>1. t \in Nat  BY <1>1
    <3>2. Total(h, 1..a) \in Nat /\ Total(g, 1..a) \in Nat /\ Total(g, 1..a) <= Total(h, 1..a) + 1
      BY <1>8, <1>9 DEF a
    <3>3. Total(h, 1..n) \in Nat /\ Total(g, 1..n) = Total(h, 1..n) + 1
      BY <1>4, <1>8
    <3>4. Total(g, 1..a) + (t - 1) <= limit
      BY <2>1, <3>1, <3>2
    <3>5. Total(g, 1..n) + (t - 1) <= 2 * limit
      BY <2>1, <3>1, <3>3
    <3> QED BY <3>4, <3>5
  <2> QED BY <2>2 DEF Window
<1> QED BY <1>10 DEF t

\* A tick later.
LEMMA WindowOfTick ==
  ASSUME NEW h, NEW H \in Nat, NEW n \in 1..H, \A i \in 1..H : h[i] \in Nat,
         NEW age \in 0..n, NEW limit \in Nat, NEW tokens \in 0..limit,
         Window(h, n, age, tokens, limit),
         NEW g, Shifted(h, g, H)
  PROVE  Window(g, n, IF age < n THEN age + 1 ELSE n, tokens, limit)
<1>1. n \in 0..H /\ age \in 0..H  OBVIOUS
<1>2. Total(h, 1..n) \in Nat /\ Total(h, 1..age) \in Nat  BY <1>1, PrefixSums
<1>8. \A k \in 0..H - 1 : Total(g, 1..k + 1) = Total(h, 1..k)
  BY PrefixShifts
<1>3. Total(g, 1..n) <= Total(h, 1..n)
  <2> DEFINE k == n - 1
  <2>1. k \in 0..H - 1 /\ n = k + 1 /\ k \in 0..H  OBVIOUS
  <2>2. Total(g, 1..k + 1) = Total(h, 1..k)  BY <1>8, <2>1
  <2>3. Total(h, 1..k) <= Total(h, 1..k + 1)  BY <2>1, PrefixGrows
  <2> HIDE DEF k
  <2> QED BY <2>1, <2>2, <2>3
<1>4. \A i \in 1..H : g[i] \in Nat
  <2>1. \A i \in 1..H : i = 1 \/ i - 1 \in 1..H  OBVIOUS
  <2> QED BY <2>1 DEF Shifted
<1>5. Total(g, 1..n) \in Nat  BY <1>1, <1>4, PrefixSums
<1>6. CASE age < n
  <2>1. age \in 0..H - 1 /\ age + 1 \in 0..H  BY <1>6
  <2>2. Total(g, 1..age + 1) = Total(h, 1..age)  BY <1>8, <2>1
  <2> QED BY <1>2, <1>3, <1>5, <1>6, <2>2 DEF Window
<1>7. CASE age = n
  <2> QED BY <1>2, <1>3, <1>5, <1>7 DEF Window
<1> QED BY <1>6, <1>7

BucketTypeOK ==
  /\ minuteTokens \in 0..Most(Rpm) /\ hourTokens \in 0..Most(Rph)
  /\ minuteAge \in 0..Minute /\ hourAge \in 0..Hour
  /\ admitted \in [1..Hour -> Nat]

\* What the bucket's variables and constants range over.
LEMMA BucketDomains ==
  ASSUME BucketTypeOK
  PROVE  /\ Most(Rpm) \in Nat /\ Most(Rph) \in Nat
         /\ Minute \in Nat \ {0} /\ Hour \in Nat \ {0} /\ Hour \in Nat
         /\ Minute \in 1..Hour /\ Hour \in 1..Hour
         /\ \A i \in 1..Minute : admitted[i] \in Nat
         /\ \A i \in 1..Hour : admitted[i] \in Nat
<1>1. "cicd" \in Client /\ Rpm \in Nat /\ Rph \in Nat  BY LimiterAssumption DEF Client
<1>2. Most(Rpm) \in Nat /\ Most(Rph) \in Nat  BY <1>1, Limits
<1>3. /\ Minute \in Nat \ {0} /\ Hour \in Nat \ {0} /\ Hour \in Nat
      /\ Minute \in 1..Hour /\ Hour \in 1..Hour
  BY LimiterAssumption
<1>4. \A i \in 1..Hour : admitted[i] \in Nat  BY DEF BucketTypeOK
<1>5. \A i \in 1..Minute : i \in 1..Hour  BY LimiterAssumption
<1> QED BY <1>2, <1>3, <1>4, <1>5

\* What Take does, in terms of resets.
LEMMA TakeFills ==
  ASSUME NEW client \in Client, Take(client), BucketTypeOK
  PROVE  LET m == Filled(Minute, minuteAge, minuteTokens, PerClient(Rpm, client))
             h == Filled(Hour, hourAge, hourTokens, PerClient(Rph, client))
         IN  /\ m \in 0..Most(Rpm) /\ h \in 0..Most(Rph)
             /\ Taken(client) => /\ m > 0 /\ h > 0
                                 /\ minuteTokens' = m - 1 /\ hourTokens' = h - 1
             /\ minuteTokens' \in 0..m /\ hourTokens' \in 0..h
             /\ minuteAge' = minuteAge % Minute /\ hourAge' = hourAge % Hour
             /\ minuteAge' \in 0..Minute /\ hourAge' \in 0..Hour
<1> DEFINE m == Filled(Minute, minuteAge, minuteTokens, PerClient(Rpm, client))
           h == Filled(Hour, hourAge, hourTokens, PerClient(Rph, client))
<1>1. PerClient(Rpm, client) \in 0..Most(Rpm) /\ PerClient(Rph, client) \in 0..Most(Rph)
  BY LimiterAssumption, Limits
<1>2. m \in 0..Most(Rpm) /\ h \in 0..Most(Rph)  BY <1>1 DEF Filled, BucketTypeOK
<1>3. /\ minuteTokens' = IF m > 0 /\ h > 0 THEN m - 1 ELSE m
      /\ hourTokens' = IF m > 0 /\ h > 0 THEN h - 1 ELSE h
      /\ minuteAge' = minuteAge % Minute /\ hourAge' = hourAge % Hour
  BY DEF Take, Filled
<1>4. Taken(client) => m > 0 /\ h > 0
  BY LimiterAssumption DEF Taken, Filled, BucketTypeOK
<1>5. minuteAge % Minute \in 0..Minute /\ hourAge % Hour \in 0..Hour
  <2>1. Minute \in Nat \ {0} /\ minuteAge \in 0..Minute /\ Hour \in Nat \ {0} /\ hourAge \in 0..Hour
    BY LimiterAssumption DEF BucketTypeOK
  <2>2. minuteAge % Minute = IF minuteAge = Minute THEN 0 ELSE minuteAge
    BY <2>1, Remainder
  <2>3. hourAge % Hour = IF hourAge = Hour THEN 0 ELSE hourAge
    BY <2>1, Remainder
  <2> QED BY <2>1, <2>2, <2>3
<1>6. Most(Rpm) \in Nat /\ Most(Rph) \in Nat  BY BucketDomains
<1> HIDE DEF m, h
<1>7. /\ Taken(client) => minuteTokens' = m - 1 /\ hourTokens' = h - 1
      /\ minuteTokens' \in 0..m /\ hourTokens' \in 0..h
  BY <1>2, <1>3, <1>4, <1>6
<1> QED BY <1>2, <1>3, <1>4, <1>5, <1>7 DEF m, h

\* A request that is refused leaves the windows bounded, whether or not it took
\* tokens.
LEMMA TakeForNobody ==
  ASSUME BucketTypeOK, BucketInv, NEW client \in Client, Take(client), UNCHANGED admitted
  PROVE  BucketTypeOK' /\ BucketInv'
<1> DEFINE m == Filled(Minute, minuteAge, minuteTokens, PerClient(Rpm, client))
           h == Filled(Hour, hourAge, hourTokens, PerClient(Rph, client))
<1>1. PerClient(Rpm, client) \in 0..Most(Rpm) /\ PerClient(Rph, client) \in 0..Most(Rph)
  BY LimiterAssumption, Limits
<1>2. /\ m \in 0..Most(Rpm) /\ h \in 0..Most(Rph)
      /\ minuteTokens' \in 0..m /\ hourTokens' \in 0..h
      /\ minuteAge' = minuteAge % Minute /\ hourAge' = hourAge % Hour
      /\ minuteAge' \in 0..Minute /\ hourAge' \in 0..Hour
  BY TakeFills
<1>3. BucketTypeOK'
  <2> HIDE DEF m, h
  <2>1. Most(Rpm) \in Nat /\ Most(Rph) \in Nat  BY BucketDomains
  <2>2. minuteTokens' \in 0..Most(Rpm) /\ hourTokens' \in 0..Most(Rph)  BY <1>2, <2>1
  <2> QED BY <1>2, <2>2 DEF BucketTypeOK
<1>4. Window(admitted, Minute, minuteAge % Minute, minuteTokens', Most(Rpm))
  BY <1>1, <1>2, BucketDomains, WindowOfReset DEF BucketInv, BucketTypeOK
<1>5. Window(admitted, Hour, hourAge % Hour, hourTokens', Most(Rph))
  BY <1>1, <1>2, BucketDomains, WindowOfReset DEF BucketInv, BucketTypeOK
<1> QED BY <1>2, <1>3, <1>4, <1>5 DEF BucketInv

\* So does a request that is let in.
LEMMA TakeForOne ==
  ASSUME BucketTypeOK, BucketInv, NEW client \in Client, Take(client), Taken(client),
         admitted' = [admitted EXCEPT ![1] = @ + 1]
  PROVE  BucketTypeOK' /\ BucketInv'
<1> DEFINE m == Filled(Minute, minuteAge, minuteTokens, PerClient(Rpm, client))
           h == Filled(Hour, hourAge, hourTokens, PerClient(Rph, client))
<1>1. PerClient(Rpm, client) \in 0..Most(Rpm) /\ PerClient(Rph, client) \in 0..Most(Rph)
  BY LimiterAssumption, Limits
<1>2. /\ m \in 0..Most(Rpm) /\ h \in 0..Most(Rph)
      /\ m > 0 /\ h > 0
      /\ minuteTokens' = m - 1 /\ hourTokens' = h - 1
      /\ minuteAge' = minuteAge % Minute /\ hourAge' = hourAge % Hour
      /\ minuteAge' \in 0..Minute /\ hourAge' \in 0..Hour
  BY TakeFills
<1>3. /\ \A i \in 1..Hour : admitted'[i] = IF i = 1 THEN admitted[1] + 1 ELSE admitted[i]
      /\ \A i \in 1..Minute : admitted'[i] = IF i = 1 THEN admitted[1] + 1 ELSE admitted[i]
  <2>1. \A i \in 1..Minute : i \in 1..Hour  BY LimiterAssumption
  <2> QED BY <2>1 DEF BucketTypeOK
<1>4. BucketTypeOK'
  <2> HIDE DEF m, h
  <2>1. Most(Rpm) \in Nat /\ Most(Rph) \in Nat /\ 1 \in 1..Hour  BY BucketDomains
  <2>2. minuteTokens' \in 0..Most(Rpm) /\ hourTokens' \in 0..Most(Rph)  BY <1>2, <2>1
  <2>3. admitted' \in [1..Hour -> Nat]  BY <2>1 DEF BucketTypeOK
  <2> QED BY <1>2, <2>2, <2>3 DEF BucketTypeOK
<1>5. Window(admitted', Minute, minuteAge % Minute, minuteTokens', Most(Rpm))
  BY <1>1, <1>2, <1>3, BucketDomains, WindowOfTake DEF BucketInv, BucketTypeOK
<1>6. Window(admitted', Hour, hourAge % Hour, hourTokens', Most(Rph))
  BY <1>1, <1>2, <1>3, BucketDomains, WindowOfTake DEF BucketInv, BucketTypeOK
<1> QED BY <1>2, <1>4, <1>5, <1>6 DEF BucketInv

\* So does a tick.
LEMMA TickOfBucket ==
  ASSUME BucketTypeOK, BucketInv, Tick
  PROVE  BucketTypeOK' /\ BucketInv'
<1>1. Shifted(admitted, admitted', Hour)  BY DEF Tick, Shifted, BucketTypeOK
<1>2. BucketTypeOK'
  <2>1. minuteAge' \in 0..Minute /\ hourAge' \in 0..Hour
    BY LimiterAssumption DEF Tick, BucketTypeOK
  <2>2. \A i \in 1..Hour : i = 1 \/ i - 1 \in 1..Hour  BY LimiterAssumption
  <2>3. admitted' \in [1..Hour -> Nat]  BY <2>2 DEF Tick, BucketTypeOK
  <2> QED BY <2>1, <2>3 DEF Tick, BucketTypeOK
<1>3. Window(admitted', Minute, minuteAge', minuteTokens, Most(Rpm))
  <2>1. Window(admitted', Minute, IF minuteAge < Minute THEN minuteAge + 1 ELSE Minute, minuteTokens, Most(Rpm))
    BY <1>1, BucketDomains, WindowOfTick DEF BucketInv, BucketTypeOK
  <2> QED BY <2>1 DEF Tick
<1>4. Window(admitted', Hour, hourAge', hourTokens, Most(Rph))
  <2>1. Window(admitted', Hour, IF hourAge < Hour THEN hourAge + 1 ELSE Hour, hourTokens, Most(Rph))
    BY <1>1, BucketDomains, WindowOfTick DEF BucketInv, BucketTypeOK
  <2> QED BY <2>1 DEF Tick
<1> QED BY <1>2, <1>3, <1>4 DEF BucketInv, Tick

\* Where nothing happened the sums are zero.
LEMMA Nothing ==
  ASSUME NEW H \in Nat, NEW f, f = [i \in 1..H |-> 0]
  PROVE  \A n \in 0..H : Total(f, 1..n) = 0
<1>1. \A i \in 1..H : f[i] \in Nat  OBVIOUS
<1> DEFINE Odd == {k \in Nat : k <= H /\ Total(f, 1..k) # 0}
<1>2. ASSUME Odd # {}  PROVE FALSE
  <2>1. PICK k \in Odd : \A j \in Odd : ~ (<<j, k>> \in Less)
    BY <1>2, LessIsWellFounded, WFMin
  <2>2. Total(f, 1..0) = 0  BY <1>1, PrefixSums
  <2>3. k # 0  BY <2>1, <2>2
  <2> DEFINE j == k - 1
  <2>4. j \in Nat /\ j <= H /\ k = j + 1 /\ j \in 0..H - 1 /\ k \in 1..H
    BY <2>1, <2>3
  <2>5. <<j, k>> \in Less  BY <2>4 DEF Less
  <2>6. Total(f, 1..j) = 0  BY <2>1, <2>4, <2>5
  <2> HIDE DEF j
  <2>7. Total(f, 1..j + 1) = Total(f, 1..j) + f[j + 1]  BY <1>1, <2>4, PrefixSums
  <2>8. f[j + 1] = 0  BY <2>4
  <2> QED BY <2>1, <2>4, <2>6, <2>7, <2>8
<1> QED BY <1>2

\* An empty history and a bucket that is due for both resets.
LEMMA BucketOfNone ==
  ASSUME minuteTokens = 0, hourTokens = 0, minuteAge = Minute, hourAge = Hour,
         admitted = [i \in 1..Hour |-> 0]
  PROVE  BucketTypeOK /\ BucketInv
<1>1. BucketTypeOK
  <2>1. "cicd" \in Client /\ Rpm \in Nat /\ Rph \in Nat  BY LimiterAssumption DEF Client
  <2>2. Most(Rpm) \in Nat /\ Most(Rph) \in Nat  BY <2>1, Limits
  <2> QED BY <2>2, LimiterAssumption DEF BucketTypeOK
<1>2. \A n \in 0..Hour : Total(admitted, 1..n) = 0
  BY <1>1, BucketDomains, Nothing
<1>3. Minute \in 0..Hour /\ Hour \in 0..Hour  BY LimiterAssumption
<1>4. Total(admitted, 1..Minute) = 0 /\ Total(admitted, 1..Hour) = 0  BY <1>2, <1>3
<1>5. Most(Rpm) \in Nat /\ Most(Rph) \in Nat  BY <1>1, BucketDomains
<1> QED BY <1>1, <1>4, <1>5 DEF BucketInv, Window

\* So does a step that does not touch the bucket.
LEMMA BucketStays ==
  ASSUME BucketTypeOK, BucketInv, UNCHANGED <<bucketVars, admitted>>
  PROVE  BucketTypeOK' /\ BucketInv'
BY DEF BucketTypeOK, BucketInv, bucketVars
-----------------------------------------------------------------------------
(* Weights and charges. *)

\* Half of a multiplier is at least one: what is charged covers the characters.
LEMMA WeightCovers ==
  ASSUME NEW chars \in Nat, NEW half \in Multipliers
  PROVE  /\ Weight(chars, half) \in Nat
         /\ LineSize * Weight(chars, half) \in Nat
         /\ LineSize * Weight(chars, half) >= chars
<1> DEFINE c == Ceiling(chars, LineSize)  w == Ceiling(c * half, 2)
<1>1. c \in Nat /\ LineSize * c >= chars  BY LimiterAssumption, Covers
<1> HIDE DEF c
<1>2. c * half \in Nat /\ c * half >= 2 * c  BY <1>1 DEF Multipliers
<1>3. w \in Nat /\ 2 * w >= c * half  BY <1>2, Covers
<1> HIDE DEF w
<1>4. w >= c  BY <1>1, <1>2, <1>3
<1>5. LineSize * w \in Nat /\ LineSize * w >= LineSize * c
  BY <1>1, <1>3, <1>4, LimiterAssumption
<1>6. LineSize * c \in Nat  BY <1>1, LimiterAssumption
<1>7. LineSize * w >= chars  BY <1>1, <1>5, <1>6
<1> QED BY <1>3, <1>5, <1>7 DEF c, w, Weight

\* No charge is larger than that for the longest line and the larger multiplier.
LEMMA WeightOrdered ==
  ASSUME NEW chars \in Nat, chars <= MaxBuffer + MaxPart, NEW half \in Multipliers
  PROVE  Weight(chars, half) <= MaxWeight
<1> DEFINE c == Ceiling(chars, LineSize)  d == Ceiling(MaxBuffer + MaxPart, LineSize)
<1>1. MaxBuffer + MaxPart \in Nat /\ LineSize \in Nat \ {0}  BY LimiterAssumption
<1>2. c \in Nat /\ d \in Nat /\ c <= d  BY <1>1, Covers, Ordered
<1> HIDE DEF c, d
<1>3. c * half \in Nat /\ d * 4 \in Nat /\ c * half <= d * 4  BY <1>2 DEF Multipliers
<1>4. Ceiling(c * half, 2) <= Ceiling(d * 4, 2)  BY <1>3, Ordered
<1> QED BY <1>4 DEF c, d, Weight, MaxWeight

\* Nothing is charged for no characters.
LEMMA WeightOfNothing ==
  ASSUME NEW half \in Multipliers
  PROVE  Weight(0, half) = 0
<1>1. Ceiling(0, LineSize) = 0
  <2>1. 0 + LineSize - 1 \in Nat /\ LineSize \in Nat \ {0}  BY LimiterAssumption
  <2> DEFINE q == (0 + LineSize - 1) \div LineSize
  <2>2. q \in Nat /\ LineSize * q <= 0 + LineSize - 1  BY <2>1, Division
  <2>4. Ceiling(0, LineSize) = q  BY DEF Ceiling
  <2> HIDE DEF q
  <2>3. q = 0
    <3>1. q >= 1 => LineSize * q >= LineSize  BY <2>1, <2>2
    <3>2. LineSize * q \in Nat  BY <2>1, <2>2
    <3> QED BY <2>1, <2>2, <3>1, <3>2
  <2> QED BY <2>3, <2>4
<1>2. 0 * half = 0  BY DEF Multipliers
<1>3. Ceiling(0, 2) = 0  BY DEF Ceiling
<1> QED BY <1>1, <1>2, <1>3 DEF Weight

\* The largest charge is a number.
LEMMA MaxWeightType == MaxWeight \in Nat
<1>1. MaxBuffer + MaxPart \in Nat /\ 4 \in Multipliers  BY LimiterAssumption DEF Multipliers
<1> QED BY <1>1, WeightCovers DEF MaxWeight

\* The multiplier of a model is one of the two.
LEMMA HalfType ==
  ASSUME RegistryTypeOK, NEW m
  PROVE  Half(m) \in Multipliers
<1>1. Registry(m) \in Listings  BY DEF RegistryTypeOK, Registry, Load
<1>2. PICK S \in SUBSET Model : Registry(m) \in [S -> Config]  BY <1>1 DEF Listings
<1>3. ASSUME m \in DOMAIN Registry(m)  PROVE Registry(m)[m].half \in Multipliers
  BY <1>2, <1>3 DEF Config
<1> QED BY <1>3 DEF Half, Multipliers
-----------------------------------------------------------------------------
(* The registry. *)

\* Loading the registry keeps its type.
LEMMA RegistryLoads ==
  ASSUME RegistryTypeOK, NEW m, UNCHANGED <<file, changes>>, models' = Registry(m)
  PROVE  RegistryTypeOK'
BY DEF RegistryTypeOK, Registry, Load

\* What a listing is.
LEMMA ListingsOf ==
  ASSUME NEW S \in SUBSET Model, NEW f \in [S -> Config]
  PROVE  f \in Listings
BY DEF Listings

\* Neither the script nor the operator touches what the gateway knows.
LEMMA RegistryChanges ==
  ASSUME RegistryTypeOK, Curate \/ Edit
  PROVE  RegistryTypeOK' /\ UNCHANGED models
<1>1. CASE Curate
  <2>1. PICK S \in SUBSET Model : \E offered \in [S -> Price] :
          LET listed  == DOMAIN file
              updated == {m \in listed \intersect S : file[m].price # offered[m]}
          IN file' = [m \in updated \union (S \ listed) |->
                        IF m \in updated THEN [file[m] EXCEPT !.price = offered[m]]
                                         ELSE Curated(offered[m])]
    BY <1>1 DEF Curate
  <2>2. PICK offered \in [S -> Price] :
          LET listed  == DOMAIN file
              updated == {m \in listed \intersect S : file[m].price # offered[m]}
          IN file' = [m \in updated \union (S \ listed) |->
                        IF m \in updated THEN [file[m] EXCEPT !.price = offered[m]]
                                         ELSE Curated(offered[m])]
    BY <2>1
  <2> DEFINE listed  == DOMAIN file
             updated == {m \in listed \intersect S : file[m].price # offered[m]}
             all == updated \union (S \ listed)
  <2>3. file \in Listings  BY <1>1 DEF Curate, RegistryTypeOK
  <2>4. PICK T \in SUBSET Model : file \in [T -> Config]  BY <2>3 DEF Listings
  <2>5. \A m \in updated : [file[m] EXCEPT !.price = offered[m]] \in Config
    <3> TAKE m \in updated
    <3>1. file[m] \in Config /\ offered[m] \in Price  BY <2>4
    <3> QED BY <3>1 DEF Config
  <2>6. \A m \in S : Curated(offered[m]) \in Config
    BY DEF Curated, Config, Price, Multipliers
  <2>7. all \in SUBSET Model  OBVIOUS
  <2>8. file' \in [all -> Config]
    <3>1. file' = [m \in all |-> IF m \in updated THEN [file[m] EXCEPT !.price = offered[m]]
                                                  ELSE Curated(offered[m])]
      BY <2>2
    <3>2. \A m \in all : m \in updated \/ m \in S  OBVIOUS
    <3> HIDE DEF updated, all
    <3> QED BY <2>5, <2>6, <3>1, <3>2
  <2> HIDE DEF all
  <2>9. file' \in Listings  BY <2>7, <2>8, ListingsOf
  <2>10. changes' \in 0..MaxChanges  BY <1>1, ChangesAssumption DEF Curate, RegistryTypeOK
  <2> QED BY <1>1, <2>9, <2>10 DEF Curate, RegistryTypeOK
<1>2. CASE Edit
  <2>1. changes' \in 0..MaxChanges  BY <1>2, ChangesAssumption DEF Edit, RegistryTypeOK
  <2>2. CASE file # Corrupt /\ \E m \in DOMAIN file : file' = [file EXCEPT ![m].active = ~ @]
    <3>1. PICK m \in DOMAIN file : file' = [file EXCEPT ![m].active = ~ @]  BY <2>2
    <3>2. file \in Listings  BY <2>2 DEF RegistryTypeOK
    <3>3. PICK T \in SUBSET Model : file \in [T -> Config]  BY <3>2 DEF Listings
    <3>4. [file[m] EXCEPT !.active = ~ @] \in Config
      <4>1. file[m] \in Config  BY <3>3
      <4> QED BY <4>1 DEF Config
    <3>5. file' \in [T -> Config]
      <4> DEFINE c == [file[m] EXCEPT !.active = ~ @]
      <4>1. file' = [file EXCEPT ![m] = c]  BY <3>1
      <4> HIDE DEF c
      <4> QED BY <3>3, <3>4, <4>1 DEF c
    <3>6. file' \in Listings  BY <3>5, ListingsOf
    <3> QED BY <1>2, <2>1, <3>6 DEF Edit, RegistryTypeOK
  <2>3. CASE file' = Corrupt
    BY <1>2, <2>1, <2>3 DEF Edit, RegistryTypeOK
  <2> QED BY <1>2, <2>2, <2>3 DEF Edit
<1> QED BY <1>1, <1>2

\* No listing is Corrupt, so what the registry knows at first are models.
LEMMA RegistryAtFirst ==
  ASSUME file \in [Model -> {Curated(p) : p \in Price}], models = file, changes = 0
  PROVE  RegistryTypeOK
<1>1. {Curated(p) : p \in Price} \subseteq Config
  <2>1. ASSUME NEW p \in Price  PROVE Curated(p) \in Config
    BY DEF Curated, Config, Price, Multipliers
  <2> QED BY <2>1
<1>2. file \in [Model -> Config]  BY <1>1
<1>3. file \in Listings  BY <1>2, ListingsOf
<1> QED BY <1>3, ChangesAssumption DEF RegistryTypeOK
-----------------------------------------------------------------------------
(* Requests: the overshoot, the buffers, and what was delivered. *)

RequestTypeOK ==
  /\ bytes \in BOOLEAN
  /\ usage \in Nat
  /\ pc \in [Request -> {"idle", "admitted", "stream"}]
  /\ model \in [Request -> Model]
  /\ buffered \in [Request -> 0..MaxBuffer]
  /\ unpaid \in [Request -> Nat]

\* The type invariant, in parts.
LEMMA TypeParts == TypeOK <=> RegistryTypeOK /\ BucketTypeOK /\ RequestTypeOK
BY DEF TypeOK, BucketTypeOK, RequestTypeOK

\* A request that is over makes room for one more charge above the limit.
LEMMA IdleGrows ==
  ASSUME RequestTypeOK, NEW r \in Request, pc[r] # "idle",
         pc' = [pc EXCEPT ![r] = "idle"]
  PROVE  /\ Cardinality(Idle) \in Nat
         /\ Cardinality(Idle)' = Cardinality(Idle) + 1
<1>1. IsFiniteSet(Idle)  BY LimiterAssumption, FS_Subset DEF Idle
<1>2. r \notin Idle /\ Idle' = Idle \union {r}  BY DEF Idle, RequestTypeOK
<1>3. Cardinality(Idle) \in Nat  BY <1>1, FS_CardinalityType
<1>4. Cardinality(Idle \union {r}) = Cardinality(Idle) + 1
  BY <1>1, <1>2, FS_AddElement
<1> QED BY <1>2, <1>3, <1>4

\* A request that ends with a charge.
LEMMA ChargeAndGo ==
  ASSUME RequestTypeOK, RequestTypeOK', OvershootInv, NEW r \in Request, pc[r] # "idle",
         pc' = [pc EXCEPT ![r] = "idle"],
         NEW w \in Nat, w <= MaxWeight, usage' = usage + w
  PROVE  OvershootInv'
<1> DEFINE k == Cardinality(Idle)
<1>1. k \in Nat /\ k' = k + 1  BY IdleGrows
<1>2. usage < LocLimit \/ usage < LocLimit + k * MaxWeight  BY DEF OvershootInv
<1>3. MaxWeight' = MaxWeight /\ MaxWeight \in Nat  BY MaxWeightType
<1> HIDE DEF k
<1>4. (k + 1) * MaxWeight = k * MaxWeight + MaxWeight /\ k * MaxWeight \in Nat  BY <1>1, <1>3
<1>5. usage \in Nat /\ LocLimit \in Nat  BY LimiterAssumption DEF RequestTypeOK
<1>6. usage + w < LocLimit + (k + 1) * MaxWeight
  BY <1>1, <1>2, <1>3, <1>4, <1>5
<1> QED BY <1>1, <1>6 DEF OvershootInv, k

\* A step that charges nothing and ends nothing.
LEMMA OvershootStays ==
  ASSUME OvershootInv, UNCHANGED <<usage, pc>>
  PROVE  OvershootInv'
BY DEF OvershootInv, Idle

\* A character passed on is charged with the line it belongs to, or waits.
LEMMA NewText ==
  ASSUME RegistryTypeOK, RequestTypeOK, NEW r \in Request,
         NEW done \in 0..MaxPart, NEW rest \in 0..MaxPart
  PROVE  LET chars == NewChars(r, done, rest)
             left == NewBuffer(r, done, rest)
             charged == Weight(chars, Half(model[r]))
         IN  /\ left \in Nat
             /\ charged \in Nat /\ charged <= MaxWeight
             /\ LineSize * charged \in Nat
             /\ charged > 0 => LineSize * charged >= buffered[r] + done
             /\ buffered[r] + done + rest <= left + LineSize * charged
<1> DEFINE chars == NewChars(r, done, rest)
           left == NewBuffer(r, done, rest)
           half == Half(model[r])
           charged == Weight(chars, half)
<1>1. half \in Multipliers  BY HalfType
<1>2. buffered[r] \in Nat /\ buffered[r] <= MaxBuffer /\ done \in Nat /\ rest \in Nat
      /\ done <= MaxPart /\ rest <= MaxPart /\ MaxPart \in Nat /\ MaxBuffer \in Nat
  BY LimiterAssumption DEF RequestTypeOK
<1>3. chars \in Nat /\ chars <= MaxBuffer + MaxPart  BY <1>2 DEF NewChars
<1>4. charged \in Nat /\ charged <= MaxWeight
      /\ LineSize * charged \in Nat /\ LineSize * charged >= chars
  BY <1>1, <1>3, WeightCovers, WeightOrdered
<1>5. bytes \/ done = 0 => charged = 0
  BY <1>1, WeightOfNothing DEF NewChars
<1>6. ~ (bytes \/ done = 0) => chars = buffered[r] + done  BY DEF NewChars
<1>7. Digits * (done + rest) \in Nat /\ Digits * (done + rest) >= done + rest
  BY <1>2, LimiterAssumption
<1>8. bytes => left = buffered[r] + Digits * (done + rest)  BY DEF NewBuffer
<1>9. ~ bytes => left = IF done = 0 THEN buffered[r] + rest ELSE rest  BY DEF NewBuffer
<1>10. left \in Nat  BY <1>2, <1>7, <1>8, <1>9
<1> HIDE DEF chars, left, half, charged
<1>11. charged > 0 => LineSize * charged >= buffered[r] + done
  BY <1>4, <1>5, <1>6
<1>12. buffered[r] + done + rest <= left + LineSize * charged
  BY <1>2, <1>4, <1>5, <1>6, <1>7, <1>8, <1>9
<1> QED BY <1>4, <1>10, <1>11, <1>12 DEF chars, left, half, charged

\* The types when a request ends.
LEMMA LeaveKeeps ==
  ASSUME RequestTypeOK, NEW r \in Request, Leave(r), usage' \in Nat,
         unpaid' \in [Request -> Nat]
  PROVE  RequestTypeOK'
<1>1. buffered' \in [Request -> 0..MaxBuffer]  BY LimiterAssumption DEF RequestTypeOK, Leave
<1>2. pc' \in [Request -> {"idle", "admitted", "stream"}]  BY DEF RequestTypeOK, Leave
<1>3. UNCHANGED <<bytes, model>>  BY DEF Leave
<1> QED BY <1>1, <1>2, <1>3 DEF RequestTypeOK

-----------------------------------------------------------------------------
(* The steps. *)

\* A step that charges, buffers and pays nothing.
LEMMA FrameOfRequests ==
  ASSUME RequestTypeOK, UnpaidIsBuffered, UNCHANGED <<bytes, usage, buffered, unpaid>>,
         pc' \in [Request -> {"idle", "admitted", "stream"}], model' \in [Request -> Model]
  PROVE  RequestTypeOK' /\ UnpaidIsBuffered'
<1>1. RequestTypeOK'  BY DEF RequestTypeOK
<1>2. UnpaidIsBuffered'  BY DEF UnpaidIsBuffered
<1> QED BY <1>1, <1>2

\* The invariant holds at first.
LEMMA AtFirst == Init => IInv
<1> SUFFICES ASSUME Init  PROVE IInv
  OBVIOUS
<1>1. RegistryTypeOK  BY RegistryAtFirst DEF Init
<1>2. BucketTypeOK /\ BucketInv  BY BucketOfNone DEF Init, Fresh
<1>3. RequestTypeOK  BY LimiterAssumption DEF Init, RequestTypeOK
<1>4. OvershootInv  BY LimiterAssumption DEF Init, OvershootInv
<1>5. UnpaidIsBuffered  BY DEF Init, UnpaidIsBuffered
<1> QED BY <1>1, <1>2, <1>3, <1>4, <1>5, TypeParts DEF IInv

\* One lemma for each action: it keeps the invariant.
LEMMA StepRefuseModel ==
  ASSUME IInv, NEW r \in Request, NEW m \in Model, RefuseModel(r, m)
  PROVE  IInv'
<1>1. RegistryTypeOK /\ BucketTypeOK /\ RequestTypeOK  BY TypeParts DEF IInv
<1>2. RegistryTypeOK'  BY <1>1, RegistryLoads DEF RefuseModel
<1>3. BucketTypeOK' /\ BucketInv'
  BY <1>1, BucketStays DEF IInv, RefuseModel, historyVars
<1>4. RequestTypeOK' /\ UnpaidIsBuffered'
  BY <1>1, FrameOfRequests DEF IInv, RefuseModel, RequestTypeOK, requestVars, historyVars
<1>5. OvershootInv'  BY OvershootStays DEF IInv, RefuseModel, requestVars
<1>6. TypeOK'  BY <1>2, <1>3, <1>4 DEF TypeOK, BucketTypeOK, RequestTypeOK
<1> QED BY <1>3, <1>4, <1>5, <1>6 DEF IInv

LEMMA StepRefuseRate ==
  ASSUME IInv, NEW r \in Request, NEW m \in Model, NEW client \in Client,
         RefuseRate(r, m, client)
  PROVE  IInv'
<1>1. RegistryTypeOK /\ BucketTypeOK /\ RequestTypeOK  BY TypeParts DEF IInv
<1>2. RegistryTypeOK'  BY <1>1, RegistryLoads DEF RefuseRate
<1>3. BucketTypeOK' /\ BucketInv'
  BY <1>1, TakeForNobody DEF IInv, RefuseRate, historyVars
<1>4. RequestTypeOK' /\ UnpaidIsBuffered'
  BY <1>1, FrameOfRequests DEF IInv, RefuseRate, RequestTypeOK, requestVars, historyVars
<1>5. OvershootInv'  BY OvershootStays DEF IInv, RefuseRate, requestVars
<1>6. TypeOK'  BY <1>2, <1>3, <1>4 DEF TypeOK, BucketTypeOK, RequestTypeOK
<1> QED BY <1>3, <1>4, <1>5, <1>6 DEF IInv

LEMMA StepAdmit ==
  ASSUME IInv, NEW r \in Request, NEW m \in Model, NEW client \in Client,
         Admit(r, m, client)
  PROVE  IInv'
<1>1. RegistryTypeOK /\ BucketTypeOK /\ RequestTypeOK  BY TypeParts DEF IInv
<1>2. RegistryTypeOK'  BY <1>1, RegistryLoads DEF Admit
<1>3. BucketTypeOK' /\ BucketInv'  BY <1>1, TakeForOne DEF IInv, Admit
<1>4. RequestTypeOK' /\ UnpaidIsBuffered'
  BY <1>1, FrameOfRequests DEF IInv, Admit, RequestTypeOK
<1>5. OvershootInv'
  <2>1. usage < LocLimit
    BY <1>1, LimiterAssumption DEF Admit, Remaining, Positive, RequestTypeOK
  <2> QED BY <2>1 DEF OvershootInv, Admit
<1>6. TypeOK'  BY <1>2, <1>3, <1>4 DEF TypeOK, BucketTypeOK, RequestTypeOK
<1> QED BY <1>3, <1>4, <1>5, <1>6 DEF IInv

LEMMA StepOpen ==
  ASSUME IInv, NEW r \in Request, Open(r)
  PROVE  IInv'
<1>1. RegistryTypeOK /\ BucketTypeOK /\ RequestTypeOK  BY TypeParts DEF IInv
<1>2. RegistryTypeOK'  BY <1>1 DEF Open, registryVars, RegistryTypeOK
<1>3. BucketTypeOK' /\ BucketInv'  BY <1>1, BucketStays DEF IInv, Open
<1>4. RequestTypeOK' /\ UnpaidIsBuffered'
  BY <1>1, LimiterAssumption DEF IInv, Open, RequestTypeOK, UnpaidIsBuffered
<1>5. OvershootInv'
  <2>1. Idle' = Idle  BY <1>1 DEF Open, Idle, RequestTypeOK
  <2> QED BY <2>1 DEF IInv, OvershootInv, Open
<1>6. TypeOK'  BY <1>2, <1>3, <1>4 DEF TypeOK, BucketTypeOK, RequestTypeOK
<1> QED BY <1>3, <1>4, <1>5, <1>6 DEF IInv

LEMMA StepForward ==
  ASSUME IInv, NEW r \in Request, NEW done \in 0..MaxPart, NEW rest \in 0..MaxPart,
         Forward(r, done, rest)
  PROVE  IInv'
<1> DEFINE left == NewBuffer(r, done, rest)
           charged == Weight(NewChars(r, done, rest), Half(model[r]))
<1>1. RegistryTypeOK /\ BucketTypeOK /\ RequestTypeOK  BY TypeParts DEF IInv
<1>2. RegistryTypeOK'  BY <1>1 DEF Forward, registryVars, RegistryTypeOK
<1>3. BucketTypeOK' /\ BucketInv'  BY <1>1, BucketStays DEF IInv, Forward
<1>4. /\ left \in Nat /\ charged \in Nat /\ LineSize * charged \in Nat
      /\ buffered[r] + done + rest <= left + LineSize * charged
  BY <1>1, NewText
<1>5. /\ usage' = usage + charged /\ (charged > 0 => usage + charged < LocLimit)
      /\ left <= MaxBuffer /\ buffered' = [buffered EXCEPT ![r] = left]
      /\ unpaid' = [unpaid EXCEPT ![r] = Positive(@ + (done + rest) - LineSize * (usage' - usage))]
  BY DEF Forward, Settle
<1> HIDE DEF left, charged
<1>6. /\ usage \in Nat /\ unpaid[r] \in Nat /\ buffered[r] \in Nat /\ done \in Nat /\ rest \in Nat
      /\ unpaid[r] <= buffered[r]
  BY <1>1, LimiterAssumption DEF RequestTypeOK, IInv, UnpaidIsBuffered
<1> DEFINE due == Positive(unpaid[r] + (done + rest) - LineSize * charged)
<1>7. unpaid' = [unpaid EXCEPT ![r] = due] /\ due \in Nat /\ due <= left
  <2>1. usage' - usage = charged  BY <1>4, <1>5, <1>6
  <2>2. due \in Nat /\ due <= left  BY <1>4, <1>6 DEF Positive
  <2> QED BY <1>5, <2>1, <2>2
<1> HIDE DEF due
<1>8. RequestTypeOK'
  <2>1. unpaid' \in [Request -> Nat] /\ usage' \in Nat
    BY <1>1, <1>4, <1>5, <1>6, <1>7 DEF RequestTypeOK
  <2>2. left \in 0..MaxBuffer  BY <1>4, <1>5, LimiterAssumption
  <2>3. buffered' \in [Request -> 0..MaxBuffer]  BY <1>1, <1>5, <2>2 DEF RequestTypeOK
  <2> QED BY <1>1, <2>1, <2>3 DEF RequestTypeOK, Forward
<1>9. UnpaidIsBuffered'
  BY <1>1, <1>5, <1>7 DEF IInv, UnpaidIsBuffered, RequestTypeOK
<1>10. OvershootInv'
  <2>1. CASE charged > 0
    <3>1. usage' < LocLimit  BY <1>5, <2>1
    <3> QED BY <3>1 DEF OvershootInv
  <2>2. CASE charged = 0
    <3>1. usage' = usage /\ pc' = pc  BY <1>5, <1>6, <2>2 DEF Forward
    <3> QED BY <3>1, OvershootStays DEF IInv
  <2> QED BY <1>4, <2>1, <2>2
<1>11. TypeOK'  BY <1>2, <1>3, <1>8 DEF TypeOK, BucketTypeOK, RequestTypeOK
<1> QED BY <1>3, <1>9, <1>10, <1>11 DEF IInv

\* A stream that is over, and paid for.
LEMMA StepLeave ==
  ASSUME IInv, NEW r \in Request, pc[r] # "idle", Leave(r),
         NEW w \in Nat, w <= MaxWeight, usage' = usage + w,
         NEW paid \in Nat, paid >= buffered[r],
         unpaid' = [unpaid EXCEPT ![r] = Positive(@ + 0 - paid)]
  PROVE  IInv'
<1>1. RegistryTypeOK /\ BucketTypeOK /\ RequestTypeOK  BY TypeParts DEF IInv
<1>2. RegistryTypeOK'  BY <1>1 DEF Leave, registryVars, RegistryTypeOK
<1>3. BucketTypeOK' /\ BucketInv'  BY <1>1, BucketStays DEF IInv, Leave
<1>4. usage \in Nat /\ unpaid[r] \in Nat /\ buffered[r] \in Nat /\ unpaid[r] <= buffered[r]
  BY <1>1, LimiterAssumption DEF RequestTypeOK, IInv, UnpaidIsBuffered
<1> DEFINE due == Positive(unpaid[r] + 0 - paid)
<1>5. due = 0  BY <1>4 DEF Positive
<1>6. usage' \in Nat /\ unpaid' \in [Request -> Nat] /\ unpaid'[r] = 0
      /\ \A q \in Request : q # r => unpaid'[q] = unpaid[q]
  <2>1. unpaid' = [unpaid EXCEPT ![r] = due]  OBVIOUS
  <2> HIDE DEF due
  <2> QED BY <1>1, <1>4, <1>5, <2>1 DEF RequestTypeOK
<1> HIDE DEF due
<1>7. RequestTypeOK'  BY <1>1, <1>6, LeaveKeeps
<1>8. UnpaidIsBuffered'
  BY <1>1, <1>6 DEF IInv, UnpaidIsBuffered, RequestTypeOK, Leave
<1>9. OvershootInv'  BY <1>1, <1>7, ChargeAndGo DEF IInv, Leave
<1>10. TypeOK'  BY <1>2, <1>3, <1>7 DEF TypeOK, BucketTypeOK, RequestTypeOK
<1> QED BY <1>3, <1>8, <1>9, <1>10 DEF IInv

LEMMA StepTerminate ==
  ASSUME IInv, NEW r \in Request, NEW done \in 0..MaxPart, NEW rest \in 0..MaxPart,
         Terminate(r, done, rest)
  PROVE  IInv'
<1> DEFINE charged == Weight(NewChars(r, done, rest), Half(model[r]))
<1>1. RegistryTypeOK /\ RequestTypeOK  BY TypeParts DEF IInv
<1>2. /\ charged \in Nat /\ charged <= MaxWeight /\ LineSize * charged \in Nat
      /\ charged > 0 => LineSize * charged >= buffered[r] + done
  BY <1>1, NewText
<1>3. /\ charged > 0 /\ usage' = usage + charged /\ pc[r] # "idle" /\ Leave(r)
      /\ unpaid' = [unpaid EXCEPT ![r] = Positive(@ + 0 - LineSize * (usage' - usage))]
  BY DEF Terminate, Settle
<1> HIDE DEF charged
<1>4. usage \in Nat /\ buffered[r] \in Nat /\ done \in Nat
  BY <1>1, LimiterAssumption DEF RequestTypeOK
<1>5. usage' - usage = charged  BY <1>2, <1>3, <1>4
<1>6. unpaid' = [unpaid EXCEPT ![r] = Positive(@ + 0 - LineSize * charged)]
  BY <1>3, <1>5
<1>7. LineSize * charged >= buffered[r]  BY <1>2, <1>3, <1>4
<1> QED BY <1>2, <1>3, <1>6, <1>7, StepLeave

LEMMA StepFlush ==
  ASSUME IInv, NEW r \in Request, Flush(r)
  PROVE  IInv'
<1> DEFINE charged == Weight(buffered[r], Half(model[r]))
<1>1. RegistryTypeOK /\ RequestTypeOK  BY TypeParts DEF IInv
<1>2. buffered[r] \in Nat /\ buffered[r] <= MaxBuffer + MaxPart /\ usage \in Nat
  BY <1>1, LimiterAssumption DEF RequestTypeOK
<1>3. Half(model[r]) \in Multipliers  BY <1>1, HalfType
<1>4. /\ charged \in Nat /\ charged <= MaxWeight
      /\ LineSize * charged \in Nat /\ LineSize * charged >= buffered[r]
  BY <1>2, <1>3, WeightCovers, WeightOrdered
<1>5. /\ usage' = usage + charged /\ pc[r] # "idle" /\ Leave(r)
      /\ unpaid' = [unpaid EXCEPT ![r] = Positive(@ + 0 - LineSize * (usage' - usage))]
  BY DEF Flush, Settle
<1> HIDE DEF charged
<1>6. usage' - usage = charged  BY <1>2, <1>4, <1>5
<1>7. unpaid' = [unpaid EXCEPT ![r] = Positive(@ + 0 - LineSize * charged)]
  BY <1>5, <1>6
<1> QED BY <1>4, <1>5, <1>7, StepLeave

LEMMA StepAbandon ==
  ASSUME IInv, NEW r \in Request, Abandon(r)
  PROVE  IInv'
<1>1. RegistryTypeOK /\ BucketTypeOK /\ RequestTypeOK  BY TypeParts DEF IInv
<1>2. RegistryTypeOK'  BY <1>1 DEF Abandon, registryVars, RegistryTypeOK
<1>3. BucketTypeOK' /\ BucketInv'  BY <1>1, BucketStays DEF IInv, Abandon, historyVars
<1>4. RequestTypeOK' /\ UnpaidIsBuffered'
  BY <1>1, FrameOfRequests DEF IInv, Abandon, RequestTypeOK, historyVars
<1>5. usage \in Nat  BY <1>1 DEF RequestTypeOK
<1>6. PICK w \in Nat : w = 0  OBVIOUS
<1>7. w <= MaxWeight /\ usage' = usage + w
  BY <1>5, <1>6, MaxWeightType DEF Abandon
<1>8. OvershootInv'  BY <1>1, <1>4, <1>7, ChargeAndGo DEF IInv, Abandon
<1>9. TypeOK'  BY <1>2, <1>3, <1>4 DEF TypeOK, BucketTypeOK, RequestTypeOK
<1> QED BY <1>3, <1>4, <1>8, <1>9 DEF IInv

LEMMA StepFile ==
  ASSUME IInv, (Curate \/ Edit) /\ Environment
  PROVE  IInv'
<1>1. RegistryTypeOK /\ BucketTypeOK /\ RequestTypeOK  BY TypeParts DEF IInv
<1>2. RegistryTypeOK' /\ UNCHANGED models  BY <1>1, RegistryChanges
<1>3. BucketTypeOK' /\ BucketInv'
  BY <1>1, BucketStays DEF IInv, Environment, historyVars
<1>4. RequestTypeOK' /\ UnpaidIsBuffered'
  BY <1>1, FrameOfRequests DEF IInv, Environment, RequestTypeOK, requestVars, historyVars
<1>5. OvershootInv'  BY OvershootStays DEF IInv, Environment, requestVars
<1>6. TypeOK'  BY <1>2, <1>3, <1>4 DEF TypeOK, BucketTypeOK, RequestTypeOK
<1> QED BY <1>3, <1>4, <1>5, <1>6 DEF IInv

LEMMA StepTick ==
  ASSUME IInv, Tick
  PROVE  IInv'
<1>1. RegistryTypeOK /\ BucketTypeOK /\ RequestTypeOK  BY TypeParts DEF IInv
<1>2. RegistryTypeOK' /\ UNCHANGED models  BY <1>1 DEF Tick, registryVars, RegistryTypeOK
<1>3. BucketTypeOK' /\ BucketInv'  BY <1>1, TickOfBucket DEF IInv
<1>4. RequestTypeOK' /\ UnpaidIsBuffered'
  BY <1>1, FrameOfRequests DEF IInv, Tick, RequestTypeOK, requestVars
<1>5. OvershootInv'  BY OvershootStays DEF IInv, Tick, requestVars
<1>6. TypeOK'  BY <1>2, <1>3, <1>4 DEF TypeOK, BucketTypeOK, RequestTypeOK
<1> QED BY <1>3, <1>4, <1>5, <1>6 DEF IInv

LEMMA StepRestart ==
  ASSUME IInv, Restart
  PROVE  IInv'
<1>1. RegistryTypeOK /\ BucketTypeOK /\ RequestTypeOK  BY TypeParts DEF IInv
<1>2. RegistryTypeOK'
  <2>1. {} \in SUBSET Model /\ NoModels \in [{} -> Config]  BY DEF NoModels
  <2>2. NoModels \in Listings  BY <2>1, ListingsOf
  <2> QED BY <1>1, <2>2 DEF Restart, RegistryTypeOK
<1>3. BucketTypeOK' /\ BucketInv'
  <2>1. BucketTypeOK'
    BY <1>1, LimiterAssumption, BucketDomains DEF Restart, BucketTypeOK
  <2> DEFINE g == admitted'
  <2>2. \A n \in 0..Hour : Total(g, 1..n) = 0
    <3>1. g = [i \in 1..Hour |-> 0] /\ Hour \in Nat  BY LimiterAssumption DEF Restart
    <3> HIDE DEF g
    <3> QED BY <3>1, Nothing
  <2>3. Minute \in 0..Hour /\ Hour \in 0..Hour  BY LimiterAssumption
  <2>4. Most(Rpm) \in Nat /\ Most(Rph) \in Nat  BY <1>1, BucketDomains
  <2> HIDE DEF g
  <2>5. Window(g, Minute, Minute, 0, Most(Rpm)) /\ Window(g, Hour, Hour, 0, Most(Rph))
    BY <2>2, <2>3, <2>4 DEF Window
  <2>6. BucketInv'  BY <2>5 DEF g, BucketInv, Restart
  <2> QED BY <2>1, <2>6
<1>4. RequestTypeOK'  BY <1>1, LimiterAssumption DEF Restart, RequestTypeOK
<1>5. OvershootInv'  BY LimiterAssumption DEF Restart, OvershootInv
<1>6. UnpaidIsBuffered'  BY DEF Restart, UnpaidIsBuffered
<1>7. TypeOK'  BY <1>2, <1>3, <1>4 DEF TypeOK, BucketTypeOK, RequestTypeOK
<1> QED BY <1>3, <1>5, <1>6, <1>7 DEF IInv

LEMMA StepNothing ==
  ASSUME IInv, UNCHANGED vars
  PROVE  IInv'
<1>1. RegistryTypeOK /\ BucketTypeOK /\ RequestTypeOK  BY TypeParts DEF IInv
<1>2. RegistryTypeOK' /\ UNCHANGED models  BY <1>1 DEF vars, registryVars, RegistryTypeOK
<1>3. BucketTypeOK' /\ BucketInv'  BY <1>1, BucketStays DEF IInv, vars, historyVars
<1>4. RequestTypeOK' /\ UnpaidIsBuffered'
  BY <1>1, FrameOfRequests DEF IInv, vars, RequestTypeOK, requestVars, historyVars
<1>5. OvershootInv'  BY OvershootStays DEF IInv, vars, requestVars
<1>6. TypeOK'  BY <1>2, <1>3, <1>4 DEF TypeOK, BucketTypeOK, RequestTypeOK
<1> QED BY <1>3, <1>4, <1>5, <1>6 DEF IInv
-----------------------------------------------------------------------------
(* The theorems. *)

\* Every step keeps the invariant.
LEMMA Step == IInv /\ [Next]_vars => IInv'
<1> SUFFICES ASSUME IInv, [Next]_vars  PROVE IInv'
  OBVIOUS
<1>1. CASE \E r \in Request, m \in Model :
             \/ RefuseModel(r, m)
             \/ \E client \in Client : RefuseRate(r, m, client) \/ Admit(r, m, client)
  BY <1>1, StepRefuseModel, StepRefuseRate, StepAdmit
<1>2. CASE \E r \in Request :
             \/ Open(r) \/ Flush(r) \/ Abandon(r)
             \/ \E done, rest \in 0..MaxPart : Forward(r, done, rest) \/ Terminate(r, done, rest)
  BY <1>2, StepOpen, StepFlush, StepAbandon, StepForward, StepTerminate
<1>3. CASE (Curate \/ Edit) /\ Environment
  BY <1>3, StepFile
<1>4. CASE Tick
  BY <1>4, StepTick
<1>5. CASE Restart
  BY <1>5, StepRestart
<1>6. CASE UNCHANGED vars
  BY <1>6, StepNothing
<1> QED BY <1>1, <1>2, <1>3, <1>4, <1>5, <1>6 DEF Next

\* So it always holds.
LEMMA Invariance == Spec => []IInv
<1>1. Init => IInv  BY AtFirst
<1>2. IInv /\ [Next]_vars => IInv'  BY Step
<1> QED BY <1>1, <1>2, PTL DEF Spec

\* The variables of the limiter and of the registry keep to their types: a
\* bucket is never in debt and the buffers of the streams never below nothing.
THEOREM TypeCorrect == Spec => []TypeOK
<1>1. IInv => TypeOK  BY DEF IInv
<1> QED BY <1>1, Invariance, PTL

\* checkRateLimit: no window of a minute or an hour lets through more requests
\* than two resets of the bucket fill in, for any limits and any mix of clients.
THEOREM BurstsBounded == Spec => []BurstsAreBounded
<1>1. IInv => BurstsAreBounded
  <2> SUFFICES ASSUME IInv  PROVE BurstsAreBounded
    OBVIOUS
  <2>1. BucketTypeOK  BY TypeParts DEF IInv
  <2>2. minuteTokens \in Nat /\ hourTokens \in Nat /\ Most(Rpm) \in Nat /\ Most(Rph) \in Nat
    BY <2>1, BucketDomains DEF BucketTypeOK
  <2>3. Minute \in 0..Hour /\ Hour \in 0..Hour  BY LimiterAssumption
  <2>4. Total(admitted, 1..Minute) \in Nat /\ Total(admitted, 1..Hour) \in Nat
    BY <2>1, <2>3, BucketDomains, PrefixSums
  <2>5. Total(admitted, 1..Minute) <= 2 * Most(Rpm) /\ Total(admitted, 1..Hour) <= 2 * Most(Rph)
    BY <2>2, <2>4 DEF IInv, BucketInv, Window
  <2> QED BY <2>5 DEF BurstsAreBounded, Total
<1> QED BY <1>1, Invariance, PTL

\* preRequestLocLimit and transform: however many streams of the organisation
\* overlap, each takes the usage past the limit by one charge at most.
THEOREM OvershootBounded == Spec => []OvershootIsBounded
<1>1. IInv => OvershootIsBounded
  <2> SUFFICES ASSUME IInv  PROVE OvershootIsBounded
    OBVIOUS
  <2> DEFINE k == Cardinality(Idle)  n == Cardinality(Request)
  <2>1. Idle \in SUBSET Request  BY DEF Idle
  <2>2. k \in Nat /\ n \in Nat /\ k <= n
    BY <2>1, LimiterAssumption, FS_Subset, FS_CardinalityType
  <2>3. usage < LocLimit \/ usage < LocLimit + k * MaxWeight  BY DEF IInv, OvershootInv
  <2>4. MaxWeight \in Nat  BY MaxWeightType
  <2>5. usage \in Nat /\ LocLimit \in Nat  BY LimiterAssumption DEF IInv, TypeOK
  <2> HIDE DEF k, n
  <2>6. k * MaxWeight \in Nat /\ n * MaxWeight \in Nat /\ k * MaxWeight <= n * MaxWeight
    BY <2>2, <2>4
  <2>7. usage < LocLimit + n * MaxWeight  BY <2>3, <2>5, <2>6
  <2> QED BY <2>7 DEF n, OvershootIsBounded
<1> QED BY <1>1, Invariance, PTL

\* transform and flush: the text that a stream sent and its charges do not cover
\* is no longer than its buffer, however text is cut into chunks.  So a stream
\* that was flushed or terminated is paid for in full, and of an abandoned one
\* what was in the buffer is lost: for byte arrays, all of it.
THEOREM OnlyTheBufferIsUnpaid == Spec => []UnpaidIsBuffered
<1>1. IInv => UnpaidIsBuffered  BY DEF IInv
<1> QED BY <1>1, Invariance, PTL
=============================================================================
