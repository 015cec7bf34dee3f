---------------------------- MODULE PipelineProofs ----------------------------
(* Proofs about Pipeline. *)
EXTENDS Pipeline, FiniteSetTheorems, WellFoundedInduction, SequenceTheorems, TLAPS

(***************************************************************************)
(* Picking.  The positions of a finite set of numbers are enumerated in    *)
(* order; what Pick takes from a sequence follows that enumeration.        *)
(***************************************************************************)

Less == {p \in Nat \X Nat : p[1] < p[2]}

\* Induction over the natural numbers: a set of them has a least one.
LEMMA LessIsWellFounded == IsWellFoundedOn(Less, Nat)
  BY NatLessThanWellFounded DEF OpToRel, Less

\* q lists the m numbers of a set in order.
Lists(q, m, at) ==
  /\ m \in Nat
  /\ q \in [1 .. m -> at]
  /\ \A k, l \in 1 .. m : k < l => q[k] < q[l]
  /\ \A i \in at : \E k \in 1 .. m : q[k] = i

\* Every set of positions can be listed.
LEMMA ListExists ==
  ASSUME NEW n \in Nat, NEW at \in SUBSET (1 .. n)
  PROVE  \E m, q : Lists(q, m, at)
<1> DEFINE Bad == {k \in Nat : \E s \in SUBSET (1 .. k) : ~ \E m, q : Lists(q, m, s)}
<1>1. ASSUME Bad # {}  PROVE FALSE
  <2>1. PICK k \in Bad : \A j \in Bad : ~ (<<j, k>> \in Less)
    <3>1. Bad \subseteq Nat  OBVIOUS
    <3> HIDE DEF Bad
    <3> QED BY <1>1, <3>1, LessIsWellFounded, WFMin
  <2>2. PICK s \in SUBSET (1 .. k) : ~ \E m, q : Lists(q, m, s)
    BY <2>1
  <2>3. CASE k = 0
    <3>1. s = {}  BY <2>2, <2>3
    <3>2. Lists([i \in 1 .. 0 |-> 0], 0, s)  BY <3>1 DEF Lists
    <3> QED BY <2>2, <3>2
  <2>4. CASE k # 0
    <3> DEFINE j == k - 1  r == s \ {k}
    <3>1. j \in Nat /\ k = j + 1 /\ <<j, k>> \in Less
      BY <2>1, <2>4 DEF Less
    <3>2. r \in SUBSET (1 .. j)
      BY <2>2, <3>1
    <3>3. PICK m, q : Lists(q, m, r)
      <4>1. j \notin Bad  BY <2>1, <3>1
      <4> QED BY <3>1, <3>2, <4>1
    <3> HIDE DEF j
    <3>4. CASE k \notin s
      BY <2>2, <3>3, <3>4
    <3>5. CASE k \in s
      <4> DEFINE p == [i \in 1 .. m + 1 |-> IF i = m + 1 THEN k ELSE q[i]]
      <4>1. m \in Nat /\ q \in [1 .. m -> r]  BY <3>3 DEF Lists
      <4>2. p \in [1 .. m + 1 -> s]  BY <3>5, <4>1
      <4>3. ASSUME NEW i \in 1 .. m + 1, NEW l \in 1 .. m + 1, i < l  PROVE p[i] < p[l]
        <5>0. i \in 1 .. m  BY <4>1, <4>3
        <5>1. i \in 1 .. m /\ q[i] \in 1 .. j
          <6> HIDE DEF r
          <6>1. q[i] \in r  BY <4>1, <5>0
          <6> QED BY <3>2, <5>0, <6>1
        <5>2. CASE l = m + 1
          BY <3>1, <4>1, <4>3, <5>1, <5>2
        <5>3. CASE l # m + 1
          <6>1. l \in 1 .. m  BY <4>1, <5>3
          <6> QED BY <3>3, <4>1, <4>3, <5>1, <5>3, <6>1 DEF Lists
        <5> QED BY <5>2, <5>3
      <4>4. ASSUME NEW i \in s  PROVE \E l \in 1 .. m + 1 : p[l] = i
        <5>1. CASE i = k
          BY <4>1, <5>1
        <5>2. CASE i # k
          <6>1. PICK l \in 1 .. m : q[l] = i  BY <3>3, <5>2 DEF Lists
          <6>2. l \in 1 .. m + 1 /\ p[l] = i  BY <4>1, <6>1
          <6> QED BY <6>2
        <5> QED BY <5>1, <5>2
      <4>5. Lists(p, m + 1, s)
        <5> HIDE DEF p
        <5> QED BY <4>1, <4>2, <4>3, <4>4 DEF Lists
      <4> QED BY <2>2, <4>5
    <3> QED BY <3>4, <3>5
  <2> QED BY <2>3, <2>4
<1> QED BY <1>1

\* What is listed can be counted.
LEMMA ListCounts ==
  ASSUME NEW at, NEW m \in Nat, NEW q \in [1 .. m -> at],
         \A k, l \in 1 .. m : k # l => q[k] # q[l],
         \A i \in at : \E k \in 1 .. m : q[k] = i
  PROVE  Cardinality(at) = m
<1>1. q \in Bijection(1 .. m, at)
  BY DEF Bijection, Injection, Surjection, IsInjective
<1>2. ExistsBijection(1 .. m, at)  BY <1>1 DEF ExistsBijection
<1> QED BY <1>2, FS_CountingElements

\* Pick follows any list of its positions.
LEMMA PickFollows ==
  ASSUME NEW at \in SUBSET Nat, NEW m, NEW q, Lists(q, m, at), NEW s
  PROVE  Pick(s, at) = [k \in 1 .. m |-> s[q[k]]]
<1>1. m \in Nat /\ q \in [1 .. m -> at]  BY DEF Lists
<1>2. \A k \in 1 .. m : q[k] \in Nat  BY <1>1
<1>3. \A k, l \in 1 .. m : k # l => q[k] # q[l]
  BY <1>1, <1>2 DEF Lists
<1>4. Cardinality(at) = m
  BY <1>1, <1>3, ListCounts DEF Lists
<1>5. ASSUME NEW k \in 1 .. m
      PROVE  Cardinality({j \in at : j <= q[k]}) = k
  <2> DEFINE low == {j \in at : j <= q[k]}
             p == [i \in 1 .. k |-> q[i]]
  <2>1. k \in Nat /\ \A i \in 1 .. k : i \in 1 .. m  BY <1>1
  <2>2. \A i \in 1 .. k : q[i] \in low
    BY <1>1, <1>2, <2>1 DEF Lists
  <2>3. p \in [1 .. k -> low]  BY <2>2
  <2>4. \A i, l \in 1 .. k : i # l => p[i] # p[l]  BY <1>3, <2>1
  <2>5. \A j \in low : \E i \in 1 .. k : p[i] = j
    <3> SUFFICES ASSUME NEW j \in low  PROVE \E i \in 1 .. k : p[i] = j
      OBVIOUS
    <3>1. PICK i \in 1 .. m : q[i] = j  BY DEF Lists
    <3>2. ~ (k < i)  BY <1>1, <1>2, <3>1 DEF Lists
    <3>3. i \in 1 .. k  BY <1>1, <3>1, <3>2
    <3> QED BY <3>1, <3>3
  <2> HIDE DEF low, p
  <2>6. Cardinality(low) = k
    BY <2>1, <2>3, <2>4, <2>5, ListCounts
  <2> QED BY <2>6 DEF low
<1>6. ASSUME NEW k \in 1 .. m
      PROVE  (CHOOSE i \in at : Cardinality({j \in at : j <= i}) = k) = q[k]
  <2>1. q[k] \in at /\ Cardinality({j \in at : j <= q[k]}) = k  BY <1>1, <1>5
  <2>2. ASSUME NEW i \in at, Cardinality({j \in at : j <= i}) = k  PROVE i = q[k]
    <3>1. PICK l \in 1 .. m : q[l] = i  BY DEF Lists
    <3>2. l = k  BY <1>5, <2>2, <3>1
    <3> QED BY <3>1, <3>2
  <2> QED BY <2>1, <2>2
<1> DEFINE Nth(k) == CHOOSE i \in at : Cardinality({j \in at : j <= i}) = k
<1>7. Pick(s, at) = [k \in 1 .. Cardinality(at) |-> s[Nth(k)]]
  BY DEF Pick
<1>8. \A k \in 1 .. m : Nth(k) = q[k]  BY <1>6
<1> HIDE DEF Nth
<1> QED BY <1>4, <1>7, <1>8

\* What is picked from n positions follows a list of them.
LEMMA Picking ==
  ASSUME NEW n \in Nat, NEW at \in SUBSET (1 .. n)
  PROVE  \E m, q : Lists(q, m, at) /\ \A s : Pick(s, at) = [k \in 1 .. m |-> s[q[k]]]
<1>1. PICK m, q : Lists(q, m, at)  BY ListExists
<1>2. at \in SUBSET Nat  OBVIOUS
<1> QED BY <1>1, <1>2, PickFollows

-----------------------------------------------------------------------------
(***************************************************************************)
(* Runs.  A run is the last of the trees that its operations build one     *)
(* after the other.                                                        *)
(***************************************************************************)

\* One operation, skipped when the tree refuses it.
Step(u, op, rules) == IF Accepts(u, op, rules) THEN Apply(u, op) ELSE u

\* The trees on the way, from t.
Trees(g, t, ops, n, rules) ==
  /\ g[0] = t
  /\ \A k \in 1 .. n : g[k] = Step(g[k - 1], ops[k], rules)

\* The equation that the fold of Run over the first n positions satisfies.
IsRun(f, t, ops, n, rules) ==
  f = [s \in SUBSET (1 .. n) |->
         IF s = {} THEN t ELSE Step(f[s \ {Max(s)}], ops[Max(s)], rules)]

\* The largest of a nonempty set of positions.
LEMMA MaxOfPositions ==
  ASSUME NEW n \in Nat, NEW s \in SUBSET (1 .. n), s # {}
  PROVE  Max(s) \in s /\ \A i \in s : i <= Max(s)
<1>1. PICK m, q : Lists(q, m, s)  BY ListExists
<1>2. m \in Nat /\ q \in [1 .. m -> s]  BY <1>1 DEF Lists
<1>3. PICK i \in s : TRUE  OBVIOUS
<1>4. m \in 1 .. m  BY <1>1, <1>2, <1>3 DEF Lists
<1>5. \A k \in 1 .. m : q[k] \in s /\ q[k] \in Nat
  <2>1. \A j \in s : j \in Nat  OBVIOUS
  <2> QED BY <1>2, <2>1
<1>6. \A j \in s : q[m] >= j
  <2> SUFFICES ASSUME NEW j \in s  PROVE q[m] >= j
    OBVIOUS
  <2>1. PICK k \in 1 .. m : q[k] = j  BY <1>1 DEF Lists
  <2>2. k = m \/ k < m  BY <1>2
  <2> QED BY <1>1, <1>4, <1>5, <2>1, <2>2 DEF Lists
<1>7. \E x \in s : \A y \in s : x >= y  BY <1>4, <1>5, <1>6
<1>8. Max(s) \in s /\ \A y \in s : Max(s) >= y  BY <1>7 DEF Max
<1>9. \A y \in s : y \in Nat  OBVIOUS
<1> QED BY <1>8, <1>9

\* The fold exists.
LEMMA FoldExists ==
  ASSUME NEW t, NEW ops, NEW rules, NEW n \in Nat
  PROVE  \E f : IsRun(f, t, ops, n, rules)
<1> DEFINE Bad == {k \in Nat : ~ \E f : IsRun(f, t, ops, k, rules)}
<1>1. ASSUME Bad # {}  PROVE FALSE
  <2>1. PICK k \in Bad : \A j \in Bad : ~ (<<j, k>> \in Less)
    BY <1>1, LessIsWellFounded, WFMin
  <2>2. CASE k = 0
    <3> DEFINE f == [s \in SUBSET (1 .. 0) |-> t]
    <3>1. \A s \in SUBSET (1 .. 0) : s = {}  OBVIOUS
    <3>2. IsRun(f, t, ops, 0, rules)  BY <3>1 DEF IsRun
    <3> QED BY <2>1, <2>2, <3>2
  <2>3. CASE k # 0
    <3> DEFINE j == k - 1
    <3>1. j \in Nat /\ k = j + 1 /\ <<j, k>> \in Less
      BY <2>1, <2>3 DEF Less
    <3>2. PICK f : IsRun(f, t, ops, j, rules)
      <4>1. j \notin Bad  BY <2>1, <3>1
      <4> QED BY <3>1, <4>1
    <3> HIDE DEF j
    <3> DEFINE S == SUBSET (1 .. k)
               h == [s \in S |->
                       IF s = {} THEN t ELSE Step(f[s \ {Max(s)}], ops[Max(s)], rules)]
    <3>3. ASSUME NEW s \in S, s # {}  PROVE s \ {Max(s)} \in SUBSET (1 .. j)
      <4>1. Max(s) \in s /\ \A i \in s : i <= Max(s)
        BY <2>1, <3>3, MaxOfPositions
      <4>2. \A i \in s \ {Max(s)} : i \in 1 .. j
        <5> SUFFICES ASSUME NEW i \in s, i # Max(s)  PROVE i \in 1 .. j
          OBVIOUS
        <5> DEFINE x == Max(s)
        <5>1. i \in 1 .. k /\ x \in 1 .. k /\ i <= x /\ i # x  BY <3>3, <4>1
        <5> HIDE DEF x
        <5> QED BY <3>1, <5>1
      <4> QED BY <4>2
    <3>4. ASSUME NEW s \in SUBSET (1 .. j)  PROVE h[s] = f[s]
      <4>1. s \in S  BY <3>1
      <4>2. f[s] = IF s = {} THEN t ELSE Step(f[s \ {Max(s)}], ops[Max(s)], rules)
        BY <3>2 DEF IsRun
      <4> QED BY <4>1, <4>2
    <3>5. ASSUME NEW s \in S
          PROVE  h[s] = IF s = {} THEN t ELSE Step(h[s \ {Max(s)}], ops[Max(s)], rules)
      <4>1. h[s] = IF s = {} THEN t ELSE Step(f[s \ {Max(s)}], ops[Max(s)], rules)
        OBVIOUS
      <4> HIDE DEF h
      <4> QED BY <3>3, <3>4, <4>1
    <3>6. IsRun(h, t, ops, k, rules)
      <4>1. h = [s \in S |-> h[s]]  OBVIOUS
      <4> HIDE DEF h
      <4>2. h = [s \in S |->
                   IF s = {} THEN t ELSE Step(h[s \ {Max(s)}], ops[Max(s)], rules)]
        BY <3>5, <4>1
      <4> QED BY <4>2 DEF IsRun
    <3> QED BY <2>1, <3>6
  <2> QED BY <2>2, <2>3
<1> QED BY <1>1

\* What Run computes is the last of the trees.
LEMMA RunUnfolds ==
  ASSUME NEW t, NEW ops, NEW rules, NEW n \in Nat, DOMAIN ops = 1 .. n
  PROVE  \E g : Trees(g, t, ops, n, rules) /\ Run(t, ops, rules) = g[n]
<1> DEFINE f == CHOOSE h : IsRun(h, t, ops, n, rules)
           g == [k \in 0 .. n |-> f[1 .. k]]
<1>1. IsRun(f, t, ops, n, rules)  BY FoldExists
<1>2. Run(t, ops, rules) = f[1 .. n]
  BY DEF Run, FoldLeft, MapThenFoldSet, IsRun, Step
<1> HIDE DEF f
<1>3. \A s \in SUBSET (1 .. n) :
        f[s] = IF s = {} THEN t ELSE Step(f[s \ {Max(s)}], ops[Max(s)], rules)
  BY <1>1 DEF IsRun
<1>4. f[1 .. 0] = t
  <2>1. 1 .. 0 = {} /\ {} \in SUBSET (1 .. n)  OBVIOUS
  <2> QED BY <1>3, <2>1
<1>5. ASSUME NEW k \in 1 .. n  PROVE f[1 .. k] = Step(f[1 .. k - 1], ops[k], rules)
  <2> DEFINE s == 1 .. k
  <2>1. s \in SUBSET (1 .. n) /\ s # {} /\ k \in s /\ k \in Nat  OBVIOUS
  <2>2. Max(s) = k
    <3>1. Max(s) \in s /\ \A i \in s : i <= Max(s)
      <4> HIDE DEF s
      <4> QED BY <2>1, MaxOfPositions
    <3> QED BY <2>1, <3>1
  <2>3. s \ {k} = 1 .. k - 1  OBVIOUS
  <2>4. f[s] = Step(f[s \ {Max(s)}], ops[Max(s)], rules)
    <3> HIDE DEF s
    <3> QED BY <1>3, <2>1
  <2> QED BY <2>2, <2>3, <2>4
<1>6. g[n] = f[1 .. n] /\ g[0] = f[1 .. 0]  OBVIOUS
<1>7. \A k \in 1 .. n : g[k] = f[1 .. k] /\ g[k - 1] = f[1 .. k - 1]  OBVIOUS
<1> HIDE DEF g
<1> QED BY <1>2, <1>4, <1>5, <1>6, <1>7 DEF Trees

\* Any way to list the trees will do.
LEMMA TreesAreRuns ==
  ASSUME NEW t, NEW ops, NEW rules, NEW n \in Nat, DOMAIN ops = 1 .. n,
         NEW g, Trees(g, t, ops, n, rules)
  PROVE  Run(t, ops, rules) = g[n]
<1>1. PICK h : Trees(h, t, ops, n, rules) /\ Run(t, ops, rules) = h[n]
  BY RunUnfolds
<1> DEFINE Bad == {k \in Nat : k <= n /\ g[k] # h[k]}
<1>2. ASSUME Bad # {}  PROVE FALSE
  <2>1. PICK k \in Bad : \A j \in Bad : ~ (<<j, k>> \in Less)
    BY <1>2, LessIsWellFounded, WFMin
  <2>2. k # 0  BY <1>1, <2>1 DEF Trees
  <2>3. k \in 1 .. n /\ k - 1 \in Nat /\ k - 1 <= n /\ <<k - 1, k>> \in Less
    BY <2>1, <2>2 DEF Less
  <2>4. g[k - 1] = h[k - 1]  BY <2>1, <2>3
  <2> QED BY <1>1, <2>1, <2>3, <2>4 DEF Trees
<1>3. g[n] = h[n]  BY <1>2
<1> QED BY <1>1, <1>3

-----------------------------------------------------------------------------
(***************************************************************************)
(* The operations of a log.                                                *)
(***************************************************************************)

LEMMA ListHasLength ==
  ASSUME NEW s, IsSeq(s)
  PROVE  Len(s) \in Nat /\ DOMAIN s = 1 .. Len(s) /\ s = [i \in 1 .. Len(s) |-> s[i]]
BY LenProperties DEF IsSeq

LEMMA FunctionIsSeq ==
  ASSUME NEW n \in Nat, NEW s, s = [i \in 1 .. n |-> s[i]]
  PROVE  IsSeq(s) /\ Len(s) = n /\ DOMAIN s = 1 .. n
<1>1. DOMAIN s = 1 .. n  BY Zenon
<1>2. \A i \in 1 .. n : s[i] \in ToSet(s)  BY <1>1 DEF ToSet
<1> DEFINE S == ToSet(s)
<1> HIDE DEF S
<1>3. s \in [1 .. n -> S]  BY <1>2 DEF S
<1>4. s \in Seq(S) /\ Len(s) = n  BY <1>3
<1> QED BY <1>1, <1>4 DEF IsSeq, S

LEMMA AppendIsSeq ==
  ASSUME NEW s, IsSeq(s), NEW x
  PROVE  /\ IsSeq(Append(s, x))
         /\ Len(Append(s, x)) = Len(s) + 1
         /\ DOMAIN Append(s, x) = 1 .. Len(s) + 1
         /\ \A i \in 1 .. Len(s) : Append(s, x)[i] = s[i]
         /\ Append(s, x)[Len(s) + 1] = x
<1> DEFINE S == ToSet(s) \union {x}
           u == Append(s, x)
<1>1. s \in Seq(S) /\ x \in S  BY SeqMonotonic DEF IsSeq
<1> HIDE DEF S
<1>2. /\ u \in Seq(S) /\ Len(u) = Len(s) + 1
      /\ \A i \in 1 .. Len(s) : u[i] = s[i]
      /\ u[Len(s) + 1] = x
  BY <1>1, AppendProperties
<1>3. Len(s) \in Nat  BY ListHasLength
<1>4. DOMAIN u = 1 .. Len(s) + 1 /\ u = [i \in 1 .. Len(s) + 1 |-> u[i]]
  BY <1>1, <1>2, LenProperties
<1> HIDE DEF u
<1>5. IsSeq(u)  BY <1>3, <1>4, FunctionIsSeq
<1> QED BY <1>2, <1>4, <1>5 DEF u

LEMMA TailIsSeq ==
  ASSUME NEW s, IsSeq(s), s # <<>>
  PROVE  /\ IsSeq(Tail(s))
         /\ Len(s) \in Nat \ {0}
         /\ Len(Tail(s)) = Len(s) - 1
         /\ DOMAIN Tail(s) = 1 .. Len(s) - 1
         /\ \A i \in 1 .. Len(s) - 1 : Tail(s)[i] = s[i + 1]
         /\ Head(s) = s[1]
<1> DEFINE S == ToSet(s)
           u == Tail(s)
<1>1. s \in Seq(S)  BY DEF IsSeq
<1> HIDE DEF S
<1>2. /\ u \in Seq(S) /\ Len(u) = Len(s) - 1
      /\ \A i \in 1 .. Len(u) : u[i] = s[i + 1]
  BY <1>1, HeadTailProperties
<1>3. Len(s) \in Nat \ {0}  BY <1>1, EmptySeq
<1>4. DOMAIN u = 1 .. Len(s) - 1 /\ u = [i \in 1 .. Len(s) - 1 |-> u[i]]
  BY <1>1, <1>2, LenProperties
<1>5. Head(s) = s[1]  BY <1>1
<1> HIDE DEF u
<1>6. IsSeq(u)  BY <1>3, <1>4, FunctionIsSeq
<1> QED BY <1>2, <1>3, <1>4, <1>5, <1>6 DEF u

\* The positions of the operations in a log.
Kept(entries) == {i \in DOMAIN entries : entries[i].level = "pash"}

LEMMA OperationsAreListed ==
  ASSUME NEW n \in Nat, NEW entries, DOMAIN entries = 1 .. n,
         NEW m, NEW q, Lists(q, m, Kept(entries))
  PROVE  Operations(entries) = [k \in 1 .. m |-> entries[q[k]].op]
<1> SUFFICES ASSUME NEW at, at = Kept(entries), Lists(q, m, at)
             PROVE  Operations(entries) = [k \in 1 .. m |-> entries[q[k]].op]
  OBVIOUS
<1>1. at \in SUBSET Nat  BY DEF Kept
<1>2. Pick(entries, at) = [k \in 1 .. m |-> entries[q[k]]]
  BY <1>1, PickFollows
<1>3. Operations(entries) =
        [i \in DOMAIN Pick(entries, at) |-> Pick(entries, at)[i].op]
  BY DEF Operations, Kept
<1> QED BY <1>2, <1>3

LEMMA KeptCanBeListed ==
  ASSUME NEW n \in Nat, NEW entries, DOMAIN entries = 1 .. n
  PROVE  \E m, q : Lists(q, m, Kept(entries))
BY ListExists DEF Kept

\* One entry more.
LEMMA OperationsOfAppend ==
  ASSUME NEW entries, IsSeq(entries), NEW e
  PROVE  \E m \in Nat :
           LET ops == Operations(entries)
               new == Operations(Append(entries, e))
           IN /\ DOMAIN ops = 1 .. m
              /\ e.level # "pash" => new = ops
              /\ e.level = "pash" =>
                   /\ DOMAIN new = 1 .. m + 1
                   /\ \A k \in 1 .. m : new[k] = ops[k]
                   /\ new[m + 1] = e.op
<1> DEFINE n == Len(entries)
           all == Append(entries, e)
<1>1. n \in Nat /\ DOMAIN entries = 1 .. n  BY ListHasLength
<1>2. /\ DOMAIN all = 1 .. n + 1
      /\ \A i \in 1 .. n : all[i] = entries[i]
      /\ all[n + 1] = e
  BY AppendIsSeq
<1> HIDE DEF n, all
<1>3. PICK m, q : Lists(q, m, Kept(entries))  BY <1>1, KeptCanBeListed
<1>4. m \in Nat /\ q \in [1 .. m -> Kept(entries)]  BY <1>3 DEF Lists
<1>5. Operations(entries) = [k \in 1 .. m |-> entries[q[k]].op]
  BY <1>1, <1>3, OperationsAreListed
<1>6. \A k \in 1 .. m : q[k] \in 1 .. n  BY <1>1, <1>4 DEF Kept
<1>7. CASE e.level # "pash"
  <2>1. Kept(all) = Kept(entries)
    BY <1>1, <1>2, <1>7 DEF Kept
  <2>2. Operations(all) = [k \in 1 .. m |-> all[q[k]].op]
    BY <1>1, <1>2, <1>3, <2>1, OperationsAreListed
  <2>3. Operations(all) = Operations(entries)
    BY <1>2, <1>5, <1>6, <2>2
  <2> QED BY <1>4, <1>5, <1>7, <2>3 DEF all
<1>8. CASE e.level = "pash"
  <2> DEFINE p == [k \in 1 .. m + 1 |-> IF k = m + 1 THEN n + 1 ELSE q[k]]
  <2>1. Kept(all) = Kept(entries) \union {n + 1}
    BY <1>1, <1>2, <1>8 DEF Kept
  <2>2. \A k \in 1 .. m : p[k] = q[k]  BY <1>4
  <2>3. p[m + 1] = n + 1  BY <1>4
  <2>4. p \in [1 .. m + 1 -> Kept(all)]  BY <1>4, <2>1
  <2> HIDE DEF p
  <2>5. ASSUME NEW k \in 1 .. m + 1, NEW l \in 1 .. m + 1, k < l  PROVE p[k] < p[l]
    <3>1. k \in 1 .. m  BY <1>4, <2>5
    <3>2. p[k] = q[k] /\ q[k] \in 1 .. n  BY <1>6, <2>2, <3>1
    <3>3. CASE l = m + 1
      BY <1>1, <2>3, <3>2, <3>3
    <3>4. CASE l # m + 1
      <4>1. l \in 1 .. m  BY <1>4, <3>4
      <4> QED BY <1>3, <2>2, <2>5, <3>1, <3>2, <4>1 DEF Lists
    <3> QED BY <3>3, <3>4
  <2>6. ASSUME NEW i \in Kept(all)  PROVE \E k \in 1 .. m + 1 : p[k] = i
    <3>1. CASE i = n + 1
      BY <1>4, <2>3, <3>1
    <3>2. CASE i # n + 1
      <4>1. PICK k \in 1 .. m : q[k] = i  BY <1>3, <2>1, <3>2 DEF Lists
      <4>2. k \in 1 .. m + 1 /\ p[k] = i  BY <1>4, <2>2, <4>1
      <4> QED BY <4>2
    <3> QED BY <3>1, <3>2
  <2>7. Lists(p, m + 1, Kept(all))
    BY <1>4, <2>4, <2>5, <2>6 DEF Lists
  <2>8. Operations(all) = [k \in 1 .. m + 1 |-> all[p[k]].op]
    <3>1. n + 1 \in Nat  BY <1>1
    <3> QED BY <1>2, <2>7, <3>1, OperationsAreListed
  <2>9. ASSUME NEW k \in 1 .. m  PROVE Operations(all)[k] = Operations(entries)[k]
    <3>1. k \in 1 .. m + 1  BY <1>4
    <3>2. all[p[k]] = entries[q[k]]  BY <1>2, <1>6, <2>2
    <3> QED BY <1>5, <2>8, <3>1, <3>2
  <2>10. Operations(all)[m + 1] = e.op
    <3>1. m + 1 \in 1 .. m + 1  BY <1>4
    <3> QED BY <1>2, <2>3, <2>8, <3>1
  <2>11. DOMAIN Operations(all) = 1 .. m + 1 /\ DOMAIN Operations(entries) = 1 .. m
    BY <1>5, <2>8
  <2> QED BY <1>4, <1>8, <2>9, <2>10, <2>11 DEF all
<1> QED BY <1>7, <1>8

\* The oldest entry less.
LEMMA OperationsOfTail ==
  ASSUME NEW entries, IsSeq(entries), entries # <<>>
  PROVE  \E m \in Nat :
           LET ops == Operations(entries)
               new == Operations(Tail(entries))
               first == Operations(<<Head(entries)>>)
           IN /\ DOMAIN new = 1 .. m
              /\ Head(entries).level # "pash" => new = ops /\ DOMAIN first = 1 .. 0
              /\ Head(entries).level = "pash" =>
                   /\ DOMAIN ops = 1 .. m + 1
                   /\ \A k \in 1 .. m : new[k] = ops[k + 1]
                   /\ DOMAIN first = 1 .. 1
                   /\ first[1] = ops[1]
                   /\ ops[1] = Head(entries).op
<1> DEFINE n == Len(entries) - 1
           rest == Tail(entries)
           h == Head(entries)
           single == <<h>>
<1>1. n \in Nat /\ DOMAIN entries = 1 .. n + 1
  BY ListHasLength, TailIsSeq
<1>2. /\ DOMAIN rest = 1 .. n
      /\ \A i \in 1 .. n : rest[i] = entries[i + 1]
      /\ h = entries[1]
  BY TailIsSeq
<1>3. DOMAIN single = 1 .. 1 /\ single[1] = h  OBVIOUS
<1> HIDE DEF n, rest, h, single
<1>4. PICK m, q : Lists(q, m, Kept(rest))  BY <1>1, <1>2, KeptCanBeListed
<1>5. m \in Nat /\ q \in [1 .. m -> Kept(rest)]  BY <1>4 DEF Lists
<1>6. Operations(rest) = [k \in 1 .. m |-> rest[q[k]].op]
  BY <1>1, <1>2, <1>4, OperationsAreListed
<1>7. \A k \in 1 .. m : q[k] \in 1 .. n  BY <1>2, <1>5 DEF Kept
<1>8. \A i \in 1 .. n : i \in Kept(rest) <=> i + 1 \in Kept(entries)
  BY <1>1, <1>2 DEF Kept
<1>9. \A i \in Kept(entries) : i \in 1 .. n + 1 /\ (i # 1 => i - 1 \in 1 .. n /\ i - 1 \in Kept(rest))
  <2> SUFFICES ASSUME NEW i \in Kept(entries)
               PROVE  i \in 1 .. n + 1 /\ (i # 1 => i - 1 \in 1 .. n /\ i - 1 \in Kept(rest))
    OBVIOUS
  <2>1. i \in 1 .. n + 1  BY <1>1 DEF Kept
  <2>2. i # 1 => i - 1 \in 1 .. n /\ (i - 1) + 1 = i  BY <1>1, <2>1
  <2> QED BY <1>8, <2>1, <2>2
<1>10. CASE h.level # "pash"
  <2> DEFINE p == [k \in 1 .. m |-> q[k] + 1]
  <2>1. 1 \notin Kept(entries)  BY <1>2, <1>10 DEF Kept
  <2>2. p \in [1 .. m -> Kept(entries)]  BY <1>5, <1>7, <1>8
  <2>3. \A k \in 1 .. m : p[k] = q[k] + 1  OBVIOUS
  <2> HIDE DEF p
  <2>4. \A k, l \in 1 .. m : k < l => p[k] < p[l]
    BY <1>4, <1>7, <2>3 DEF Lists
  <2>5. ASSUME NEW i \in Kept(entries)  PROVE \E k \in 1 .. m : p[k] = i
    <3>1. i - 1 \in Kept(rest) /\ i \in 1 .. n + 1  BY <1>9, <2>1
    <3>2. PICK k \in 1 .. m : q[k] = i - 1  BY <1>4, <3>1 DEF Lists
    <3> QED BY <1>1, <2>3, <3>1, <3>2
  <2>6. Lists(p, m, Kept(entries))
    BY <1>5, <2>2, <2>4, <2>5 DEF Lists
  <2>7. Operations(entries) = [k \in 1 .. m |-> entries[p[k]].op]
    <3>1. n + 1 \in Nat  BY <1>1
    <3> QED BY <1>1, <2>6, <3>1, OperationsAreListed
  <2>8. Operations(rest) = Operations(entries)
    BY <1>2, <1>6, <1>7, <2>3, <2>7
  <2>9. DOMAIN Operations(single) = 1 .. 0
    <3>1. Kept(single) = {}  BY <1>3, <1>10 DEF Kept
    <3>2. Lists([i \in 1 .. 0 |-> 0], 0, Kept(single))  BY <3>1 DEF Lists
    <3>3. Operations(single) = [k \in 1 .. 0 |-> single[[i \in 1 .. 0 |-> 0][k]].op]
      BY <1>3, <3>2, OperationsAreListed
    <3> QED BY <3>3
  <2> QED BY <1>5, <1>6, <1>10, <2>8, <2>9 DEF rest, h, single
<1>11. CASE h.level = "pash"
  <2> DEFINE p == [k \in 1 .. m + 1 |-> IF k = 1 THEN 1 ELSE q[k - 1] + 1]
  <2>1. 1 \in Kept(entries)  BY <1>1, <1>2, <1>11 DEF Kept
  <2>2. p[1] = 1 /\ 1 \in 1 .. m + 1  BY <1>5
  <2>3. \A k \in 1 .. m : k + 1 \in 1 .. m + 1 /\ p[k + 1] = q[k] + 1
    BY <1>5
  <2>4. ASSUME NEW k \in 1 .. m + 1  PROVE k = 1 \/ (k - 1 \in 1 .. m /\ (k - 1) + 1 = k)
    BY <1>5
  <2>5. p \in [1 .. m + 1 -> Kept(entries)]
    <3> SUFFICES ASSUME NEW k \in 1 .. m + 1  PROVE p[k] \in Kept(entries)
      OBVIOUS
    <3>1. CASE k = 1
      BY <2>1, <2>2, <3>1
    <3>2. CASE k - 1 \in 1 .. m /\ (k - 1) + 1 = k
      <4>1. p[k] = q[k - 1] + 1 /\ q[k - 1] \in Kept(rest) /\ q[k - 1] \in 1 .. n
        <5> HIDE DEF p
        <5> QED BY <1>5, <1>7, <2>3, <3>2
      <4> HIDE DEF p
      <4> QED BY <1>8, <4>1
    <3> QED BY <2>4, <3>1, <3>2
  <2> HIDE DEF p
  <2>6. ASSUME NEW k \in 1 .. m + 1, NEW l \in 1 .. m + 1, k < l  PROVE p[k] < p[l]
    <3>1. l - 1 \in 1 .. m /\ (l - 1) + 1 = l  BY <1>5, <2>6
    <3>2. p[l] = q[l - 1] + 1 /\ q[l - 1] \in 1 .. n  BY <1>7, <2>3, <3>1
    <3>3. CASE k = 1
      BY <1>1, <2>2, <3>2, <3>3
    <3>4. CASE k - 1 \in 1 .. m /\ (k - 1) + 1 = k
      <4>1. p[k] = q[k - 1] + 1 /\ q[k - 1] \in 1 .. n  BY <1>7, <2>3, <3>4
      <4>2. k - 1 < l - 1  BY <2>6
      <4>3. q[k - 1] < q[l - 1]  BY <1>4, <3>1, <3>4, <4>2 DEF Lists
      <4> QED BY <1>1, <3>2, <4>1, <4>3
    <3> QED BY <2>4, <3>3, <3>4
  <2>7. ASSUME NEW i \in Kept(entries)  PROVE \E k \in 1 .. m + 1 : p[k] = i
    <3>1. CASE i = 1
      BY <2>2, <3>1
    <3>2. CASE i # 1
      <4>1. i - 1 \in Kept(rest) /\ i \in 1 .. n + 1  BY <1>9, <3>2
      <4>2. PICK k \in 1 .. m : q[k] = i - 1  BY <1>4, <4>1 DEF Lists
      <4>3. k + 1 \in 1 .. m + 1 /\ p[k + 1] = i  BY <1>1, <2>3, <4>1, <4>2
      <4> QED BY <4>3
    <3> QED BY <3>1, <3>2
  <2>8. Lists(p, m + 1, Kept(entries))
    BY <1>5, <2>5, <2>6, <2>7 DEF Lists
  <2>9. Operations(entries) = [k \in 1 .. m + 1 |-> entries[p[k]].op]
    <3>1. n + 1 \in Nat  BY <1>1
    <3> QED BY <1>1, <2>8, <3>1, OperationsAreListed
  <2>10. ASSUME NEW k \in 1 .. m  PROVE Operations(rest)[k] = Operations(entries)[k + 1]
    <3>1. rest[q[k]] = entries[p[k + 1]]  BY <1>2, <1>7, <2>3
    <3> QED BY <1>6, <2>3, <2>9, <3>1
  <2>11. Operations(entries)[1] = h.op  BY <1>2, <2>2, <2>9
  <2>12. DOMAIN Operations(single) = 1 .. 1 /\ Operations(single)[1] = h.op
    <3>1. Kept(single) = {1}  BY <1>3, <1>11 DEF Kept
    <3> DEFINE one == [i \in 1 .. 1 |-> 1]
    <3>2. Lists(one, 1, Kept(single))  BY <3>1 DEF Lists
    <3>3. Operations(single) = [k \in 1 .. 1 |-> single[one[k]].op]
      BY <1>3, <3>2, OperationsAreListed
    <3> QED BY <1>3, <3>3
  <2>13. DOMAIN Operations(entries) = 1 .. m + 1 /\ DOMAIN Operations(rest) = 1 .. m
    BY <1>6, <2>9
  <2> QED BY <1>5, <1>11, <2>10, <2>11, <2>12, <2>13 DEF rest, h, single
<1> QED BY <1>10, <1>11

-----------------------------------------------------------------------------
(***************************************************************************)
(* Trees.                                                                  *)
(***************************************************************************)

IsNode(n) ==
  n = [id |-> n.id, component |-> n.component, fields |-> n.fields, parent |-> n.parent]

\* A list of nodes without a repeated id, in which parents come first.
IsTree(t) ==
  /\ IsSeq(t)
  /\ \A i \in DOMAIN t :
       /\ IsNode(t[i])
       /\ t[i].id \in Id
       /\ \A j \in DOMAIN t : t[i].id = t[j].id => i = j
       /\ t[i].parent # NoParent => \E j \in 1 .. i - 1 : t[j].id = t[i].parent

\* An operation that can come out of the parser.
IsOp(op) ==
  /\ op.type \in {"+", "~", "-", "!"}
  /\ op.type # "!" => op.id \in Id

LEMMA IdIsNoParent == NoParent \notin Id
  BY NameAssumption DEF NoParent, IsName

Ids(t) == {t[i].id : i \in DOMAIN t}

LEMMA IndexHasIds ==
  ASSUME NEW t
  PROVE  DOMAIN Index(t) = Ids(t)
BY DEF Index, Ids

LEMMA EmptyIsTree == IsTree(EmptyTree) /\ Len(EmptyTree) = 0 /\ DOMAIN EmptyTree = {}
<1>1. EmptyTree = [i \in 1 .. 0 |-> EmptyTree[i]]  BY DEF EmptyTree
<1>2. IsSeq(EmptyTree) /\ Len(EmptyTree) = 0 /\ DOMAIN EmptyTree = 1 .. 0
  BY <1>1, FunctionIsSeq
<1> QED BY <1>2 DEF IsTree

\* What an unmount takes: the element and the children of what it takes.
LEMMA BelowIsClosed ==
  ASSUME NEW t, IsTree(t), NEW id
  PROVE  /\ Below(t, id) \subseteq Ids(t)
         /\ \A i \in DOMAIN t :
              t[i].id \in Below(t, id) <=> (t[i].id = id \/ t[i].parent \in Below(t, id))
<1> DEFINE Closed(S) == \A i \in DOMAIN t :
                          t[i].id = id \/ t[i].parent \in S => t[i].id \in S
           B == {d \in Ids(t) : \A S \in SUBSET Ids(t) : Closed(S) => d \in S}
<1>1. Below(t, id) = B
  BY IndexHasIds DEF Below
<1>2. ASSUME NEW i \in DOMAIN t, t[i].id = id \/ t[i].parent \in B
      PROVE  t[i].id \in B
  <2>1. t[i].id \in Ids(t)  BY DEF Ids
  <2>2. ASSUME NEW S \in SUBSET Ids(t), Closed(S)  PROVE t[i].id \in S
    <3>1. t[i].parent \in B => t[i].parent \in S  BY <2>2
    <3> QED BY <1>2, <2>2, <3>1
  <2> QED BY <2>1, <2>2
<1>3. ASSUME NEW i \in DOMAIN t, t[i].id \in B, t[i].id # id, t[i].parent \notin B
      PROVE  FALSE
  <2> DEFINE S == B \ {t[i].id}
  <2>1. S \in SUBSET Ids(t)  OBVIOUS
  <2>2. ASSUME NEW j \in DOMAIN t, t[j].id = id \/ t[j].parent \in S
        PROVE  t[j].id \in S
    <3> HIDE DEF B, Closed
    <3>1. t[j].id \in B  BY <1>2, <2>2
    <3>2. t[j].id # t[i].id
      <4>1. ASSUME t[j].id = t[i].id  PROVE FALSE
        <5>1. i = j  BY <4>1 DEF IsTree
        <5> QED BY <1>3, <2>2, <5>1
      <4> QED BY <4>1
    <3> QED BY <3>1, <3>2
  <2>3. Closed(S)
    <3> HIDE DEF S
    <3> QED BY <2>2
  <2>4. t[i].id \in S
    <3> HIDE DEF S
    <3> QED BY <1>3, <2>1, <2>3
  <2> QED BY <2>4
<1>4. B \subseteq Ids(t)  OBVIOUS
<1> HIDE DEF B
<1> QED BY <1>1, <1>2, <1>3, <1>4

\* It takes no more than any set that is closed in this way.
LEMMA BelowIsLeast ==
  ASSUME NEW t, NEW id, NEW S \in SUBSET Ids(t),
         \A i \in DOMAIN t : t[i].id = id \/ t[i].parent \in S => t[i].id \in S
  PROVE  Below(t, id) \subseteq S
BY IndexHasIds DEF Below

\* What an unmount leaves.
LEMMA UnmountLeaves ==
  ASSUME NEW t, IsTree(t), NEW op, op.type = "-"
  PROVE  /\ IsTree(Apply(t, op))
         /\ ToSet(Apply(t, op)) = {n \in ToSet(t) : n.id \notin Below(t, op.id)}
<1> DEFINE B == Below(t, op.id)
           n == Len(t)
           at == {i \in DOMAIN t : t[i].id \notin B}
           u == Apply(t, op)
<1>1. IsSeq(t)  BY DEF IsTree
<1>2. n \in Nat /\ DOMAIN t = 1 .. n  BY <1>1, ListHasLength
<1>3. u = Pick(t, at)  BY DEF Apply
<1>4. B \subseteq Ids(t)
  BY BelowIsClosed
<1>5. \A i \in DOMAIN t : t[i].id \in B <=> (t[i].id = op.id \/ t[i].parent \in B)
  BY BelowIsClosed
<1>6. \A i \in at : i \in 1 .. n /\ i \in Nat /\ i \in DOMAIN t /\ t[i].id \notin B
  BY <1>2
<1>7. \A i \in DOMAIN t : t[i].id \notin B => i \in at
  OBVIOUS
<1> HIDE DEF B, n, at, u
<1>8. at \in SUBSET (1 .. n)  BY <1>6
<1>9. PICK m, q : Lists(q, m, at) /\ \A s : Pick(s, at) = [k \in 1 .. m |-> s[q[k]]]
  BY <1>2, <1>8, Picking
<1>10. m \in Nat /\ q \in [1 .. m -> at]  BY <1>9 DEF Lists
<1>11. u = [k \in 1 .. m |-> t[q[k]]]  BY <1>3, <1>9
<1>12. IsSeq(u) /\ Len(u) = m /\ DOMAIN u = 1 .. m
  <2>1. u = [k \in 1 .. m |-> u[k]]  BY <1>11
  <2> QED BY <1>10, <2>1, FunctionIsSeq
<1>13. ASSUME NEW k \in 1 .. m  PROVE q[k] \in at /\ q[k] \in DOMAIN t /\ u[k] = t[q[k]]
  BY <1>6, <1>10, <1>11
<1>14. ASSUME NEW k \in 1 .. m, NEW l \in 1 .. m, u[k].id = u[l].id  PROVE k = l
  <2>1. q[k] = q[l]  BY <1>13, <1>14 DEF IsTree
  <2>2. q[k] \in Nat  BY <1>6, <1>13
  <2>3. ~ (k < l) /\ ~ (l < k)  BY <1>9, <2>1, <2>2 DEF Lists
  <2> QED BY <1>10, <2>3
<1>15. ASSUME NEW k \in 1 .. m, u[k].parent # NoParent
       PROVE  \E l \in 1 .. k - 1 : u[l].id = u[k].parent
  <2> DEFINE i == q[k]
  <2>1. i \in at /\ i \in DOMAIN t /\ u[k] = t[i] /\ i \in Nat /\ t[i].id \notin B
    BY <1>6, <1>13
  <2> HIDE DEF i
  <2>2. PICK j \in 1 .. i - 1 : t[j].id = t[i].parent  BY <1>15, <2>1 DEF IsTree
  <2>3. j \in DOMAIN t
    <3>1. i \in 1 .. n  BY <1>6, <2>1
    <3> QED BY <1>2, <2>2, <3>1
  <2>4. t[j].id \notin B  BY <1>5, <2>1, <2>2
  <2>5. PICK l \in 1 .. m : q[l] = j  BY <1>7, <1>9, <2>3, <2>4 DEF Lists
  <2>6. l < k
    <3>1. j < i  BY <2>1, <2>2
    <3>2. j \in Nat  BY <2>2
    <3>3. ~ (l = k) /\ ~ (k < l)  BY <1>9, <2>1, <2>5, <3>1, <3>2 DEF Lists, i
    <3> QED BY <1>10, <3>3
  <2>7. l \in 1 .. k - 1  BY <1>10, <2>6
  <2> QED BY <1>13, <2>1, <2>2, <2>5, <2>7
<1>16. IsTree(u)
  BY <1>12, <1>13, <1>14, <1>15 DEF IsTree
<1>17. \A x : x \in ToSet(u) <=> x \in ToSet(t) /\ x.id \notin B
  <2>1. ASSUME NEW x \in ToSet(u)  PROVE x \in ToSet(t) /\ x.id \notin B
    <3>1. PICK k \in 1 .. m : x = u[k]  BY <1>12 DEF ToSet
    <3> QED BY <1>6, <1>13, <3>1 DEF ToSet
  <2>2. ASSUME NEW x \in ToSet(t), x.id \notin B  PROVE x \in ToSet(u)
    <3>1. PICK i \in DOMAIN t : x = t[i]  BY DEF ToSet
    <3>2. PICK k \in 1 .. m : q[k] = i  BY <1>7, <1>9, <2>2, <3>1 DEF Lists
    <3> QED BY <1>12, <1>13, <3>1, <3>2 DEF ToSet
  <2> QED BY <2>1, <2>2
<1>18. ToSet(u) = {x \in ToSet(t) : x.id \notin B}  BY <1>17
<1> QED BY <1>16, <1>18 DEF B, u

\* A mount puts a node at the end.
LEMMA MountAppends ==
  ASSUME NEW t, IsTree(t), NEW op, IsOp(op), op.type = "+",
         op.id \notin Ids(t), op.parent = NoParent \/ op.parent \in Ids(t)
  PROVE  LET node == [id |-> op.id, component |-> op.component,
                      fields |-> op.fields, parent |-> op.parent]
         IN /\ IsTree(Apply(t, op))
            /\ ToSet(Apply(t, op)) = ToSet(t) \union {node}
<1> DEFINE node == [id |-> op.id, component |-> op.component,
                    fields |-> op.fields, parent |-> op.parent]
           n == Len(t)
           u == Append(t, node)
<1>1. Apply(t, op) = u  BY DEF Apply
<1>2. IsNode(node) /\ node.id = op.id /\ node.parent = op.parent  BY DEF IsNode
<1>3. op.id \in Id  BY DEF IsOp
<1> HIDE DEF node
<1>4. IsSeq(t)  BY DEF IsTree
<1>5. n \in Nat /\ DOMAIN t = 1 .. n  BY <1>4, ListHasLength
<1>6. /\ IsSeq(u) /\ DOMAIN u = 1 .. n + 1
      /\ \A i \in 1 .. n : u[i] = t[i]
      /\ u[n + 1] = node
  BY <1>4, AppendIsSeq
<1> HIDE DEF n, u
<1>7. \A i \in 1 .. n + 1 : i \in 1 .. n \/ i = n + 1  BY <1>5
<1>8. \A i \in 1 .. n : t[i].id # op.id  BY <1>5 DEF Ids
<1>9. ASSUME NEW i \in 1 .. n + 1
      PROVE  /\ IsNode(u[i]) /\ u[i].id \in Id
             /\ \A j \in 1 .. n + 1 : u[i].id = u[j].id => i = j
             /\ u[i].parent # NoParent => \E j \in 1 .. i - 1 : u[j].id = u[i].parent
  <2>1. CASE i \in 1 .. n
    <3>1. IsNode(u[i]) /\ u[i].id \in Id  BY <1>5, <1>6, <2>1 DEF IsTree
    <3>2. \A j \in 1 .. n + 1 : u[i].id = u[j].id => i = j
      BY <1>2, <1>5, <1>6, <1>7, <1>8, <2>1 DEF IsTree
    <3>3. u[i].parent # NoParent => \E j \in 1 .. i - 1 : u[j].id = u[i].parent
      <4>1. \A j \in 1 .. i - 1 : j \in 1 .. n  BY <1>5, <2>1
      <4> QED BY <1>5, <1>6, <2>1, <4>1 DEF IsTree
    <3> QED BY <3>1, <3>2, <3>3
  <2>2. CASE i = n + 1
    <3>1. IsNode(u[i]) /\ u[i].id \in Id  BY <1>2, <1>3, <1>6, <2>2
    <3>2. \A j \in 1 .. n + 1 : u[i].id = u[j].id => i = j
      BY <1>2, <1>6, <1>7, <1>8, <2>2
    <3>3. ASSUME u[i].parent # NoParent  PROVE \E j \in 1 .. i - 1 : u[j].id = u[i].parent
      <4>1. PICK j \in 1 .. n : t[j].id = op.parent  BY <1>2, <1>5, <1>6, <2>2, <3>3 DEF Ids
      <4>2. j \in 1 .. i - 1  BY <1>5, <2>2
      <4> QED BY <1>2, <1>6, <2>2, <4>1, <4>2
    <3> QED BY <3>1, <3>2, <3>3
  <2> QED BY <1>7, <2>1, <2>2
<1>10. IsTree(u)  BY <1>6, <1>9 DEF IsTree
<1>11. ToSet(u) = ToSet(t) \union {node}
  <2>1. \A x \in ToSet(u) : x \in ToSet(t) \union {node}
    BY <1>5, <1>6, <1>7 DEF ToSet
  <2>2. \A x \in ToSet(t) \union {node} : x \in ToSet(u)
    <3>1. \A i \in 1 .. n : i \in 1 .. n + 1  BY <1>5
    <3>2. n + 1 \in 1 .. n + 1  BY <1>5
    <3> QED BY <1>5, <1>6, <3>1, <3>2 DEF ToSet
  <2> QED BY <2>1, <2>2
<1> QED BY <1>1, <1>10, <1>11 DEF node

\* A node with a field set.
Updated(n, op) == [n EXCEPT !.fields = (op.field :> op.value) @@ n.fields]

\* An update changes one node, and neither its id nor its parent.
LEMMA UpdateChanges ==
  ASSUME NEW t, IsTree(t), NEW op, op.type = "~"
  PROVE  /\ IsTree(Apply(t, op))
         /\ DOMAIN Apply(t, op) = DOMAIN t
         /\ \A i \in DOMAIN t :
              /\ Apply(t, op)[i] = IF t[i].id = op.id THEN Updated(t[i], op) ELSE t[i]
              /\ Apply(t, op)[i].id = t[i].id
              /\ Apply(t, op)[i].component = t[i].component
<1> DEFINE n == Len(t)
           u == Apply(t, op)
<1>1. n \in Nat /\ DOMAIN t = 1 .. n  BY ListHasLength DEF IsTree
<1>2. u = [i \in DOMAIN t |-> IF t[i].id = op.id THEN Updated(t[i], op) ELSE t[i]]
  BY DEF Apply, Updated
<1> HIDE DEF u, n
<1>3. IsSeq(u) /\ DOMAIN u = 1 .. n
  <2>1. u = [i \in 1 .. n |-> u[i]]  BY <1>1, <1>2
  <2> QED BY <1>1, <2>1, FunctionIsSeq
<1>4. ASSUME NEW x, IsNode(x)
      PROVE  /\ IsNode(Updated(x, op)) /\ Updated(x, op).id = x.id
             /\ Updated(x, op).parent = x.parent /\ Updated(x, op).component = x.component
  <2> DEFINE f == (op.field :> op.value) @@ x.fields
             r == [id |-> x.id, component |-> x.component, fields |-> x.fields, parent |-> x.parent]
  <2>1. x = r  BY <1>4 DEF IsNode
  <2> HIDE DEF f
  <2>2. [r EXCEPT !.fields = f] =
          [id |-> x.id, component |-> x.component, fields |-> f, parent |-> x.parent]
    OBVIOUS
  <2>3. Updated(x, op) = [x EXCEPT !.fields = f]  BY DEF Updated, f
  <2>4. Updated(x, op) =
          [id |-> x.id, component |-> x.component, fields |-> f, parent |-> x.parent]
    BY <2>1, <2>2, <2>3
  <2> QED BY <2>4 DEF IsNode
<1>5. \A i \in DOMAIN t :
        /\ IsNode(u[i]) /\ u[i].id = t[i].id /\ u[i].parent = t[i].parent
        /\ u[i].component = t[i].component
  <2> SUFFICES ASSUME NEW i \in DOMAIN t
               PROVE  /\ IsNode(u[i]) /\ u[i].id = t[i].id /\ u[i].parent = t[i].parent
                      /\ u[i].component = t[i].component
    OBVIOUS
  <2>1. IsNode(t[i])  BY DEF IsTree
  <2> QED BY <1>2, <1>4, <2>1
<1>6. IsTree(u)
  <2>1. ASSUME NEW i \in DOMAIN t, t[i].parent # NoParent
        PROVE  \E j \in 1 .. i - 1 : u[j].id = t[i].parent
    <3>1. PICK j \in 1 .. i - 1 : t[j].id = t[i].parent  BY <2>1 DEF IsTree
    <3>2. j \in DOMAIN t  BY <1>1, <3>1
    <3> QED BY <1>5, <3>1, <3>2
  <2> QED BY <1>1, <1>3, <1>5, <2>1 DEF IsTree
<1> QED BY <1>1, <1>2, <1>3, <1>5, <1>6 DEF u

\* A directive leaves the tree alone.
LEMMA DirectiveLeaves ==
  ASSUME NEW t, NEW op, op.type = "!"
  PROVE  Apply(t, op) = t
BY DEF Apply

\* What is accepted leaves a tree.
LEMMA ApplyKeepsTree ==
  ASSUME NEW t, IsTree(t), NEW op, IsOp(op), NEW rules, Accepts(t, op, rules)
  PROVE  IsTree(Apply(t, op))
<1>1. CASE op.type = "+"
  BY <1>1, IndexHasIds, MountAppends DEF Accepts
<1>2. CASE op.type = "~"
  BY <1>2, UpdateChanges
<1>3. CASE op.type = "-"
  BY <1>3, UnmountLeaves
<1>4. CASE op.type = "!"
  BY <1>4, DirectiveLeaves
<1> QED BY <1>1, <1>2, <1>3, <1>4 DEF IsOp

-----------------------------------------------------------------------------
(***************************************************************************)
(* The past, and what a replay shows of it.                                *)
(***************************************************************************)

\* h lists the trees that n operations made from b, each of them accepted.
Past(h, b, ops, n) ==
  /\ n \in Nat
  /\ DOMAIN ops = 1 .. n
  /\ h[0] = b
  /\ IsTree(b)
  /\ \A k \in 1 .. n :
       /\ IsOp(ops[k])
       /\ Accepts(h[k - 1], ops[k], Permitted)
       /\ h[k] = Apply(h[k - 1], ops[k])
       /\ IsTree(h[k])

\* Runs over the first operations.
LEMMA PrefixRuns ==
  ASSUME NEW n \in Nat, NEW ops, NEW k \in 0 .. n, NEW t, NEW rules, NEW g,
         Trees(g, t, ops, n, rules)
  PROVE  Run(t, SubSeq(ops, 1, k), rules) = g[k]
<1> DEFINE part == SubSeq(ops, 1, k)
           S == {ops[i] : i \in 1 .. k}
<1>1. k \in Nat /\ 1 \in Int /\ k \in Int /\ \A i \in 1 .. k : ops[i] \in S
  OBVIOUS
<1> HIDE DEF S
<1>2. part \in Seq(S) /\ Len(part) = k /\ \A i \in 1 .. k : part[i] = ops[i]
  BY <1>1, SubSeqProperties
<1>3. DOMAIN part = 1 .. k  BY <1>2, LenProperties
<1> HIDE DEF part
<1>4. Trees(g, t, part, k, rules)
  <2>1. \A i \in 1 .. k : i \in 1 .. n  OBVIOUS
  <2> QED BY <1>2, <2>1 DEF Trees
<1>5. Run(t, part, rules) = g[k]  BY <1>1, <1>3, <1>4, TreesAreRuns
<1> QED BY <1>5 DEF part

\* The past is a run.
LEMMA PastIsRun ==
  ASSUME NEW h, NEW b, NEW ops, NEW n, Past(h, b, ops, n)
  PROVE  Trees(h, b, ops, n, Permitted) /\ Run(b, ops, Permitted) = h[n]
<1>1. Trees(h, b, ops, n, Permitted)  BY DEF Past, Trees, Step
<1> QED BY <1>1, TreesAreRuns DEF Past

\* A part of a tree stays a part of it, when the tree accepts an operation and
\* the part takes it if it can.
LEMMA StepKeepsPart ==
  ASSUME NEW s, IsTree(s), NEW b, IsTree(b), ToSet(s) \subseteq ToSet(b),
         NEW op, IsOp(op), Accepts(b, op, Permitted)
  PROVE  /\ IsTree(Step(s, op, Component))
         /\ ToSet(Step(s, op, Component)) \subseteq ToSet(Apply(b, op))
<1> DEFINE u == Step(s, op, Component)
<1>1. IsTree(u)
  BY ApplyKeepsTree DEF Step
<1>2. \A i \in DOMAIN s : \E j \in DOMAIN b : s[i] = b[j]
  BY DEF ToSet
<1>3. Ids(s) \subseteq Ids(b)
  BY <1>2 DEF Ids
<1>4. CASE op.type = "+"
  <2>1. DOMAIN Index(s) = Ids(s) /\ DOMAIN Index(b) = Ids(b)  BY IndexHasIds
  <2>2. op.id \notin Ids(b) /\ (op.parent = NoParent \/ op.parent \in Ids(b))
    BY <1>4, <2>1 DEF Accepts
  <2> DEFINE node == [id |-> op.id, component |-> op.component,
                      fields |-> op.fields, parent |-> op.parent]
  <2>3. ToSet(Apply(b, op)) = ToSet(b) \union {node}
    BY <1>4, <2>2, MountAppends
  <2>4. CASE Accepts(s, op, Component)
    <3>1. op.id \notin Ids(s) /\ (op.parent = NoParent \/ op.parent \in Ids(s))
      BY <1>4, <2>1, <2>4 DEF Accepts
    <3>2. ToSet(Apply(s, op)) = ToSet(s) \union {node}
      BY <1>4, <3>1, MountAppends
    <3> QED BY <1>1, <2>3, <2>4, <3>2 DEF Step
  <2>5. CASE ~ Accepts(s, op, Component)
    BY <1>1, <2>3, <2>5 DEF Step
  <2> QED BY <2>4, <2>5
<1>5. CASE op.type = "~"
  <2>1. /\ DOMAIN Apply(b, op) = DOMAIN b
        /\ \A j \in DOMAIN b :
             Apply(b, op)[j] = IF b[j].id = op.id THEN Updated(b[j], op) ELSE b[j]
    BY <1>5, UpdateChanges
  <2>2. CASE Accepts(s, op, Component)
    <3>1. /\ DOMAIN Apply(s, op) = DOMAIN s
          /\ \A i \in DOMAIN s :
               Apply(s, op)[i] = IF s[i].id = op.id THEN Updated(s[i], op) ELSE s[i]
      BY <1>5, UpdateChanges
    <3>2. ASSUME NEW i \in DOMAIN s  PROVE Apply(s, op)[i] \in ToSet(Apply(b, op))
      <4>1. PICK j \in DOMAIN b : s[i] = b[j]  BY <1>2
      <4>2. Apply(s, op)[i] = Apply(b, op)[j]  BY <2>1, <3>1, <4>1
      <4> QED BY <2>1, <4>1, <4>2 DEF ToSet
    <3>3. ToSet(Apply(s, op)) \subseteq ToSet(Apply(b, op))
      BY <3>1, <3>2 DEF ToSet
    <3> QED BY <1>1, <2>2, <3>3 DEF Step
  <2>3. CASE ~ Accepts(s, op, Component)
    <3>1. op.id \notin Ids(s)  BY <1>5, <2>3, IndexHasIds DEF Accepts
    <3>2. ASSUME NEW i \in DOMAIN s  PROVE s[i] \in ToSet(Apply(b, op))
      <4>1. PICK j \in DOMAIN b : s[i] = b[j]  BY <1>2
      <4>2. s[i].id # op.id  BY <3>1 DEF Ids
      <4>3. Apply(b, op)[j] = s[i]  BY <2>1, <4>1, <4>2
      <4> QED BY <2>1, <4>1, <4>3 DEF ToSet
    <3>3. ToSet(s) \subseteq ToSet(Apply(b, op))  BY <3>2 DEF ToSet
    <3> QED BY <1>1, <2>3, <3>3 DEF Step
  <2> QED BY <2>2, <2>3
<1>6. CASE op.type = "-"
  <2> DEFINE Bs == Below(s, op.id)  Bb == Below(b, op.id)
             S == {d \in Ids(b) : d \in Ids(s) => d \in Bs}
  <2>1. ToSet(Apply(b, op)) = {n \in ToSet(b) : n.id \notin Bb}
    BY <1>6, UnmountLeaves
  <2>2. ToSet(Apply(s, op)) = {n \in ToSet(s) : n.id \notin Bs}
    BY <1>6, UnmountLeaves
  <2>3. /\ Bs \subseteq Ids(s)
        /\ \A i \in DOMAIN s : s[i].id \in Bs <=> (s[i].id = op.id \/ s[i].parent \in Bs)
    BY BelowIsClosed
  <2> HIDE DEF Bs, Bb
  <2>4. ASSUME NEW j \in DOMAIN b, b[j].id = op.id \/ b[j].parent \in S
        PROVE  b[j].id \in S
    <3>1. b[j].id \in Ids(b)  BY DEF Ids
    <3>2. ASSUME b[j].id \in Ids(s)  PROVE b[j].id \in Bs
      <4>1. PICK i \in DOMAIN s : s[i].id = b[j].id  BY <3>2 DEF Ids
      <4>2. PICK l \in DOMAIN b : s[i] = b[l]  BY <1>2
      <4>3. l = j  BY <4>1, <4>2 DEF IsTree
      <4>4. CASE b[j].id = op.id
        BY <2>3, <4>1, <4>4
      <4>5. CASE b[j].parent \in S
        <5>1. s[i].parent \in Ids(b)  BY <4>2, <4>3, <4>5
        <5>2. s[i].parent # NoParent
          <6>1. Ids(b) \subseteq Id  BY DEF IsTree, Ids
          <6> QED BY <5>1, <6>1, IdIsNoParent
        <5>3. s[i].parent \in Ids(s)
          <6>1. PICK k \in 1 .. i - 1 : s[k].id = s[i].parent  BY <5>2 DEF IsTree
          <6>2. Len(s) \in Nat /\ DOMAIN s = 1 .. Len(s)  BY ListHasLength DEF IsTree
          <6>3. k \in DOMAIN s  BY <6>1, <6>2
          <6> QED BY <6>1, <6>3 DEF Ids
        <5>4. s[i].parent \in Bs  BY <4>2, <4>3, <4>5, <5>3
        <5> QED BY <2>3, <4>1, <5>4
      <4> QED BY <2>4, <4>4, <4>5
    <3> QED BY <3>1, <3>2
  <2>5. Bb \subseteq S
    <3>1. S \in SUBSET Ids(b)  OBVIOUS
    <3> HIDE DEF S
    <3> QED BY <2>4, <3>1, BelowIsLeast DEF Bb
  <2>6. ASSUME NEW n \in ToSet(s), n.id \notin Bs  PROVE n \in ToSet(b) /\ n.id \notin Bb
    <3>1. n.id \in Ids(s)  BY DEF ToSet, Ids
    <3> QED BY <2>5, <2>6, <3>1
  <2>7. u = Apply(s, op)  BY <1>6 DEF Step, Accepts
  <2> QED BY <1>1, <2>1, <2>2, <2>6, <2>7
<1>7. CASE op.type = "!"
  <2>1. Apply(b, op) = b /\ Apply(s, op) = s  BY <1>7, DirectiveLeaves
  <2> QED BY <1>1, <2>1 DEF Step
<1> QED BY <1>4, <1>5, <1>6, <1>7 DEF IsOp

\* A replay shows a part of the past; all of it when nothing was forgotten.
LEMMA ReplaysArePast ==
  ASSUME NEW h, NEW b, NEW ops, NEW n, Past(h, b, ops, n),
         NEW g, Trees(g, EmptyTree, ops, n, Component), NEW k \in 0 .. n
  PROVE  /\ ToSet(g[k]) \subseteq ToSet(h[k])
         /\ b = EmptyTree => g[k] = h[k]
<1> DEFINE Fits(i) == /\ IsTree(g[i]) /\ IsTree(h[i])
                      /\ ToSet(g[i]) \subseteq ToSet(h[i])
                      /\ b = EmptyTree => g[i] = h[i]
           Bad == {i \in Nat : i <= n /\ ~ Fits(i)}
<1>1. n \in Nat  BY DEF Past
<1>2. Fits(0)
  <2>1. g[0] = EmptyTree /\ h[0] = b /\ IsTree(b)  BY DEF Trees, Past
  <2>2. ToSet(EmptyTree) = {}  BY EmptyIsTree DEF ToSet
  <2> QED BY <2>1, <2>2, EmptyIsTree
<1>3. ASSUME NEW i \in 1 .. n, Fits(i - 1)  PROVE Fits(i)
  <2>1. /\ IsOp(ops[i]) /\ Accepts(h[i - 1], ops[i], Permitted)
        /\ h[i] = Apply(h[i - 1], ops[i]) /\ IsTree(h[i])
    BY DEF Past
  <2>2. g[i] = Step(g[i - 1], ops[i], Component)  BY DEF Trees
  <2>3. IsTree(g[i]) /\ ToSet(g[i]) \subseteq ToSet(h[i])
    BY <1>3, <2>1, <2>2, StepKeepsPart
  <2>4. ASSUME b = EmptyTree  PROVE g[i] = h[i]
    <3>1. g[i - 1] = h[i - 1]  BY <1>3, <2>4
    <3>2. Accepts(h[i - 1], ops[i], Component)
      BY <2>1, PermittedAssumption DEF Accepts, PermittedAssumption
    <3> QED BY <2>1, <2>2, <3>1, <3>2 DEF Step
  <2> QED BY <2>1, <2>3, <2>4
<1> HIDE DEF Fits
<1>4. ASSUME Bad # {}  PROVE FALSE
  <2>1. PICK i \in Bad : \A j \in Bad : ~ (<<j, i>> \in Less)
    BY <1>4, LessIsWellFounded, WFMin
  <2>2. i # 0  BY <1>2, <2>1
  <2>3. i \in 1 .. n /\ i - 1 \in Nat /\ i - 1 <= n /\ <<i - 1, i>> \in Less
    BY <1>1, <2>1, <2>2 DEF Less
  <2>4. Fits(i - 1)  BY <2>1, <2>3
  <2> QED BY <1>3, <2>1, <2>3, <2>4
<1>5. Fits(k)  BY <1>1, <1>4
<1> QED BY <1>5 DEF Fits

-----------------------------------------------------------------------------
(***************************************************************************)
(* The invariant.                                                          *)
(***************************************************************************)

\* The log leads from base to the tree, by way of trees that each accepted the
\* operation that came next.
LogLeadsHere ==
  /\ IsSeq(log)
  /\ \E n, h : Past(h, base, Operations(log), n) /\ h[n] = tree

\* A line that was parsed is an operation on a known component.
ParsedIsOp ==
  \A e \in Engine :
    stage[e] # "idle" =>
      IsOp(got[e]) /\ (got[e].type = "+" => got[e].component \in Component)

IInv ==
  /\ TypeOK
  /\ IsTree(tree)
  /\ LogLeadsHere
  /\ DOMAIN got = Engine
  /\ ParsedIsOp
  /\ VerdictsHold

\* The first tree is empty, and so is the log.
LEMMA InitInv == Init => IInv
<1> SUFFICES ASSUME Init  PROVE IInv
  OBVIOUS
<1>1. tree = EmptyTree /\ base = EmptyTree /\ log = <<>>  BY DEF Init
<1>2. IsTree(tree) /\ DOMAIN tree = {}  BY <1>1, EmptyIsTree
<1>3. IsSeq(log) /\ Len(log) = 0 /\ DOMAIN log = 1 .. 0
  <2>1. log = EmptyTree  BY <1>1 DEF EmptyTree
  <2>2. DOMAIN log = 1 .. 0  BY <2>1, EmptyIsTree
  <2> QED BY <2>1, <2>2, EmptyIsTree DEF IsTree
<1>4. LogLeadsHere
  <2>1. Kept(log) = {}  BY <1>3 DEF Kept
  <2> DEFINE q == [i \in 1 .. 0 |-> 0]
             h == [i \in 0 .. 0 |-> EmptyTree]
  <2>2. Lists(q, 0, Kept(log))  BY <2>1 DEF Lists
  <2>3. Operations(log) = [k \in 1 .. 0 |-> log[q[k]].op]
    BY <1>3, <2>2, OperationsAreListed
  <2>4. DOMAIN Operations(log) = 1 .. 0  BY <2>3
  <2>5. h[0] = EmptyTree  OBVIOUS
  <2> HIDE DEF h
  <2>6. Past(h, base, Operations(log), 0)
    BY <1>1, <1>2, <2>4, <2>5 DEF Past
  <2> QED BY <1>1, <1>3, <2>5, <2>6 DEF LogLeadsHere
<1>5. TypeOK
  BY <1>2, <1>3, BoundAssumption DEF TypeOK, Init, BoundAssumption
<1>6. DOMAIN got = Engine /\ ParsedIsOp /\ VerdictsHold
  BY DEF Init, ParsedIsOp, VerdictsHold
<1> QED BY <1>2, <1>4, <1>5, <1>6 DEF IInv

\* logEvent keeps the past: what it forgets, base has taken in.
LEMMA LogKeepsPast ==
  ASSUME NEW entry, LogEvent(entry), IsSeq(log), Len(log) <= MaxEntries,
         NEW n, NEW h, Past(h, base, Operations(Append(log, entry)), n)
  PROVE  /\ IsSeq(log') /\ Len(log') <= MaxEntries
         /\ \E m, g : Past(g, base', Operations(log'), m) /\ g[m] = h[n]
<1> DEFINE all == Append(log, entry)
<1>1. IsSeq(all) /\ Len(all) = Len(log) + 1  BY AppendIsSeq
<1>2. Len(log) \in Nat  BY ListHasLength
<1>3. MaxEntries \in Nat  BY BoundAssumption DEF BoundAssumption
<1>4. all # <<>>
  <2>1. EmptyTree = <<>>  BY DEF EmptyTree
  <2> HIDE DEF all
  <2> QED BY <1>1, <1>2, <2>1, EmptyIsTree
<1>5. CASE ~ (Len(all) > MaxEntries)
  <2>1. log' = all /\ base' = base  BY <1>5 DEF LogEvent
  <2> HIDE DEF all
  <2> QED BY <1>1, <1>2, <1>3, <1>5, <2>1 DEF all
<1>6. CASE Len(all) > MaxEntries
  <2>1. log' = Tail(all) /\ base' = Run(base, Operations(<<Head(all)>>), Permitted)
    BY <1>6 DEF LogEvent
  <2>2. Past(h, base, Operations(all), n)  OBVIOUS
  <2> HIDE DEF all
  <2> DEFINE ops == Operations(all)  new == Operations(Tail(all))
             first == Operations(<<Head(all)>>)
  <2>3. PICK m \in Nat :
          /\ DOMAIN new = 1 .. m
          /\ Head(all).level # "pash" => new = ops /\ DOMAIN first = 1 .. 0
          /\ Head(all).level = "pash" =>
               /\ DOMAIN ops = 1 .. m + 1
               /\ \A k \in 1 .. m : new[k] = ops[k + 1]
               /\ DOMAIN first = 1 .. 1
               /\ first[1] = ops[1]
    BY <1>1, <1>4, OperationsOfTail
  <2>4. IsSeq(log') /\ Len(log') <= MaxEntries
    BY <1>1, <1>2, <1>3, <1>4, <2>1, TailIsSeq
  <2>5. base' = Run(base, first, Permitted) /\ Operations(log') = new  BY <2>1
  <2>6. Past(h, base, ops, n)  BY <2>2
  <2> HIDE DEF ops, new, first
  <2>7. CASE Head(all).level # "pash"
    <3>1. Trees(h, base, first, 0, Permitted)  BY <2>6 DEF Past, Trees
    <3>2. Run(base, first, Permitted) = h[0]
      <4>1. 0 \in Nat /\ DOMAIN first = 1 .. 0  BY <2>3, <2>7
      <4> QED BY <3>1, <4>1, TreesAreRuns
    <3>3. base' = base  BY <2>5, <2>6, <3>2 DEF Past
    <3>4. Past(h, base', Operations(log'), n)  BY <2>3, <2>5, <2>6, <2>7, <3>3
    <3> QED BY <2>4, <3>4
  <2>8. CASE Head(all).level = "pash"
    <3>1. n = m + 1
      <4>1. n \in Nat /\ 1 .. n = 1 .. m + 1  BY <2>3, <2>6, <2>8 DEF Past
      <4> QED BY <2>3, <4>1
    <3>2. 1 \in 1 .. n  BY <3>1
    <3>3. Trees(h, base, first, 1, Permitted)
      <4>1. h[1] = Step(h[1 - 1], ops[1], Permitted)  BY <2>6, <3>2 DEF Past, Step
      <4> QED BY <2>3, <2>6, <2>8, <4>1 DEF Past, Trees
    <3>4. base' = h[1]
      <4>1. 1 \in Nat /\ DOMAIN first = 1 .. 1  BY <2>3, <2>8
      <4>2. Run(base, first, Permitted) = h[1]  BY <3>3, <4>1, TreesAreRuns
      <4> QED BY <2>5, <4>2
    <3> DEFINE g == [k \in 0 .. m |-> h[k + 1]]
    <3>5. g[0] = h[1] /\ g[m] = h[m + 1]  OBVIOUS
    <3>6. ASSUME NEW k \in 1 .. m
          PROVE  k + 1 \in 1 .. n /\ (k + 1) - 1 = k /\ g[k] = h[k + 1] /\ g[k - 1] = h[k]
      <4>1. k + 1 \in 1 .. n /\ (k + 1) - 1 = k  BY <3>1
      <4>2. k \in 0 .. m /\ k - 1 \in 0 .. m /\ (k - 1) + 1 = k  OBVIOUS
      <4> QED BY <4>1, <4>2
    <3> HIDE DEF g
    <3>7. ASSUME NEW k \in 1 .. m
          PROVE  /\ IsOp(new[k])
                 /\ Accepts(g[k - 1], new[k], Permitted)
                 /\ g[k] = Apply(g[k - 1], new[k])
                 /\ IsTree(g[k])
      <4> DEFINE l == k + 1
      <4>1. l \in 1 .. n /\ l - 1 = k /\ g[k] = h[l] /\ g[k - 1] = h[l - 1] /\ new[k] = ops[l]
        BY <2>3, <2>8, <3>6
      <4> HIDE DEF l
      <4> QED BY <2>6, <4>1 DEF Past
    <3>8. IsTree(h[1])  BY <2>6, <3>2 DEF Past
    <3>9. Past(g, base', Operations(log'), m)
      BY <2>3, <2>5, <3>4, <3>5, <3>7, <3>8 DEF Past
    <3> QED BY <2>4, <3>1, <3>5, <3>9
  <2> QED BY <2>7, <2>8
<1> QED BY <1>5, <1>6

-----------------------------------------------------------------------------
(***************************************************************************)
(* The way of a component name over the wire.  (What becomes of the values *)
(* is the last part of this module.)                                       *)
(***************************************************************************)

\* The equation of the function in FlattenSeq.
IsFlat(f, seqs, n) ==
  f = [i \in 1 .. n |-> IF i = 1 THEN seqs[i] ELSE f[i - 1] \o seqs[i]]

LEMMA FlatExists ==
  ASSUME NEW seqs, NEW n \in Nat
  PROVE  \E f : IsFlat(f, seqs, n)
<1> DEFINE Bad == {k \in Nat : ~ \E f : IsFlat(f, seqs, k)}
<1>1. ASSUME Bad # {}  PROVE FALSE
  <2>1. PICK k \in Bad : \A j \in Bad : ~ (<<j, k>> \in Less)
    BY <1>1, LessIsWellFounded, WFMin
  <2>2. CASE k = 0
    <3> DEFINE f == [i \in 1 .. 0 |-> 0]
    <3>1. IsFlat(f, seqs, 0)  BY DEF IsFlat
    <3> QED BY <2>1, <2>2, <3>1
  <2>3. CASE k # 0
    <3> DEFINE j == k - 1
    <3>1. j \in Nat /\ k = j + 1 /\ <<j, k>> \in Less
      BY <2>1, <2>3 DEF Less
    <3>2. PICK f : IsFlat(f, seqs, j)
      <4>1. j \notin Bad  BY <2>1, <3>1
      <4> QED BY <3>1, <4>1
    <3> HIDE DEF j
    <3> DEFINE h == [i \in 1 .. k |-> IF i = 1 THEN seqs[i] ELSE f[i - 1] \o seqs[i]]
    <3>3. ASSUME NEW i \in 1 .. j  PROVE h[i] = f[i]
      <4>1. i \in 1 .. k  BY <3>1
      <4>2. f[i] = IF i = 1 THEN seqs[i] ELSE f[i - 1] \o seqs[i]  BY <3>2 DEF IsFlat
      <4> QED BY <4>1, <4>2
    <3>4. ASSUME NEW i \in 1 .. k
          PROVE  h[i] = IF i = 1 THEN seqs[i] ELSE h[i - 1] \o seqs[i]
      <4>1. i # 1 => i - 1 \in 1 .. j  BY <3>1
      <4>2. h[i] = IF i = 1 THEN seqs[i] ELSE f[i - 1] \o seqs[i]  OBVIOUS
      <4> HIDE DEF h
      <4> QED BY <3>3, <4>1, <4>2
    <3>5. IsFlat(h, seqs, k)
      <4>1. h = [i \in 1 .. k |-> h[i]]  OBVIOUS
      <4> HIDE DEF h
      <4>2. h = [i \in 1 .. k |-> IF i = 1 THEN seqs[i] ELSE h[i - 1] \o seqs[i]]
        BY <3>4, <4>1
      <4> QED BY <4>2 DEF IsFlat
    <3> QED BY <2>1, <3>5
  <2> QED BY <2>2, <2>3
<1> QED BY <1>1

\* A text joined to another.
LEMMA ConcatIsSeq ==
  ASSUME NEW s, IsSeq(s), NEW t, IsSeq(t)
  PROVE  /\ IsSeq(s \o t)
         /\ Len(s \o t) = Len(s) + Len(t)
         /\ \A i \in 1 .. Len(s) : (s \o t)[i] = s[i]
         /\ \A i \in 1 .. Len(t) : (s \o t)[Len(s) + i] = t[i]
<1> DEFINE S == ToSet(s) \union ToSet(t)
           u == s \o t
<1>1. s \in Seq(S) /\ t \in Seq(S)  BY SeqMonotonic DEF IsSeq
<1> HIDE DEF S
<1>2. /\ u \in Seq(S) /\ Len(u) = Len(s) + Len(t)
      /\ \A i \in 1 .. Len(s) + Len(t) : u[i] = IF i <= Len(s) THEN s[i] ELSE t[i - Len(s)]
  BY <1>1, ConcatProperties
<1>3. Len(s) \in Nat /\ Len(t) \in Nat  BY ListHasLength
<1>4. u = [i \in 1 .. Len(s) + Len(t) |-> u[i]]  BY <1>1, <1>2, LenProperties
<1> HIDE DEF u
<1>5. IsSeq(u)
  <2>1. Len(s) + Len(t) \in Nat  BY <1>3
  <2> QED BY <1>4, <2>1, FunctionIsSeq
<1>6. \A i \in 1 .. Len(s) : u[i] = s[i]  BY <1>2, <1>3
<1>7. \A i \in 1 .. Len(t) : u[Len(s) + i] = t[i]
  <2>1. \A i \in 1 .. Len(t) : /\ Len(s) + i \in 1 .. Len(s) + Len(t)
                               /\ ~ (Len(s) + i <= Len(s)) /\ (Len(s) + i) - Len(s) = i
    BY <1>3
  <2> QED BY <1>2, <2>1
<1> QED BY <1>2, <1>5, <1>6, <1>7 DEF u

\* text is name, or name and something that begins with a pipe.
Begins(text, name) ==
  /\ IsSeq(text)
  /\ Len(name) <= Len(text)
  /\ \A i \in 1 .. Len(name) : text[i] = name[i]
  /\ Len(name) < Len(text) => text[Len(name) + 1] = "|"

\* What is joined of texts is a text; when those after the first begin with a
\* pipe, it begins with the first.
LEMMA Flattened ==
  ASSUME NEW n \in Nat, NEW seqs, seqs = [i \in 1 .. n |-> seqs[i]],
         \A i \in 1 .. n : IsSeq(seqs[i])
  PROVE  /\ IsSeq(FlattenSeq(seqs))
         /\ n # 0 /\ (\A i \in 2 .. n : seqs[i] # <<>> /\ seqs[i][1] = "|")
              => Begins(FlattenSeq(seqs), seqs[1])
<1>1. IsSeq(seqs) /\ Len(seqs) = n  BY FunctionIsSeq
<1>2. CASE n = 0
  BY <1>1, <1>2 DEF FlattenSeq
<1>3. CASE n # 0
  <2> DEFINE f == CHOOSE g : IsFlat(g, seqs, n)
  <2>1. FlattenSeq(seqs) = f[n]
    BY <1>1, <1>3 DEF FlattenSeq, IsFlat
  <2>2. IsFlat(f, seqs, n)  BY FlatExists
  <2> HIDE DEF f
  <2>3. f[1] = seqs[1] /\ \A i \in 2 .. n : f[i] = f[i - 1] \o seqs[i]
    <3>1. \A i \in 1 .. n : f[i] = IF i = 1 THEN seqs[i] ELSE f[i - 1] \o seqs[i]
      BY <2>2 DEF IsFlat
    <3>2. 1 \in 1 .. n /\ \A i \in 2 .. n : i \in 1 .. n /\ i # 1  BY <1>3
    <3> QED BY <3>1, <3>2
  <2> DEFINE Piped == \A i \in 2 .. n : seqs[i] # <<>> /\ seqs[i][1] = "|"
             Good(i) == IsSeq(f[i]) /\ (Piped => Begins(f[i], seqs[1]))
             Bad == {i \in Nat : 1 <= i /\ i <= n /\ ~ Good(i)}
  <2>4. Good(1)
    <3>1. 1 \in 1 .. n  BY <1>3
    <3>2. Len(seqs[1]) \in Nat  BY <3>1, ListHasLength
    <3> QED BY <2>3, <3>1, <3>2 DEF Begins
  <2>5. ASSUME NEW i \in 2 .. n, Good(i - 1)  PROVE Good(i)
    <3>1. f[i] = f[i - 1] \o seqs[i] /\ i \in 1 .. n /\ 1 \in 1 .. n
      <4>1. i \in 1 .. n /\ 1 \in 1 .. n  OBVIOUS
      <4> QED BY <2>3, <4>1
    <3>2. IsSeq(f[i - 1]) /\ IsSeq(seqs[i])  BY <2>5, <3>1
    <3> DEFINE s == f[i - 1]  t == seqs[i]
    <3>3. /\ IsSeq(f[i]) /\ Len(f[i]) = Len(s) + Len(t)
          /\ \A k \in 1 .. Len(s) : f[i][k] = s[k]
          /\ \A k \in 1 .. Len(t) : f[i][Len(s) + k] = t[k]
      <4>1. IsSeq(s) /\ IsSeq(t) /\ f[i] = s \o t  BY <3>1, <3>2
      <4> HIDE DEF s, t
      <4> QED BY <4>1, ConcatIsSeq
    <3>4. Len(s) \in Nat /\ Len(t) \in Nat /\ Len(seqs[1]) \in Nat
      BY <3>1, <3>2, ListHasLength
    <3>5. ASSUME Piped  PROVE Begins(f[i], seqs[1])
      <4>1. Begins(s, seqs[1])  BY <2>5, <3>5
      <4>2. t # <<>> /\ t[1] = "|"  BY <3>5
      <4>3. Len(t) > 0
        <5> HIDE DEF t
        <5>1. Len(t) # 0  BY <3>2, <4>2, TailIsSeq DEF t
        <5> QED BY <3>4, <5>1
      <4> HIDE DEF s, t
      <4>4. f[i][Len(s) + 1] = "|"
        <5>1. 1 \in 1 .. Len(t)  BY <3>4, <4>3
        <5> QED BY <3>3, <4>2, <5>1
      <4>5. Len(seqs[1]) <= Len(s) /\ \A k \in 1 .. Len(seqs[1]) : k \in 1 .. Len(s)
        BY <3>4, <4>1 DEF Begins
      <4>6. \A k \in 1 .. Len(seqs[1]) : f[i][k] = seqs[1][k]
        BY <3>3, <4>1, <4>5 DEF Begins
      <4>7. f[i][Len(seqs[1]) + 1] = "|"
        <5>1. CASE Len(seqs[1]) = Len(s)
          BY <4>4, <5>1
        <5>2. CASE Len(seqs[1]) # Len(s)
          <6>1. Len(seqs[1]) < Len(s) /\ Len(seqs[1]) + 1 \in 1 .. Len(s)
            BY <3>4, <4>5, <5>2
          <6> QED BY <3>3, <4>1, <6>1 DEF Begins
        <5> QED BY <5>1, <5>2
      <4>8. Len(seqs[1]) <= Len(f[i])  BY <3>3, <3>4, <4>5
      <4> QED BY <3>3, <4>6, <4>7, <4>8 DEF Begins
    <3> QED BY <3>3, <3>5
  <2> HIDE DEF Good
  <2>6. ASSUME Bad # {}  PROVE FALSE
    <3>1. PICK i \in Bad : \A j \in Bad : ~ (<<j, i>> \in Less)
      BY <2>6, LessIsWellFounded, WFMin
    <3>2. i # 1  BY <2>4, <3>1
    <3>3. i \in 2 .. n /\ i - 1 \in Nat /\ 1 <= i - 1 /\ i - 1 <= n /\ <<i - 1, i>> \in Less
      BY <3>1, <3>2 DEF Less
    <3>4. Good(i - 1)  BY <3>1, <3>3
    <3> QED BY <2>5, <3>1, <3>3, <3>4
  <2>7. Good(n)  BY <1>3, <2>6
  <2> QED BY <2>1, <2>7 DEF Good
<1> QED BY <1>2, <1>3

\* The empty text, and a text of one character.
LEMMA ShortTexts == IsSeq(<<>>) /\ \A x : IsSeq(<<x>>) /\ Len(<<x>>) = 1 /\ <<x>>[1] = x
<1>1. <<>> = [i \in 1 .. 0 |-> <<>>[i]]  OBVIOUS
<1>2. IsSeq(<<>>)  BY <1>1, FunctionIsSeq
<1>3. ASSUME NEW x  PROVE IsSeq(<<x>>) /\ Len(<<x>>) = 1 /\ <<x>>[1] = x
  <2>1. <<x>> = [i \in 1 .. 1 |-> <<x>>[i]]  OBVIOUS
  <2>2. IsSeq(<<x>>)  BY <2>1, FunctionIsSeq
  <2> QED BY <2>2
<1> QED BY <1>2, <1>3

\* An escaped value is a text.
LEMMA EscapeIsSeq ==
  ASSUME NEW v, IsSeq(v)
  PROVE  IsSeq(Escape(v))
<1> DEFINE n == Len(v)
           parts == [i \in DOMAIN v |-> IF v[i] = "|" THEN <<"\\", "|">> ELSE <<v[i]>>]
           lead == IF v # <<>> /\ v[1] = "@" THEN <<"\\">> ELSE <<>>
<1>1. n \in Nat /\ DOMAIN v = 1 .. n  BY ListHasLength
<1>2. IsSeq(<<"\\", "|">>)
  <2>1. <<"\\", "|">> = [i \in 1 .. 2 |-> <<"\\", "|">>[i]]  OBVIOUS
  <2> QED BY <2>1, FunctionIsSeq
<1>3. \A i \in 1 .. n : IsSeq(parts[i])  BY <1>1, <1>2, ShortTexts
<1>4. parts = [i \in 1 .. n |-> parts[i]]  BY <1>1
<1>5. IsSeq(lead)  BY ShortTexts
<1>6. Escape(v) = lead \o FlattenSeq(parts)  BY DEF Escape
<1> HIDE DEF n, parts, lead
<1>7. IsSeq(FlattenSeq(parts))  BY <1>1, <1>3, <1>4, Flattened
<1> QED BY <1>5, <1>6, <1>7, ConcatIsSeq

\* Two lists of texts make one.
LEMMA ListsOfTexts ==
  ASSUME NEW s, IsSeq(s), NEW t, IsSeq(t),
         \A i \in DOMAIN s : IsSeq(s[i]), \A i \in DOMAIN t : IsSeq(t[i])
  PROVE  \A i \in DOMAIN (s \o t) : IsSeq((s \o t)[i])
<1> DEFINE u == s \o t
<1>1. /\ IsSeq(u) /\ Len(u) = Len(s) + Len(t)
      /\ \A i \in 1 .. Len(s) : u[i] = s[i]
      /\ \A i \in 1 .. Len(t) : u[Len(s) + i] = t[i]
  BY ConcatIsSeq
<1> HIDE DEF u
<1>2. /\ Len(s) \in Nat /\ DOMAIN s = 1 .. Len(s)
      /\ Len(t) \in Nat /\ DOMAIN t = 1 .. Len(t)
      /\ DOMAIN u = 1 .. Len(s) + Len(t)
  BY <1>1, ListHasLength
<1>3. ASSUME NEW i \in DOMAIN u  PROVE IsSeq(u[i])
  <2>1. CASE i \in 1 .. Len(s)
    BY <1>1, <1>2, <2>1
  <2>2. CASE i \notin 1 .. Len(s)
    <3> DEFINE j == i - Len(s)
    <3>1. j \in 1 .. Len(t) /\ i = Len(s) + j  BY <1>2, <2>2
    <3> HIDE DEF j
    <3> QED BY <1>1, <1>2, <3>1
  <2> QED BY <2>1, <2>2
<1> QED BY <1>3 DEF u

\* The line of a mount begins with the name of the component.
LEMMA JoinBegins ==
  ASSUME NEW n \in Nat \ {0}, NEW parts, parts = [i \in 1 .. n |-> parts[i]],
         \A i \in 1 .. n : IsSeq(parts[i])
  PROVE  Begins(Join(parts), parts[1])
<1> DEFINE seqs == [i \in DOMAIN parts |-> <<"|">> \o parts[i]]
           flat == FlattenSeq(seqs)
           c == parts[1]
<1>1. Join(parts) = Tail(flat)  BY DEF Join
<1>2. DOMAIN parts = 1 .. n  BY Zenon
<1>3. ASSUME NEW i \in 1 .. n
      PROVE  /\ IsSeq(seqs[i]) /\ Len(seqs[i]) = 1 + Len(parts[i])
             /\ seqs[i][1] = "|"
             /\ \A k \in 1 .. Len(parts[i]) : seqs[i][1 + k] = parts[i][k]
  <2>1. seqs[i] = <<"|">> \o parts[i]  BY <1>2
  <2>2. IsSeq(<<"|">>) /\ Len(<<"|">>) = 1 /\ <<"|">>[1] = "|"  BY ShortTexts
  <2> SUFFICES ASSUME NEW bar, bar = <<"|">>, NEW p, p = parts[i]
               PROVE  /\ IsSeq(seqs[i]) /\ Len(seqs[i]) = 1 + Len(p)
                      /\ seqs[i][1] = "|"
                      /\ \A k \in 1 .. Len(p) : seqs[i][1 + k] = p[k]
    OBVIOUS
  <2>3. IsSeq(bar) /\ IsSeq(p) /\ Len(bar) = 1 /\ bar[1] = "|"  BY <2>2
  <2>4. seqs[i] = bar \o p  BY <2>1
  <2> HIDE DEF seqs
  <2>5. /\ IsSeq(bar \o p) /\ Len(bar \o p) = Len(bar) + Len(p)
        /\ \A k \in 1 .. Len(bar) : (bar \o p)[k] = bar[k]
        /\ \A k \in 1 .. Len(p) : (bar \o p)[Len(bar) + k] = p[k]
    BY <2>3, ConcatIsSeq
  <2>6. 1 \in 1 .. Len(bar)  BY <2>3
  <2> QED BY <2>3, <2>4, <2>5, <2>6
<1>4. seqs = [i \in 1 .. n |-> seqs[i]]  BY <1>2
<1> HIDE DEF seqs
<1>5. \A i \in 1 .. n : seqs[i] # <<>>
  <2> SUFFICES ASSUME NEW i \in 1 .. n, seqs[i] = <<>>  PROVE FALSE
    OBVIOUS
  <2>1. Len(seqs[i]) = 1 + Len(parts[i]) /\ Len(parts[i]) \in Nat  BY <1>3, ListHasLength
  <2>2. Len(seqs[i]) = 0  OBVIOUS
  <2> QED BY <2>1, <2>2
<1>6. Begins(flat, seqs[1])
  <2>1. n \in Nat /\ n # 0 /\ \A i \in 1 .. n : IsSeq(seqs[i])  BY <1>3
  <2>2. \A i \in 2 .. n : seqs[i] # <<>> /\ seqs[i][1] = "|"
    <3>1. \A i \in 2 .. n : i \in 1 .. n  OBVIOUS
    <3> QED BY <1>3, <1>5, <3>1
  <2> QED BY <1>4, <2>1, <2>2, Flattened
<1> HIDE DEF flat
<1>7. /\ Len(seqs[1]) = 1 + Len(c) /\ IsSeq(c) /\ Len(c) \in Nat
      /\ \A k \in 1 .. Len(c) : seqs[1][1 + k] = c[k]
  <2>1. 1 \in 1 .. n  OBVIOUS
  <2> QED BY <1>3, <2>1, ListHasLength
<1> HIDE DEF c
<1>8. /\ IsSeq(flat) /\ 1 + Len(c) <= Len(flat)
      /\ \A k \in 1 .. Len(c) : flat[1 + k] = c[k]
      /\ 1 + Len(c) < Len(flat) => flat[2 + Len(c)] = "|"
  <2>1. \A k \in 1 .. Len(c) : 1 + k \in 1 .. 1 + Len(c)  BY <1>7
  <2>2. (1 + Len(c)) + 1 = 2 + Len(c)  BY <1>7
  <2> QED BY <1>6, <1>7, <2>1, <2>2 DEF Begins
<1>9. Len(flat) \in Nat  BY <1>8, ListHasLength
<1>10. flat # <<>>
  <2>1. Len(flat) # 0  BY <1>7, <1>8, <1>9
  <2>2. ASSUME flat = <<>>  PROVE Len(flat) = 0  BY <2>2
  <2> QED BY <2>1, <2>2
<1> DEFINE rest == Tail(flat)
<1>11. /\ IsSeq(rest) /\ Len(rest) = Len(flat) - 1
       /\ \A i \in 1 .. Len(flat) - 1 : rest[i] = flat[i + 1]
  BY <1>8, <1>10, TailIsSeq
<1> HIDE DEF rest
<1>12. \A k \in 1 .. Len(c) : rest[k] = c[k]
  <2>1. \A k \in 1 .. Len(c) : k \in 1 .. Len(flat) - 1 /\ k + 1 = 1 + k
    BY <1>7, <1>8, <1>9
  <2> QED BY <1>8, <1>11, <2>1
<1>13. Len(c) <= Len(rest)  BY <1>7, <1>8, <1>9, <1>11
<1>14. ASSUME Len(c) < Len(rest)  PROVE rest[Len(c) + 1] = "|"
  <2>1. /\ 1 + Len(c) < Len(flat) /\ Len(c) + 1 \in 1 .. Len(flat) - 1
        /\ (Len(c) + 1) + 1 = 2 + Len(c)
    BY <1>7, <1>9, <1>11, <1>14
  <2> QED BY <1>8, <1>11, <2>1
<1>15. Begins(rest, c)  BY <1>11, <1>12, <1>13, <1>14 DEF Begins
<1> QED BY <1>1, <1>15 DEF rest, c

\* A name is a text of at least one character, none of them special.
LEMMA NameHasText ==
  ASSUME NEW c, IsSeq(c), IsName(c)
  PROVE  /\ Len(c) \in Nat \ {0} /\ DOMAIN c = 1 .. Len(c)
         /\ \A i \in 1 .. Len(c) : c[i] \notin Special
<1>1. c # <<>> /\ \A i \in DOMAIN c : c[i] \notin Special  BY DEF IsName
<1>2. Len(c) \in Nat \ {0}  BY <1>1, TailIsSeq
<1>3. DOMAIN c = 1 .. Len(c)  BY ListHasLength
<1> QED BY <1>1, <1>2, <1>3

\* Blanks at the end do not touch the name.
LEMMA TrimBegins ==
  ASSUME NEW c, IsSeq(c), IsName(c), NEW text, Begins(text, c)
  PROVE  Begins(TrimEnd(text), c)
<1> DEFINE n == Len(text)
           ink == {i \in DOMAIN text : text[i] # " "}
           kept == {0} \union ink
           l == Len(c)
<1>1. IsSeq(text) /\ n \in Nat /\ DOMAIN text = 1 .. n
  BY ListHasLength DEF Begins
<1>2. l \in Nat \ {0} /\ \A i \in 1 .. l : c[i] \notin Special  BY NameHasText
<1>3. l \in ink
  <2>1. l \in 1 .. l /\ l <= n /\ text[l] = c[l]  BY <1>2 DEF Begins
  <2>2. c[l] # " "  BY <1>2, <2>1 DEF Special
  <2>3. l \in DOMAIN text
    <3> HIDE DEF l, n
    <3> QED BY <1>1, <1>2, <2>1
  <2>4. text[l] # " "  BY <2>1, <2>2
  <2> HIDE DEF l
  <2> QED BY <2>3, <2>4
<1>4. ink \in SUBSET (1 .. n)  BY <1>1
<1>5. TrimEnd(text) = SubSeq(text, 1, Max(kept))  BY DEF TrimEnd
<1> HIDE DEF n, ink, l
<1>6. Max(ink) \in ink /\ \A i \in ink : i <= Max(ink)
  BY <1>1, <1>3, <1>4, MaxOfPositions
<1>7. Max(kept) \in kept /\ \A i \in kept : Max(kept) >= i
  <2> DEFINE top == Max(ink)
  <2>1. top \in 1 .. n /\ \A i \in ink : i <= top  BY <1>4, <1>6
  <2>2. \A i \in ink : i \in 1 .. n  BY <1>4
  <2> HIDE DEF top
  <2>3. \A i \in kept : top >= i  BY <1>1, <2>1, <2>2
  <2>4. top \in kept  BY <1>6 DEF top
  <2> HIDE DEF kept
  <2> QED BY <2>3, <2>4 DEF Max
<1> DEFINE m == Max(kept)
<1>8. m \in 1 .. n /\ l <= m
  <2>1. m \in kept /\ m >= l  BY <1>3, <1>7
  <2> HIDE DEF m
  <2>2. m = 0 \/ m \in 1 .. n  BY <1>4, <2>1
  <2> QED BY <1>1, <1>2, <2>1, <2>2
<1> HIDE DEF m
<1> DEFINE u == SubSeq(text, 1, m)
           S == ToSet(text)
<1>9. \A i \in 1 .. m : text[i] \in S  BY <1>1, <1>8 DEF ToSet
<1> HIDE DEF S
<1>10. 1 \in Int /\ m \in Int /\ m \in Nat /\ m - 1 + 1 = m /\ 1 <= m /\ m <= n  BY <1>1, <1>8
<1>11. u \in Seq(S) /\ Len(u) = m /\ \A i \in 1 .. m : u[i] = text[i]
  BY <1>9, <1>10, SubSeqProperties
<1>12. u = [i \in 1 .. m |-> u[i]]  BY <1>11, LenProperties
<1> HIDE DEF u
<1>13. IsSeq(u)  BY <1>10, <1>12, FunctionIsSeq
<1>14. \A i \in 1 .. l : u[i] = c[i]
  <2>1. \A i \in 1 .. l : i \in 1 .. m /\ text[i] = c[i]  BY <1>2, <1>8, <1>10 DEF Begins, l
  <2> QED BY <1>11, <2>1
<1>15. ASSUME l < m  PROVE u[l + 1] = "|"
  <2>1. l + 1 \in 1 .. m /\ l < n  BY <1>1, <1>2, <1>10, <1>15
  <2>2. text[l + 1] = "|"  BY <2>1 DEF Begins, l, n
  <2> QED BY <1>11, <2>1, <2>2
<1>16. Begins(u, c)
  <2>1. Len(c) = l  BY DEF l
  <2> QED BY <1>8, <1>11, <1>13, <1>14, <1>15, <2>1 DEF Begins
<1> QED BY <1>5, <1>16 DEF u, m

\* What is listed first is the least.
LEMMA FirstListed ==
  ASSUME NEW at \in SUBSET Nat, NEW m, NEW q, Lists(q, m, at),
         NEW i \in at, \A j \in at : i <= j
  PROVE  m \in Nat \ {0} /\ q[1] = i
<1>1. m \in Nat /\ q \in [1 .. m -> at]  BY DEF Lists
<1>2. PICK k \in 1 .. m : q[k] = i  BY DEF Lists
<1>3. m \in Nat \ {0} /\ 1 \in 1 .. m  BY <1>1, <1>2
<1>4. q[1] \in Nat /\ q[k] \in Nat /\ i <= q[1]  BY <1>1, <1>2, <1>3
<1>5. 1 < k => q[1] < q[k]  BY <1>2, <1>3 DEF Lists
<1>6. k = 1  BY <1>2, <1>4, <1>5
<1> QED BY <1>2, <1>3, <1>6

\* Picking every position changes nothing.
LEMMA PickAll ==
  ASSUME NEW s, IsSeq(s)
  PROVE  Pick(s, DOMAIN s) = s
<1> DEFINE n == Len(s)
           q == [k \in 1 .. n |-> k]
<1>1. n \in Nat /\ DOMAIN s = 1 .. n /\ s = [i \in 1 .. n |-> s[i]]  BY ListHasLength
<1> HIDE DEF n
<1>2. Lists(q, n, 1 .. n)  BY <1>1 DEF Lists
<1>3. 1 .. n \in SUBSET Nat  BY <1>1
<1>4. \A k \in 1 .. n : q[k] = k  OBVIOUS
<1> HIDE DEF q
<1>5. PICK at : at = 1 .. n  OBVIOUS
<1>6. at \in SUBSET Nat /\ Lists(q, n, at)  BY <1>2, <1>3, <1>5
<1>7. Pick(s, at) = [k \in 1 .. n |-> s[q[k]]]  BY <1>6, PickFollows
<1>8. [k \in 1 .. n |-> s[q[k]]] = [k \in 1 .. n |-> s[k]]  BY <1>4
<1> QED BY <1>1, <1>5, <1>7, <1>8

\* The first token of a text that begins with a name is the name.
LEMMA TokensBegin ==
  ASSUME NEW s, NEW c, IsSeq(c), IsName(c), Begins(s, c)
  PROVE  \E k \in Nat \ {0} : DOMAIN Tokens(s) = 1 .. k /\ Tokens(s)[1] = c
<1> DEFINE n == Len(s)
           l == Len(c)
           pipes == {i \in DOMAIN s : s[i] = "|" /\ ~ Escapes(s, i - 1)}
           id == [i \in DOMAIN s |-> i]
           P == Pick(id, pipes)
           cut == <<0>> \o P \o <<n + 1>>
           Token(k) == SubSeq(s, cut[k] + 1, cut[k + 1] - 1)
           tokens == [k \in 1 .. Len(cut) - 1 |->
                        Pick(Token(k), {i \in DOMAIN Token(k) : ~ Escapes(Token(k), i)})]
<1>1. Tokens(s) = tokens  BY DEF Tokens
<1>2. IsSeq(s) /\ n \in Nat /\ DOMAIN s = 1 .. n /\ l <= n
  BY ListHasLength DEF Begins
<1>3. l \in Nat \ {0} /\ DOMAIN c = 1 .. l /\ \A i \in 1 .. l : c[i] \notin Special
  BY NameHasText
<1>4. \A i \in 1 .. l : s[i] = c[i]  BY DEF Begins
<1>5. l < n => s[l + 1] = "|"  BY DEF Begins
<1>6. pipes \in SUBSET (1 .. n)  BY <1>2
<1>7. ASSUME NEW i \in pipes  PROVE l + 1 <= i
  <2>1. i \in 1 .. n /\ s[i] = "|"  BY <1>2
  <2>2. i \notin 1 .. l  BY <1>3, <1>4, <2>1 DEF Special
  <2> HIDE DEF l, n
  <2> QED BY <1>3, <2>1, <2>2
<1>8. ASSUME l < n  PROVE l + 1 \in pipes
  <2>1. s[l + 1] = "|"  BY <1>5, <1>8
  <2>2. l + 1 \in DOMAIN s /\ (l + 1) - 1 = l /\ l \in 1 .. l
    <3> HIDE DEF l, n
    <3> QED BY <1>2, <1>3, <1>8
  <2>3. s[l] # "\\"  BY <1>3, <1>4, <2>2 DEF Special
  <2>4. ~ Escapes(s, l)  BY <2>3 DEF Escapes
  <2>5. ~ Escapes(s, (l + 1) - 1)  BY <2>2, <2>4
  <2> QED BY <2>1, <2>2, <2>5
<1> HIDE DEF pipes
<1>9. PICK m, q : Lists(q, m, pipes)  BY <1>2, <1>6, ListExists
<1>10. m \in Nat /\ q \in [1 .. m -> pipes] /\ pipes \in SUBSET Nat
  BY <1>2, <1>6, <1>9 DEF Lists
<1>11. P = [k \in 1 .. m |-> q[k]]
  <2>1. P = [k \in 1 .. m |-> id[q[k]]]
    <3> HIDE DEF id
    <3> QED BY <1>9, <1>10, PickFollows
  <2>2. \A k \in 1 .. m : id[q[k]] = q[k]
    <3>1. \A k \in 1 .. m : q[k] \in DOMAIN s  BY <1>2, <1>6, <1>10
    <3> QED BY <3>1
  <2> HIDE DEF P, id
  <2> QED BY <2>1, <2>2
<1> HIDE DEF P
<1>12. IsSeq(P) /\ Len(P) = m /\ \A k \in 1 .. m : P[k] = q[k]
  <2>1. P = [k \in 1 .. m |-> P[k]]  BY <1>11
  <2> QED BY <1>10, <1>11, <2>1, FunctionIsSeq
<1>13. /\ Len(cut) = m + 2 /\ cut[1] = 0
       /\ m = 0 => cut[2] = n + 1
       /\ m # 0 => cut[2] = q[1]
  <2> SUFFICES ASSUME NEW a, a = << 0 >>, NEW z, z = <<n + 1>>
               PROVE  /\ Len((a \o P) \o z) = m + 2 /\ ((a \o P) \o z)[1] = 0
                      /\ m = 0 => ((a \o P) \o z)[2] = n + 1
                      /\ m # 0 => ((a \o P) \o z)[2] = q[1]
    OBVIOUS
  <2>1. IsSeq(a) /\ Len(a) = 1 /\ a[1] = 0  BY ShortTexts
  <2>2. IsSeq(z) /\ Len(z) = 1 /\ z[1] = n + 1  BY ShortTexts
  <2> DEFINE u == a \o P
  <2>3. /\ IsSeq(u) /\ Len(u) = 1 + m
        /\ \A i \in 1 .. 1 : u[i] = a[i]
        /\ \A i \in 1 .. m : u[1 + i] = P[i]
    <3>1. /\ IsSeq(a \o P) /\ Len(a \o P) = Len(a) + Len(P)
          /\ \A i \in 1 .. Len(a) : (a \o P)[i] = a[i]
          /\ \A i \in 1 .. Len(P) : (a \o P)[Len(a) + i] = P[i]
      BY <1>12, <2>1, ConcatIsSeq
    <3> HIDE DEF n, l
    <3> QED BY <1>12, <2>1, <3>1
  <2> HIDE DEF u
  <2>4. /\ Len(u \o z) = (1 + m) + 1
        /\ \A i \in 1 .. 1 + m : (u \o z)[i] = u[i]
        /\ \A i \in 1 .. 1 : (u \o z)[(1 + m) + i] = z[i]
    <3>1. /\ IsSeq(u \o z) /\ Len(u \o z) = Len(u) + Len(z)
          /\ \A i \in 1 .. Len(u) : (u \o z)[i] = u[i]
          /\ \A i \in 1 .. Len(z) : (u \o z)[Len(u) + i] = z[i]
      BY <2>2, <2>3, ConcatIsSeq
    <3> HIDE DEF n, l
    <3> QED BY <2>2, <2>3, <3>1
  <2>5. Len(u \o z) = m + 2 /\ 1 \in 1 .. 1 + m /\ 1 \in 1 .. 1  BY <1>10, <2>4
  <2>6. (u \o z)[1] = 0  BY <2>1, <2>3, <2>4, <2>5
  <2>7. ASSUME m = 0  PROVE (u \o z)[2] = n + 1
    <3>1. (1 + m) + 1 = 2  BY <2>7
    <3>2. (u \o z)[(1 + m) + 1] = z[1]  BY <2>4, <2>5
    <3> QED BY <2>2, <3>1, <3>2
  <2>8. ASSUME m # 0  PROVE (u \o z)[2] = q[1]
    <3>1. 2 \in 1 .. 1 + m /\ 1 \in 1 .. m /\ 1 + 1 = 2  BY <1>10, <2>8
    <3>2. (u \o z)[2] = u[2]  BY <2>4, <3>1
    <3>3. u[1 + 1] = P[1]  BY <2>3, <3>1
    <3> QED BY <1>12, <3>1, <3>2, <3>3
  <2> QED BY <2>5, <2>6, <2>7, <2>8 DEF u
<1>14. cut[2] = l + 1
  <2> HIDE DEF l, n, cut
  <2>1. CASE l < n
    <3>1. m \in Nat \ {0} /\ q[1] = l + 1
      <4>1. l + 1 \in pipes /\ \A j \in pipes : l + 1 <= j  BY <1>7, <1>8, <2>1
      <4> SUFFICES ASSUME NEW i, i = l + 1  PROVE m \in Nat \ {0} /\ q[1] = i
        OBVIOUS
      <4> QED BY <1>9, <1>10, <4>1, FirstListed
    <3> QED BY <1>13, <3>1
  <2>2. CASE ~ (l < n)
    <3>1. l = n  BY <1>2, <1>3, <2>2
    <3>2. pipes = {}
      <4>1. \A i \in pipes : i \in 1 .. n /\ l + 1 <= i  BY <1>6, <1>7
      <4>2. \A i \in 1 .. n : ~ (l + 1 <= i)  BY <1>2, <3>1
      <4> QED BY <4>1, <4>2
    <3>3. m = 0
      <4> SUFFICES ASSUME m # 0  PROVE FALSE
        OBVIOUS
      <4>1. 1 \in 1 .. m  BY <1>10
      <4> QED BY <1>10, <3>2, <4>1
    <3> QED BY <1>13, <3>1, <3>3
  <2> QED BY <2>1, <2>2
<1> HIDE DEF cut
<1>15. SubSeq(s, 1, l) = c
  <2> DEFINE u == SubSeq(s, 1, l)  S == ToSet(s)
  <2>1. \A i \in 1 .. l : s[i] \in S
    <3>1. \A i \in 1 .. l : i \in DOMAIN s
      <4> HIDE DEF l, n
      <4> QED BY <1>2, <1>3
    <3> QED BY <3>1 DEF ToSet
  <2> HIDE DEF l, n, S
  <2>2. 1 \in Int /\ l \in Int /\ l \in Nat /\ l - 1 + 1 = l /\ 1 <= l
    BY <1>3
  <2>3. u \in Seq(S) /\ Len(u) = l /\ \A i \in 1 .. l : u[i] = s[i]
    BY <2>1, <2>2, SubSeqProperties
  <2>4. u = [i \in 1 .. l |-> u[i]]  BY <2>3, LenProperties
  <2> HIDE DEF u
  <2>5. u = [i \in 1 .. l |-> c[i]]  BY <1>4, <2>3, <2>4
  <2>6. c = [i \in 1 .. l |-> c[i]]  BY ListHasLength DEF l
  <2> QED BY <2>5, <2>6 DEF u
<1>16. Token(1) = c
  <2>1. cut[1] + 1 = 1 /\ cut[1 + 1] - 1 = l
    <3>1. 1 + 1 = 2 /\ (l + 1) - 1 = l
      <4> HIDE DEF l
      <4> QED BY <1>3
    <3> QED BY <1>13, <1>14, <3>1
  <2> QED BY <1>15, <2>1
<1> HIDE DEF Token
<1>17. {i \in DOMAIN c : ~ Escapes(c, i)} = DOMAIN c
  BY <1>3 DEF Escapes, Special
<1>18. DOMAIN tokens = 1 .. m + 1 /\ m + 1 \in Nat \ {0} /\ 1 \in 1 .. m + 1
  <2>1. Len(cut) - 1 = m + 1 /\ m + 1 \in Nat \ {0} /\ 1 \in 1 .. m + 1
    BY <1>10, <1>13
  <2> QED BY <2>1
<1>19. tokens[1] = c
  <2>1. 1 \in 1 .. Len(cut) - 1  BY <1>10, <1>13
  <2>2. tokens[1] = Pick(Token(1), {i \in DOMAIN Token(1) : ~ Escapes(Token(1), i)})
    BY <2>1
  <2>3. tokens[1] = Pick(c, {i \in DOMAIN c : ~ Escapes(c, i)})  BY <1>16, <2>2
  <2> HIDE DEF tokens
  <2> QED BY <1>17, <2>3, PickAll
<1> HIDE DEF tokens
<1> QED BY <1>1, <1>18, <1>19

\* The parser finds the name again.
LEMMA MountKeepsName ==
  ASSUME NEW line, NEW c, IsSeq(c), IsName(c), Begins(line.rest, c)
  PROVE  ParseMount(line, Schemas).component = c
<1> DEFINE rest == TrimEnd(line.rest)
           tokens == Tokens(rest)
           named == {k \in DOMAIN tokens : Named(tokens[k])}
           at == DOMAIN tokens \ named
           positional == Pick(tokens, at)
<1>1. ParseMount(line, Schemas).component =
        IF positional = <<>> THEN <<>> ELSE Head(positional)
  BY DEF ParseMount
<1>2. PICK k \in Nat \ {0} : DOMAIN tokens = 1 .. k /\ tokens[1] = c
  <2>1. Begins(rest, c)  BY TrimBegins
  <2> HIDE DEF rest
  <2> QED BY <2>1, TokensBegin
<1> HIDE DEF tokens
<1>3. 1 \in at
  <2>1. c # <<>> /\ c[1] \notin Special
    <3>1. 1 \in 1 .. Len(c) /\ \A i \in 1 .. Len(c) : c[i] \notin Special
      BY NameHasText
    <3> QED BY <3>1 DEF IsName
  <2>2. ~ Named(c)  BY <2>1 DEF Named, Special
  <2>3. 1 \in DOMAIN tokens  BY <1>2
  <2> QED BY <1>2, <2>2, <2>3
<1>4. at \in SUBSET (1 .. k)  BY <1>2
<1> HIDE DEF at
<1>5. PICK m, q : Lists(q, m, at)  BY <1>4, ListExists
<1>6. at \in SUBSET Nat /\ \A j \in at : 1 <= j  BY <1>4
<1>7. m \in Nat \ {0} /\ q[1] = 1  BY <1>3, <1>5, <1>6, FirstListed
<1>8. positional = [j \in 1 .. m |-> tokens[q[j]]]
  BY <1>5, <1>6, PickFollows
<1> HIDE DEF positional
<1>9. positional[1] = c
  <2>1. 1 \in 1 .. m  BY <1>7
  <2> QED BY <1>2, <1>7, <1>8, <2>1
<1>10. IsSeq(positional) /\ Len(positional) = m
  <2>1. positional = [j \in 1 .. m |-> positional[j]]  BY <1>8
  <2> QED BY <1>7, <2>1, FunctionIsSeq
<1>11. positional # <<>>
  <2>1. ASSUME positional = <<>>  PROVE Len(positional) = 0  BY <2>1
  <2> QED BY <1>7, <1>10, <2>1
<1>12. Head(positional) = positional[1]  BY <1>10, <1>11, TailIsSeq
<1> QED BY <1>1, <1>9, <1>11, <1>12

\* The serializer puts the name first.
LEMMA SerializeBegins ==
  ASSUME NEW content \in Content \union Odd, NEW op \in Operation(content), op.type = "+"
  PROVE  Begins(Serialize(op).rest, op.component)
<1> DEFINE name == <<op.component>>
           values == [i \in DOMAIN op.content |-> Escape(op.content[i])]
           Pair == <<"@">> \o Parent \o <<"=">> \o op.parent
           parent == IF op.parent = NoParent THEN <<>> ELSE <<Pair>>
           parts == name \o values \o parent
<1>1. /\ op.component \in Component /\ op.content = content
      /\ op.parent \in Id \union {NoParent}
  BY DEF Operation
<1>2. Serialize(op).rest = Join(parts)  BY DEF Serialize
<1>3. IsSeq(op.component)  BY <1>1, NameAssumption
<1>4. IsSeq(name) /\ Len(name) = 1 /\ name[1] = op.component
      /\ \A i \in DOMAIN name : IsSeq(name[i])
  <2>1. IsSeq(name) /\ Len(name) = 1 /\ name[1] = op.component  BY ShortTexts
  <2> HIDE DEF name
  <2>2. DOMAIN name = 1 .. 1  BY <2>1, ListHasLength
  <2> QED BY <1>3, <2>1, <2>2
<1>5. IsSeq(values) /\ \A i \in DOMAIN values : IsSeq(values[i])
  <2>1. IsSeq(content) /\ \A i \in DOMAIN content : IsSeq(content[i])
    BY ContentAssumption
  <2>2. Len(content) \in Nat /\ DOMAIN content = 1 .. Len(content)
    BY <2>1, ListHasLength
  <2>3. \A i \in DOMAIN values : IsSeq(values[i])
    <3>1. \A i \in DOMAIN content : IsSeq(Escape(content[i]))  BY <2>1, EscapeIsSeq
    <3> QED BY <1>1, <3>1
  <2>4. values = [i \in 1 .. Len(content) |-> values[i]]  BY <1>1, <2>2
  <2> HIDE DEF values
  <2> QED BY <2>2, <2>3, <2>4, FunctionIsSeq
<1>6. IsSeq(parent) /\ \A i \in DOMAIN parent : IsSeq(parent[i])
  <2>1. CASE op.parent = NoParent
    <3>1. parent = <<>> /\ DOMAIN <<>> = {}  BY <2>1
    <3> HIDE DEF parent
    <3> QED BY <3>1, ShortTexts
  <2>2. CASE op.parent # NoParent
    <3>1. IsSeq(op.parent)  BY <1>1, <2>2, NameAssumption
    <3>2. IsSeq(Parent)  BY ShortTexts DEF Parent
    <3>3. IsSeq(<<"@">>) /\ IsSeq(<<"=">>)  BY ShortTexts
    <3>4. IsSeq(Pair)
      <4>1. IsSeq(<<"@">> \o Parent)  BY <3>2, <3>3, ConcatIsSeq
      <4>2. IsSeq((<<"@">> \o Parent) \o <<"=">>)  BY <3>3, <4>1, ConcatIsSeq
      <4> QED BY <3>1, <4>2, ConcatIsSeq
    <3> HIDE DEF Pair
    <3>5. parent = <<Pair>>  BY <2>2
    <3>6. IsSeq(parent) /\ Len(parent) = 1 /\ parent[1] = Pair  BY <3>5, ShortTexts
    <3> HIDE DEF parent
    <3>7. DOMAIN parent = 1 .. 1  BY <3>6, ListHasLength
    <3> QED BY <3>4, <3>6, <3>7
  <2> QED BY <2>1, <2>2
<1> HIDE DEF name, values, parent
<1> DEFINE front == name \o values
<1>7. IsSeq(front) /\ Len(front) = Len(name) + Len(values) /\ front[1] = op.component
      /\ \A i \in DOMAIN front : IsSeq(front[i])
  <2>1. /\ IsSeq(name \o values) /\ Len(name \o values) = Len(name) + Len(values)
        /\ \A i \in 1 .. Len(name) : (name \o values)[i] = name[i]
    BY <1>4, <1>5, ConcatIsSeq
  <2>2. 1 \in 1 .. Len(name)  BY <1>4
  <2>3. \A i \in DOMAIN (name \o values) : IsSeq((name \o values)[i])
    BY <1>4, <1>5, ListsOfTexts
  <2> QED BY <1>4, <2>1, <2>2, <2>3
<1> HIDE DEF front
<1>8. IsSeq(parts) /\ Len(parts) = Len(front) + Len(parent) /\ parts[1] = op.component
      /\ \A i \in DOMAIN parts : IsSeq(parts[i])
  <2>1. Len(values) \in Nat  BY <1>5, ListHasLength
  <2>2. /\ IsSeq(front \o parent) /\ Len(front \o parent) = Len(front) + Len(parent)
        /\ \A i \in 1 .. Len(front) : (front \o parent)[i] = front[i]
    BY <1>6, <1>7, ConcatIsSeq
  <2>3. 1 \in 1 .. Len(front)  BY <1>4, <1>7, <2>1
  <2>4. \A i \in DOMAIN (front \o parent) : IsSeq((front \o parent)[i])
    BY <1>6, <1>7, ListsOfTexts
  <2>5. parts = front \o parent  BY DEF front
  <2> QED BY <1>7, <2>2, <2>3, <2>4, <2>5
<1> HIDE DEF parts
<1>9. Len(parts) \in Nat \ {0}
  BY <1>4, <1>5, <1>6, <1>7, <1>8, ListHasLength
<1> DEFINE n == Len(parts)
<1>10. parts = [i \in 1 .. n |-> parts[i]] /\ \A i \in 1 .. n : IsSeq(parts[i])
  BY <1>8, ListHasLength
<1>11. n \in Nat \ {0}  BY <1>9
<1> HIDE DEF n
<1>12. Begins(Join(parts), parts[1])  BY <1>10, <1>11, JoinBegins
<1> QED BY <1>2, <1>8, <1>12

\* An accepted operation that is logged makes the past longer.
LEMMA PastGrows ==
  ASSUME IsSeq(log), NEW n, NEW h, Past(h, base, Operations(log), n),
         NEW op, IsOp(op), Accepts(h[n], op, Permitted)
  PROVE  \E m, g : /\ Past(g, base, Operations(Append(log, Pash(op))), m)
                   /\ g[m] = Apply(h[n], op)
<1> DEFINE e == Pash(op)
           ops == Operations(log)
           new == Operations(Append(log, e))
<1>1. e.level = "pash" /\ e.op = op  BY DEF Pash
<1>2. Past(h, base, ops, n)  OBVIOUS
<1> HIDE DEF e
<1>3. PICK m \in Nat :
        /\ DOMAIN ops = 1 .. m
        /\ DOMAIN new = 1 .. m + 1
        /\ \A k \in 1 .. m : new[k] = ops[k]
        /\ new[m + 1] = op
  BY <1>1, OperationsOfAppend
<1> HIDE DEF ops, new
<1>4. m = n
  <2>1. n \in Nat /\ 1 .. n = 1 .. m  BY <1>2, <1>3 DEF Past
  <2> QED BY <1>3, <2>1
<1> DEFINE t == Apply(h[n], op)
           g == [k \in 0 .. n + 1 |-> IF k = n + 1 THEN t ELSE h[k]]
<1>5. n \in Nat  BY <1>3, <1>4
<1>6. g[n + 1] = t /\ \A k \in 0 .. n : g[k] = h[k]  BY <1>5
<1>7. IsTree(h[n])
  <2>1. CASE n = 0
    BY <1>2, <2>1 DEF Past
  <2>2. CASE n # 0
    <3>1. n \in 1 .. n  BY <1>5, <2>2
    <3> QED BY <1>2, <3>1 DEF Past
  <2> QED BY <2>1, <2>2
<1>8. IsTree(t)  BY <1>7, ApplyKeepsTree
<1>9. g[0] = base  BY <1>2, <1>5, <1>6 DEF Past
<1>10. (n + 1) - 1 = n /\ n \in 0 .. n /\ n + 1 \in Nat  BY <1>5
<1> HIDE DEF g, t
<1>11. ASSUME NEW k \in 1 .. n + 1
       PROVE  /\ IsOp(new[k])
              /\ Accepts(g[k - 1], new[k], Permitted)
              /\ g[k] = Apply(g[k - 1], new[k])
              /\ IsTree(g[k])
  <2>1. CASE k = n + 1
    <3>1. new[k] = op /\ g[k] = t /\ g[k - 1] = h[n]
      BY <1>3, <1>4, <1>6, <1>10, <2>1
    <3> QED BY <1>8, <3>1 DEF t
  <2>2. CASE k # n + 1
    <3>1. k \in 1 .. n /\ k \in 0 .. n /\ k - 1 \in 0 .. n  BY <1>5, <2>2
    <3>2. new[k] = ops[k] /\ g[k] = h[k] /\ g[k - 1] = h[k - 1]
      BY <1>3, <1>4, <1>6, <3>1
    <3> QED BY <1>2, <3>1, <3>2 DEF Past
  <2> QED BY <2>1, <2>2
<1>12. IsTree(base)  BY <1>2 DEF Past
<1>13. Past(g, base, new, n + 1)
  BY <1>3, <1>4, <1>9, <1>10, <1>11, <1>12 DEF Past
<1>14. g[n + 1] = Apply(h[n], op)  BY <1>6 DEF t
<1>15. new = Operations(Append(log, Pash(op)))  BY DEF new, e
<1> QED BY <1>13, <1>14, <1>15

\* Governance keeps what it refuses out of the tree.
LEMMA ApplyKeepsPermitted ==
  ASSUME NEW t, IsTree(t), \A n \in ToSet(t) : n.component \in Permitted,
         NEW op, IsOp(op), Accepts(t, op, Permitted)
  PROVE  \A n \in ToSet(Apply(t, op)) : n.component \in Permitted
<1>1. CASE op.type = "+"
  <2> DEFINE node == [id |-> op.id, component |-> op.component,
                      fields |-> op.fields, parent |-> op.parent]
  <2>1. op.component \in Permitted  BY <1>1 DEF Accepts
  <2>2. ToSet(Apply(t, op)) = ToSet(t) \union {node}
    BY <1>1, IndexHasIds, MountAppends DEF Accepts
  <2> QED BY <2>1, <2>2
<1>2. CASE op.type = "~"
  <2>1. /\ DOMAIN Apply(t, op) = DOMAIN t
        /\ \A i \in DOMAIN t : Apply(t, op)[i].component = t[i].component
    BY <1>2, UpdateChanges
  <2> QED BY <2>1 DEF ToSet
<1>3. CASE op.type = "-"
  BY <1>3, UnmountLeaves
<1>4. CASE op.type = "!"
  BY <1>4, DirectiveLeaves
<1> QED BY <1>1, <1>2, <1>3, <1>4 DEF IsOp

\* What TypeOK says of the tree.
LEMMA TypeOfTree ==
  ASSUME NEW t, IsTree(t), \A n \in ToSet(t) : n.component \in Permitted
  PROVE  \A i \in DOMAIN t :
           /\ t[i].id \in Id
           /\ t[i].component \in Permitted
           /\ \A j \in DOMAIN t : t[i].id = t[j].id => i = j
           /\ t[i].parent # NoParent => \E j \in 1 .. i - 1 : t[j].id = t[i].parent
BY DEF IsTree, ToSet

\* A line comes out of the parser as an operation on a known component.
LEMMA LineIsOp ==
  ASSUME NEW content \in Content \cup Odd, NEW op \in Operation(content)
  PROVE  LET parsed == ParseLine(Serialize(op), Schemas)
         IN /\ IsOp(parsed)
            /\ parsed.type = "+" => parsed.component \in Component
<1> DEFINE line == Serialize(op)
           parsed == ParseLine(line, Schemas)
<1> SUFFICES IsOp(parsed) /\ (parsed.type = "+" => parsed.component \in Component)
  OBVIOUS
<1>1. CASE op.type = "+"
  <2>1. /\ op.component \in Component
        /\ op.id \in Id
    BY <1>1 DEF Operation
  <2>2. line.type = "+" /\ line.id = op.id  BY <1>1 DEF Serialize
  <2>3. Begins(line.rest, op.component)  BY <1>1, SerializeBegins
  <2>4. IsSeq(op.component) /\ IsName(op.component)  BY <2>1, NameAssumption
  <2> HIDE DEF line
  <2>5. parsed = ParseMount(line, Schemas)  BY <2>2 DEF ParseLine
  <2>6. parsed.component = op.component  BY <2>3, <2>4, <2>5, MountKeepsName
  <2>7. parsed.type = "+" /\ parsed.id = op.id  BY <2>2, <2>5 DEF ParseMount
  <2> QED BY <2>1, <2>6, <2>7 DEF IsOp
<1>2. CASE op.type = "~"
  <2>1. op.id \in Id  BY <1>2 DEF Operation
  <2>2. line.type = "~" /\ line.id = op.id  BY <1>2 DEF Serialize
  <2> HIDE DEF line
  <2>3. parsed.type = "~" /\ parsed.id = op.id  BY <2>2 DEF ParseLine, ParseUpdate
  <2> QED BY <2>1, <2>3 DEF IsOp
<1>3. CASE op.type = "-"
  <2>1. op.id \in Id  BY <1>3 DEF Operation
  <2>2. line.type = "-" /\ line.id = op.id  BY <1>3 DEF Serialize
  <2> HIDE DEF line
  <2>3. parsed.type = "-" /\ parsed.id = op.id  BY <2>2 DEF ParseLine
  <2> QED BY <2>1, <2>3 DEF IsOp
<1>4. CASE op.type = "!"
  <2>1. line.type = "!"  BY <1>4 DEF Serialize
  <2> HIDE DEF line
  <2>2. parsed.type = "!"  BY <2>1 DEF ParseLine, ParseParams
  <2> QED BY <2>2 DEF IsOp
<1>5. op.type \in {"+", "~", "-", "!"}  BY DEF Operation
<1> QED BY <1>1, <1>2, <1>3, <1>4, <1>5

LEMMA ReceiveInv ==
  ASSUME IInv, NEW e \in Engine, Receive(e)
  PROVE  IInv'
<1>1. UNCHANGED <<tree, log, base, fresh, notes>>  BY DEF Receive
<1>2. PICK content \in Content \cup Odd :
        /\ lines' = IF content \in Odd THEN MaxLines ELSE lines + 1
        /\ \E op \in Operation(content) :
             /\ sent' = [sent EXCEPT ![e] = op]
             /\ got' = [got EXCEPT ![e] = ParseLine(Serialize(op), Schemas)]
  BY DEF Receive
<1>3. PICK op \in Operation(content) :
        got' = [got EXCEPT ![e] = ParseLine(Serialize(op), Schemas)]
  BY <1>2
<1> DEFINE parsed == ParseLine(Serialize(op), Schemas)
<1>4. IsOp(parsed) /\ (parsed.type = "+" => parsed.component \in Component)
  BY LineIsOp
<1>5. got' = [got EXCEPT ![e] = parsed]  BY <1>3
<1> HIDE DEF parsed
<1>6. stage' = [stage EXCEPT ![e] = "parsed"] /\ stage[e] = "idle" /\ lines < MaxLines
  BY DEF Receive
<1>7. /\ stage \in [Engine -> {"idle", "parsed", "valid"}]
      /\ lines \in 0 .. MaxLines /\ DOMAIN got = Engine
  BY DEF IInv, TypeOK
<1>8. TypeOK'
  <2>1. stage' \in [Engine -> {"idle", "parsed", "valid"}]  BY <1>6, <1>7
  <2>2. lines' \in 0 .. MaxLines
    BY <1>2, <1>6, <1>7, BoundAssumption DEF BoundAssumption
  <2> QED BY <1>1, <2>1, <2>2 DEF IInv, TypeOK
<1>9. LogLeadsHere' /\ IsTree(tree)'
  BY <1>1 DEF IInv, LogLeadsHere
<1>10. ASSUME NEW f \in Engine, f # e  PROVE stage'[f] = stage[f] /\ got'[f] = got[f]
  BY <1>5, <1>6, <1>7, <1>10
<1>11. stage'[e] = "parsed" /\ got'[e] = parsed /\ DOMAIN got' = Engine
  BY <1>5, <1>6, <1>7
<1>12. ParsedIsOp'
  BY <1>4, <1>10, <1>11 DEF IInv, ParsedIsOp
<1>13. VerdictsHold'
  BY <1>1, <1>10, <1>11 DEF IInv, VerdictsHold
<1> QED BY <1>8, <1>9, <1>11, <1>12, <1>13 DEF IInv

\* When an engine drops its line, nothing is known of it and nothing need be.
LEMMA Dropping ==
  ASSUME IInv, NEW e \in Engine, Drop(e)
  PROVE  /\ stage' \in [Engine -> {"idle", "parsed", "valid"}]
         /\ stage'[e] = "idle"
         /\ DOMAIN got' = Engine
         /\ \A f \in Engine : f # e => stage'[f] = stage[f] /\ got'[f] = got[f]
         /\ ParsedIsOp'
<1>1. stage \in [Engine -> {"idle", "parsed", "valid"}] /\ DOMAIN got = Engine
  BY DEF IInv, TypeOK
<1>2. stage' = [stage EXCEPT ![e] = "idle"] /\ got' = [got EXCEPT ![e] = Nothing]
  BY DEF Drop
<1>3. \A f \in Engine : f # e => stage'[f] = stage[f] /\ got'[f] = got[f]
  BY <1>1, <1>2
<1>4. stage'[e] = "idle" /\ DOMAIN got' = Engine
  BY <1>1, <1>2
<1>5. ParsedIsOp'  BY <1>3, <1>4 DEF IInv, ParsedIsOp
<1> QED BY <1>1, <1>2, <1>3, <1>4, <1>5

\* What the validator lets pass, the tree of this moment accepts.
LEMMA ValidIsAccepted ==
  ASSUME NEW op, IsOp(op), op.type = "+" => op.component \in Component,
         NEW t, Valid(op, Index(t), Schemas)
  PROVE  Accepts(t, op, Component)
BY DEF Valid, MountValid, StructureValid, UpdateValid, Accepts, IsOp

LEMMA ValidateInv ==
  ASSUME IInv, NEW e \in Engine, Validate(e)
  PROVE  IInv'
<1>1. UNCHANGED <<tree, log, base, lines, notes>> /\ stage[e] = "parsed"
  BY DEF Validate, counters
<1>2. /\ stage \in [Engine -> {"idle", "parsed", "valid"}]
      /\ fresh \in [Engine -> BOOLEAN] /\ DOMAIN got = Engine
  BY DEF IInv, TypeOK
<1>3. LogLeadsHere' /\ IsTree(tree)'
  BY <1>1 DEF IInv, LogLeadsHere
<1>4. CASE Valid(got[e], Index(tree), Schemas)
  <2>1. /\ stage' = [stage EXCEPT ![e] = "valid"]
        /\ fresh' = [fresh EXCEPT ![e] = TRUE]
        /\ got' = got
    BY <1>4 DEF Validate
  <2>2. IsOp(got[e]) /\ (got[e].type = "+" => got[e].component \in Component)
    BY <1>1 DEF IInv, ParsedIsOp
  <2>3. Accepts(tree, got[e], Component)  BY <1>4, <2>2, ValidIsAccepted
  <2>4. TypeOK'
    <3>1. stage' \in [Engine -> {"idle", "parsed", "valid"}]  BY <1>2, <2>1
    <3>2. fresh' \in [Engine -> BOOLEAN]  BY <1>2, <2>1
    <3> QED BY <1>1, <3>1, <3>2 DEF IInv, TypeOK
  <2>5. \A f \in Engine : f # e => stage'[f] = stage[f] /\ fresh'[f] = fresh[f]
    BY <1>2, <2>1
  <2>6. ParsedIsOp'
    BY <2>1, <2>2, <2>5 DEF IInv, ParsedIsOp
  <2>7. VerdictsHold'
    BY <1>1, <2>1, <2>3, <2>5 DEF IInv, VerdictsHold
  <2> QED BY <1>2, <1>3, <2>1, <2>4, <2>6, <2>7 DEF IInv
<1>5. CASE ~ Valid(got[e], Index(tree), Schemas)
  <2>1. Drop(e) /\ fresh' = fresh  BY <1>5 DEF Validate
  <2>2. /\ stage' \in [Engine -> {"idle", "parsed", "valid"}] /\ stage'[e] = "idle"
        /\ DOMAIN got' = Engine /\ ParsedIsOp'
        /\ \A f \in Engine : f # e => stage'[f] = stage[f] /\ got'[f] = got[f]
    BY <2>1, Dropping
  <2>3. TypeOK'  BY <1>1, <2>1, <2>2 DEF IInv, TypeOK
  <2>4. VerdictsHold'  BY <1>1, <2>1, <2>2 DEF IInv, VerdictsHold
  <2> QED BY <1>3, <2>2, <2>3, <2>4 DEF IInv
<1> QED BY <1>4, <1>5

LEMMA ApplyInv ==
  ASSUME IInv, NEW e \in Engine, ApplyAndLog(e)
  PROVE  IInv'
<1>1. Drop(e) /\ stage[e] = "valid" /\ UNCHANGED <<lines, notes>>
  BY DEF ApplyAndLog, counters
<1>2. /\ stage' \in [Engine -> {"idle", "parsed", "valid"}] /\ stage'[e] = "idle"
      /\ DOMAIN got' = Engine /\ ParsedIsOp'
      /\ \A f \in Engine : f # e => stage'[f] = stage[f] /\ got'[f] = got[f]
  BY <1>1, Dropping
<1>3. fresh \in [Engine -> BOOLEAN] /\ Len(log) <= MaxEntries  BY DEF IInv, TypeOK
<1>4. CASE Accepts(tree, got[e], Permitted)
  <2> DEFINE op == got[e]
  <2>1. /\ tree' = Apply(tree, op)
        /\ fresh' = [f \in Engine |-> fresh[f] /\ f # e /\ tree' = tree]
        /\ LogEvent(Pash(op))
    BY <1>4 DEF ApplyAndLog
  <2>2. IsOp(op)  BY <1>1 DEF IInv, ParsedIsOp
  <2>3. Accepts(tree, op, Permitted)  BY <1>4
  <2> HIDE DEF op
  <2>4. IsTree(tree) /\ IsSeq(log)  BY DEF IInv, LogLeadsHere
  <2>5. IsTree(tree')  BY <2>1, <2>2, <2>3, <2>4, ApplyKeepsTree
  <2>6. \A n \in ToSet(tree') : n.component \in Permitted
    <3>1. \A n \in ToSet(tree) : n.component \in Permitted  BY DEF IInv, TypeOK, ToSet
    <3> QED BY <2>1, <2>2, <2>3, <2>4, <3>1, ApplyKeepsPermitted
  <2>7. IsSeq(log') /\ Len(log') <= MaxEntries /\ LogLeadsHere'
    <3>1. PICK n, h : Past(h, base, Operations(log), n) /\ h[n] = tree
      BY DEF IInv, LogLeadsHere
    <3>2. PICK m, g : /\ Past(g, base, Operations(Append(log, Pash(op))), m)
                      /\ g[m] = Apply(h[n], op)
      BY <2>2, <2>3, <2>4, <3>1, PastGrows
    <3>3. g[m] = tree'  BY <2>1, <3>1, <3>2
    <3>4. /\ IsSeq(log') /\ Len(log') <= MaxEntries
          /\ \E l, f : Past(f, base', Operations(log'), l) /\ f[l] = g[m]
      BY <1>3, <2>1, <2>4, <3>2, LogKeepsPast
    <3> QED BY <3>3, <3>4 DEF LogLeadsHere
  <2>8. fresh' \in [Engine -> BOOLEAN]
    BY <2>1
  <2>9. TypeOK'
    <3>1. \A i \in DOMAIN tree' :
            /\ tree'[i].id \in Id
            /\ tree'[i].component \in Permitted
            /\ \A j \in DOMAIN tree' : tree'[i].id = tree'[j].id => i = j
            /\ tree'[i].parent # NoParent =>
                 \E j \in 1 .. i - 1 : tree'[j].id = tree'[i].parent
      BY <2>5, <2>6, TypeOfTree
    <3>2. lines' \in 0 .. MaxLines /\ notes' \in 0 .. MaxNotes
      BY <1>1 DEF IInv, TypeOK
    <3> QED BY <1>2, <2>7, <2>8, <3>1, <3>2 DEF TypeOK
  <2>10. VerdictsHold'
    <3> SUFFICES ASSUME NEW f \in Engine, stage'[f] = "valid", fresh'[f]
                 PROVE  Accepts(tree', got'[f], Component)
      BY DEF VerdictsHold
    <3>1. f # e  BY <1>2
    <3>2. fresh[f] /\ tree' = tree  BY <2>1
    <3> QED BY <1>2, <3>1, <3>2 DEF IInv, VerdictsHold
  <2> QED BY <1>2, <2>5, <2>7, <2>9, <2>10 DEF IInv
<1>5. CASE ~ Accepts(tree, got[e], Permitted)
  <2>1. fresh' = [fresh EXCEPT ![e] = FALSE] /\ UNCHANGED <<tree, log, base>>
    BY <1>5 DEF ApplyAndLog
  <2>2. fresh' \in [Engine -> BOOLEAN]  BY <1>3, <2>1
  <2>3. TypeOK'  BY <1>1, <1>2, <2>1, <2>2 DEF IInv, TypeOK
  <2>4. LogLeadsHere' /\ IsTree(tree)'  BY <2>1 DEF IInv, LogLeadsHere
  <2>5. \A f \in Engine : f # e => fresh'[f] = fresh[f]  BY <1>3, <2>1
  <2>6. VerdictsHold'  BY <1>2, <2>1, <2>5 DEF IInv, VerdictsHold
  <2> QED BY <1>2, <2>3, <2>4, <2>6 DEF IInv
<1> QED BY <1>4, <1>5

LEMMA NoteInv ==
  ASSUME IInv, LogNote
  PROVE  IInv'
<1>1. /\ UNCHANGED <<tree, stage, sent, got, fresh, lines>> /\ LogEvent(Note)
      /\ notes < MaxNotes /\ notes' = notes + 1
  BY DEF LogNote, engineVars
<1>2. IsSeq(log) /\ Len(log) <= MaxEntries /\ notes \in 0 .. MaxNotes
  BY DEF IInv, LogLeadsHere, TypeOK
<1>3. PICK n, h : Past(h, base, Operations(log), n) /\ h[n] = tree
  BY DEF IInv, LogLeadsHere
<1>4. Operations(Append(log, Note)) = Operations(log)
  <2>1. Note.level # "pash"  BY DEF Note
  <2> QED BY <1>2, <2>1, OperationsOfAppend
<1>5. /\ IsSeq(log') /\ Len(log') <= MaxEntries
      /\ \E m, g : Past(g, base', Operations(log'), m) /\ g[m] = h[n]
  <2>1. Past(h, base, Operations(Append(log, Note)), n)  BY <1>3, <1>4
  <2> QED BY <1>1, <1>2, <2>1, LogKeepsPast
<1>6. LogLeadsHere'  BY <1>1, <1>3, <1>5 DEF LogLeadsHere
<1>7. notes' \in 0 .. MaxNotes
  BY <1>1, <1>2, BoundAssumption DEF BoundAssumption
<1>8. TypeOK'  BY <1>1, <1>5, <1>7 DEF IInv, TypeOK
<1>9. VerdictsHold' /\ ParsedIsOp' /\ IsTree(tree)' /\ DOMAIN got' = Engine
  BY <1>1 DEF IInv, VerdictsHold, ParsedIsOp
<1> QED BY <1>6, <1>8, <1>9 DEF IInv

LEMMA StutterInv ==
  ASSUME IInv, UNCHANGED vars
  PROVE  IInv'
BY DEF IInv, TypeOK, LogLeadsHere, ParsedIsOp, VerdictsHold, vars, engineVars, counters

LEMMA StepInv == IInv /\ [Next]_vars => IInv'
  BY ReceiveInv, ValidateInv, ApplyInv, NoteInv, StutterInv DEF Next

THEOREM Invariance == Spec => []IInv
  BY InitInv, StepInv, PTL DEF Spec
-----------------------------------------------------------------------------
(* The properties of the run. *)

\* The tree stays a tree of permitted components, whatever the lines say and
\* however the engines overlap; the log keeps within its bound.
THEOREM TypeCorrect == Spec => []TypeOK
<1>1. IInv => TypeOK  BY DEF IInv
<1> QED BY <1>1, Invariance, PTL

\* What the validator let pass is accepted by the tree while nothing else is
\* applied, for every registry of schemas and every text (validator.js:118-126
\* against tree.js:77-82).
THEOREM VerdictsAreKept == Spec => []VerdictsHold
<1>1. IInv => VerdictsHold  BY DEF IInv
<1> QED BY <1>1, Invariance, PTL

\* The operations of a log are a list.
LEMMA OperationsLength ==
  ASSUME NEW entries, NEW n \in Nat, DOMAIN Operations(entries) = 1 .. n
  PROVE  Len(Operations(entries)) = n
<1> DEFINE ops == Operations(entries)
<1>1. ops = [i \in DOMAIN ops |-> ops[i]]  BY DEF Operations
<1> HIDE DEF ops
<1>2. ops = [i \in 1 .. n |-> ops[i]]  BY <1>1 DEF ops
<1>3. Len(ops) = n  BY <1>2, FunctionIsSeq
<1> QED BY <1>3 DEF ops

\* The replay of a step shows the tree of that step while the log is complete,
\* and never more than that tree when it is not (session.js:277-304).
THEOREM ReplayIsPast == Spec => []ReplayShowsThePast
<1>1. ASSUME IInv  PROVE ReplayShowsThePast
  <2> DEFINE ops == Operations(log)
  <2>1. PICK n, h : Past(h, base, ops, n) /\ h[n] = tree
    BY <1>1 DEF IInv, LogLeadsHere
  <2>2. n \in Nat /\ DOMAIN ops = 1 .. n  BY <2>1 DEF Past
  <2>3. Len(ops) = n  BY <2>2, OperationsLength
  <2> HIDE DEF ops
  <2>4. Trees(h, base, ops, n, Permitted) /\ Run(base, ops, Permitted) = tree
    BY <2>1, PastIsRun
  <2>5. PICK g : Trees(g, EmptyTree, ops, n, Component)
    BY <2>2, RunUnfolds
  <2>6. ASSUME NEW step \in 0 .. n
        PROVE  LET past == Run(base, SubSeq(ops, 1, step), Permitted)
                   replayed == Run(EmptyTree, SubSeq(ops, 1, step), Component)
               IN /\ ToSet(replayed) \subseteq ToSet(past)
                  /\ base = EmptyTree => replayed = past
    <3>1. Run(base, SubSeq(ops, 1, step), Permitted) = h[step]
      BY <2>2, <2>4, PrefixRuns
    <3>2. Run(EmptyTree, SubSeq(ops, 1, step), Component) = g[step]
      BY <2>2, <2>5, PrefixRuns
    <3>3. ToSet(g[step]) \subseteq ToSet(h[step]) /\ (base = EmptyTree => g[step] = h[step])
      BY <2>1, <2>5, ReplaysArePast
    <3> QED BY <3>1, <3>2, <3>3
  <2> QED BY <2>3, <2>4, <2>6 DEF ReplayShowsThePast, Replay, ops
<1> QED BY <1>1, Invariance, PTL
-----------------------------------------------------------------------------
(* The versions of the schemas. *)

LEMMA MaxOfVersions ==
  ASSUME NEW n \in Nat, NEW s \in SUBSET (0 .. n), s # {}
  PROVE  Max(s) \in s /\ \A v \in s : v <= Max(s)
<1>1. CASE s = {0}
  <2>1. \A x \in s : 0 \in s /\ \A y \in s : 0 >= y  BY <1>1
  <2>2. \A x \in s : x = 0  BY <1>1
  <2> QED BY <2>1, <2>2 DEF Max
<1>2. CASE s # {0}
  <2> DEFINE r == s \ {0}
  <2>1. r \in SUBSET (1 .. n) /\ r # {}  BY <1>2
  <2>2. r \subseteq s /\ \A v \in s : v = 0 \/ v \in r  OBVIOUS
  <2> HIDE DEF r
  <2>3. Max(r) \in r /\ \A v \in r : v <= Max(r)  BY <2>1, MaxOfPositions
  <2> DEFINE m == Max(r)
  <2>4. m \in 1 .. n /\ m \in s  BY <2>1, <2>2, <2>3
  <2>5. \A v \in s : v <= m  BY <2>2, <2>3, <2>4
  <2> HIDE DEF m
  <2>6. m \in s /\ \A y \in s : m >= y  BY <2>4, <2>5
  <2>7. Max(s) \in s /\ \A y \in s : Max(s) >= y  BY <2>6 DEF Max
  <2> DEFINE top == Max(s)
  <2>8. top \in s /\ \A y \in s : top >= y  BY <2>7
  <2> HIDE DEF top
  <2>9. \A y \in s : y \in 0 .. n  OBVIOUS
  <2>10. \A y \in s : y <= top  BY <2>8, <2>9
  <2> QED BY <2>8, <2>10 DEF top
<1> QED BY <1>1, <1>2

\* resolve never answers a version above the one asked for, and none below
\* another that would do; it answers nothing only if every version is too new,
\* or if the only older one is 0 (schema-resolver.js:57-73).
THEOREM ResolvesToTheHighest ==
  ASSUME NEW c, Versions(c) \subseteq Nat, NEW requested \in Nat
  PROVE  LET actual == ActualVersion(c, requested)
         IN IF actual = NoVersion
            THEN \A v \in Versions(c) : v > requested \/ (v = 0 /\ requested # 0)
            ELSE /\ actual \in Versions(c) /\ actual <= requested
                 /\ \A v \in Versions(c) : v <= requested => v <= actual
<1> DEFINE below == {v \in Versions(c) : v <= requested}
           actual == ActualVersion(c, requested)
<1>1. below \in SUBSET (0 .. requested)  OBVIOUS
<1>2. actual = IF requested \in below THEN requested
               ELSE IF below \ {0} = {} THEN NoVersion ELSE Max(below)
  BY DEF ActualVersion
<1>3. \A v \in below : v \in Versions(c) /\ v <= requested  OBVIOUS
<1>4. \A v \in Versions(c) : v <= requested => v \in below  OBVIOUS
<1>5. NoVersion \notin Nat  BY DEF NoVersion
<1> SUFFICES IF actual = NoVersion
             THEN \A v \in Versions(c) : v > requested \/ (v = 0 /\ requested # 0)
             ELSE /\ actual \in Versions(c) /\ actual <= requested
                  /\ \A v \in Versions(c) : v <= requested => v <= actual
  OBVIOUS
<1> HIDE DEF below, actual
<1>6. CASE requested \in below
  BY <1>2, <1>3, <1>5, <1>6
<1>7. CASE requested \notin below /\ below \ {0} = {}
  <2>1. actual = NoVersion  BY <1>2, <1>7
  <2>2. ASSUME NEW v \in Versions(c), ~ (v > requested)
        PROVE  v = 0 /\ requested # 0
    <3>1. v \in below  BY <1>4, <2>2
    <3> QED BY <1>7, <3>1
  <2> QED BY <2>1, <2>2
<1>8. CASE requested \notin below /\ below \ {0} # {}
  <2>1. actual = Max(below)  BY <1>2, <1>8
  <2>2. Max(below) \in below /\ \A v \in below : v <= Max(below)
    <3>1. below # {}  BY <1>8
    <3> QED BY <1>1, <3>1, MaxOfVersions
  <2>3. actual \in 0 .. requested  BY <1>1, <2>1, <2>2, Zenon
  <2>4. actual # NoVersion  BY <1>5, <2>3
  <2> QED BY <1>3, <1>4, <2>1, <2>2, <2>4
<1> QED BY <1>6, <1>7, <1>8

\* Whoever asks for a later version gets no earlier one, unless the first
\* answer was version 0, which is found only when it is asked for.
THEOREM LaterClaimsGetNoLess ==
  ASSUME NEW c, Versions(c) \subseteq Nat, NEW m \in Nat, NEW n \in Nat, m <= n,
         ActualVersion(c, m) \notin {NoVersion, 0}
  PROVE  /\ ActualVersion(c, n) # NoVersion
         /\ ActualVersion(c, m) <= ActualVersion(c, n)
<1> DEFINE a == ActualVersion(c, m)  b == ActualVersion(c, n)
<1>1. a # NoVersion /\ a # 0  OBVIOUS
<1>2. a \in Versions(c) /\ a <= m
  <2> HIDE DEF a
  <2> QED BY <1>1, ResolvesToTheHighest DEF a
<1>3. IF b = NoVersion
      THEN \A v \in Versions(c) : v > n \/ (v = 0 /\ n # 0)
      ELSE \A v \in Versions(c) : v <= n => v <= b
  BY ResolvesToTheHighest
<1> HIDE DEF a, b
<1>4. a \in Nat /\ a <= n /\ ~ (a > n)  BY <1>2
<1> QED BY <1>1, <1>2, <1>3, <1>4 DEF a, b
-----------------------------------------------------------------------------
(***************************************************************************)
(* The way of the values over the wire.  Texts laid one after the other:   *)
(* where each part of a joined text stands.                                *)
(***************************************************************************)

\* A list of numbers that rises from its place 0 on.
Rises(f, n) ==
  /\ f \in [0 .. n -> Nat]
  /\ \A i \in 1 .. n : f[i - 1] < f[i]

LEMMA RisesInOrder ==
  ASSUME NEW n \in Nat, NEW f, Rises(f, n)
  PROVE  \A k, l \in 0 .. n : k < l => f[k] < f[l]
<1> DEFINE Bad == {l \in Nat : l <= n /\ \E k \in 0 .. n : k < l /\ ~ (f[k] < f[l])}
<1>1. Bad \subseteq Nat  OBVIOUS
<1>2. ASSUME Bad # {}  PROVE FALSE
  <2>1. PICK l \in Bad : \A j \in Bad : ~ (<<j, l>> \in Less)
    <3> HIDE DEF Bad
    <3> QED BY <1>1, <1>2, LessIsWellFounded, WFMin
  <2>2. PICK k \in 0 .. n : k < l /\ ~ (f[k] < f[l])  BY <2>1
  <2>3. l \in Nat /\ l <= n  BY <2>1
  <2> DEFINE j == l - 1
  <2>4. j \in 0 .. n /\ l \in 1 .. n /\ <<j, l>> \in Less  BY <2>2, <2>3 DEF Less
  <2>5. f[j] < f[l] /\ f[j] \in Nat /\ f[l] \in Nat /\ f[k] \in Nat
    <3>1. f[l - 1] < f[l]  BY <2>4 DEF Rises
    <3>2. l \in 0 .. n  BY <2>4
    <3> QED BY <2>2, <2>4, <3>1, <3>2 DEF Rises
  <2>6. j \notin Bad  BY <2>1, <2>4
  <2>7. k < j => f[k] < f[j]  BY <2>2, <2>4, <2>6
  <2>8. k < j \/ k = j  BY <2>2, <2>3
  <2> HIDE DEF j
  <2> QED BY <2>2, <2>5, <2>7, <2>8
<1>3. ASSUME NEW k \in 0 .. n, NEW l \in 0 .. n, k < l  PROVE f[k] < f[l]
  <2>1. l \notin Bad  BY <1>2
  <2> QED BY <1>3, <2>1
<1> QED BY <1>3

\* Every number on the way lies on one of its steps.
LEMMA RisesOver ==
  ASSUME NEW n \in Nat, NEW f, Rises(f, n), NEW p \in Nat, f[0] < p, p <= f[n]
  PROVE  \E i \in 1 .. n : f[i - 1] < p /\ p <= f[i]
<1> DEFINE Over == {i \in Nat : i <= n /\ p <= f[i]}
<1>1. Over \subseteq Nat /\ n \in Over  OBVIOUS
<1>2. PICK i \in Over : \A j \in Over : ~ (<<j, i>> \in Less)
  <2> HIDE DEF Over
  <2> QED BY <1>1, LessIsWellFounded, WFMin
<1>3. i \in Nat /\ i <= n /\ p <= f[i] /\ 0 \in 0 .. n  BY <1>2
<1>4. i # 0
  <2>1. f[0] \in Nat  BY <1>3 DEF Rises
  <2> QED BY <1>3, <2>1
<1>5. i \in 1 .. n /\ i - 1 \in Nat /\ i - 1 <= n /\ <<i - 1, i>> \in Less
  BY <1>3, <1>4 DEF Less
<1>6. ~ (p <= f[i - 1])  BY <1>2, <1>5
<1>7. f[i - 1] \in Nat
  <2>1. i - 1 \in 0 .. n  BY <1>5
  <2> QED BY <2>1 DEF Rises
<1> QED BY <1>3, <1>5, <1>6, <1>7

\* The text of n sequences one after the other: off says where each one ends.
Laid(text, seqs, off, n) ==
  /\ off \in [0 .. n -> Nat]
  /\ off[0] = 0
  /\ \A i \in 1 .. n : off[i] = off[i - 1] + Len(seqs[i])
  /\ IsSeq(text)
  /\ Len(text) = off[n]
  /\ \A i \in 1 .. n : \A k \in 1 .. Len(seqs[i]) : text[off[i - 1] + k] = seqs[i][k]

LEMMA FlatIsLaid ==
  ASSUME NEW n \in Nat, NEW seqs, seqs = [i \in 1 .. n |-> seqs[i]],
         \A i \in 1 .. n : IsSeq(seqs[i])
  PROVE  \E off : Laid(FlattenSeq(seqs), seqs, off, n)
<1>1. IsSeq(seqs) /\ Len(seqs) = n  BY FunctionIsSeq
<1>2. IsSeq(FlattenSeq(seqs))  BY Flattened
<1>3. CASE n = 0
  <2> DEFINE off == [i \in 0 .. 0 |-> 0]
  <2>1. FlattenSeq(seqs) = <<>> /\ Len(<<>>) = 0  BY <1>1, <1>3 DEF FlattenSeq
  <2>2. Laid(FlattenSeq(seqs), seqs, off, n)
    BY <1>2, <1>3, <2>1 DEF Laid
  <2> QED BY <2>2
<1>4. CASE n # 0
  <2> DEFINE f == CHOOSE g : IsFlat(g, seqs, n)
  <2>1. FlattenSeq(seqs) = f[n]
    BY <1>1, <1>4 DEF FlattenSeq, IsFlat
  <2>2. IsFlat(f, seqs, n)  BY FlatExists
  <2> HIDE DEF f
  <2>3. f[1] = seqs[1] /\ \A i \in 2 .. n : f[i] = f[i - 1] \o seqs[i]
    <3>1. \A i \in 1 .. n : f[i] = IF i = 1 THEN seqs[i] ELSE f[i - 1] \o seqs[i]
      BY <2>2 DEF IsFlat
    <3>2. 1 \in 1 .. n /\ \A i \in 2 .. n : i \in 1 .. n /\ i # 1  BY <1>4
    <3> QED BY <3>1, <3>2
  <2> DEFINE off == [i \in 0 .. n |-> IF i = 0 THEN 0 ELSE Len(f[i])]
  <2>4. off[0] = 0 /\ \A i \in 1 .. n : off[i] = Len(f[i])
    BY <1>4
  <2>4a. off = [i \in 0 .. n |-> off[i]]  OBVIOUS
  <2> HIDE DEF off
  <2> DEFINE Good(i) ==
               /\ IsSeq(f[i])
               /\ off[i] = off[i - 1] + Len(seqs[i])
               /\ \A j \in 1 .. i : /\ off[j - 1] \in Nat /\ off[j - 1] + Len(seqs[j]) <= off[i]
                                    /\ \A k \in 1 .. Len(seqs[j]) :
                                         f[i][off[j - 1] + k] = seqs[j][k]
             Bad == {i \in Nat : 1 <= i /\ i <= n /\ ~ Good(i)}
  <2>5. Good(1)
    <3>1. 1 \in 1 .. n /\ 1 - 1 = 0 /\ \A j \in 1 .. 1 : j = 1  BY <1>4
    <3>2. IsSeq(seqs[1]) /\ Len(seqs[1]) \in Nat  BY <3>1, ListHasLength
    <3>3. off[1] = 0 + Len(seqs[1])  BY <2>3, <2>4, <3>1, <3>2
    <3>4. \A k \in 1 .. Len(seqs[1]) : off[1 - 1] + k = k  BY <2>4, <3>2
    <3> QED BY <2>3, <2>4, <3>1, <3>2, <3>3, <3>4
  <2>6. ASSUME NEW i \in 2 .. n, Good(i - 1)  PROVE Good(i)
    <3>1. f[i] = f[i - 1] \o seqs[i] /\ i \in 1 .. n /\ i - 1 \in 1 .. n
      <4>1. i \in 1 .. n /\ i - 1 \in 1 .. n  OBVIOUS
      <4> QED BY <2>3, <4>1
    <3> DEFINE s == f[i - 1]  t == seqs[i]
    <3>2. IsSeq(s) /\ IsSeq(t)  BY <2>6, <3>1
    <3>3. off[i - 1] = Len(s) /\ off[i] = Len(f[i]) /\ f[i] = s \o t  BY <2>4, <3>1
    <3>4. \A j \in 1 .. i - 1 : /\ off[j - 1] \in Nat /\ off[j - 1] + Len(seqs[j]) <= off[i - 1]
                                /\ \A k \in 1 .. Len(seqs[j]) : s[off[j - 1] + k] = seqs[j][k]
      BY <2>6
    <3>5. Len(s) \in Nat /\ Len(t) \in Nat  BY <3>2, ListHasLength
    <3> HIDE DEF s, t
    <3>6. /\ IsSeq(s \o t) /\ Len(s \o t) = Len(s) + Len(t)
          /\ \A k \in 1 .. Len(s) : (s \o t)[k] = s[k]
          /\ \A k \in 1 .. Len(t) : (s \o t)[Len(s) + k] = t[k]
      BY <3>2, ConcatIsSeq
    <3>7. ASSUME NEW j \in 1 .. i
          PROVE  /\ off[j - 1] \in Nat /\ off[j - 1] + Len(seqs[j]) <= off[i]
                 /\ \A k \in 1 .. Len(seqs[j]) : f[i][off[j - 1] + k] = seqs[j][k]
      <4>1. CASE j = i
        <5>1. off[j - 1] \in Nat /\ off[j - 1] = Len(s) /\ seqs[j] = t
          BY <3>3, <3>5, <4>1 DEF t
        <5>2. off[j - 1] + Len(t) = off[i]  BY <3>3, <3>6, <5>1
        <5>3. off[i] \in Nat  BY <3>5, <5>1, <5>2
        <5>4. off[j - 1] + Len(t) <= off[i]  BY <5>2, <5>3
        <5> QED BY <3>3, <3>6, <5>1, <5>4
      <4>2. CASE j # i
        <5>1. j \in 1 .. i - 1 /\ j \in 1 .. n  BY <4>2
        <5>2. /\ off[j - 1] \in Nat /\ off[j - 1] + Len(seqs[j]) <= off[i - 1]
              /\ \A k \in 1 .. Len(seqs[j]) : s[off[j - 1] + k] = seqs[j][k]
          BY <3>4, <5>1
        <5>3. Len(seqs[j]) \in Nat
          <6>1. IsSeq(seqs[j])  BY <5>1
          <6> QED BY <6>1, ListHasLength
        <5>4. \A k \in 1 .. Len(seqs[j]) : off[j - 1] + k \in 1 .. Len(s)
          <6> SUFFICES ASSUME NEW o, o = off[j - 1], NEW l, l = Len(seqs[j]),
                              NEW k \in 1 .. l
                       PROVE  o + k \in 1 .. Len(s)
            OBVIOUS
          <6>1. o \in Nat /\ l \in Nat /\ o + l <= Len(s)  BY <3>3, <5>2, <5>3
          <6> QED BY <3>5, <6>1
        <5>5. off[j - 1] + Len(seqs[j]) <= off[i]  BY <3>3, <3>5, <3>6, <5>2, <5>3
        <5> QED BY <3>3, <3>6, <5>2, <5>4, <5>5
      <4> QED BY <4>1, <4>2
    <3> QED BY <3>3, <3>6, <3>7 DEF t
  <2> HIDE DEF Good
  <2>7. ASSUME NEW i \in 1 .. n  PROVE Good(i)
    <3>1. Bad \subseteq Nat  OBVIOUS
    <3>2. ASSUME Bad # {}  PROVE FALSE
      <4>1. PICK j \in Bad : \A k \in Bad : ~ (<<k, j>> \in Less)
        <5> HIDE DEF Bad
        <5> QED BY <3>1, <3>2, LessIsWellFounded, WFMin
      <4>2. j # 1  BY <2>5, <4>1
      <4>3. j \in 2 .. n /\ j - 1 \in Nat /\ 1 <= j - 1 /\ j - 1 <= n /\ <<j - 1, j>> \in Less
        BY <4>1, <4>2 DEF Less
      <4>4. Good(j - 1)  BY <4>1, <4>3
      <4> QED BY <2>6, <4>1, <4>3, <4>4
    <3> QED BY <3>2
  <2>8. \A i \in 1 .. n : off[i] = off[i - 1] + Len(seqs[i]) /\ off[i] \in Nat
    <3> SUFFICES ASSUME NEW i \in 1 .. n
                 PROVE  off[i] = off[i - 1] + Len(seqs[i]) /\ off[i] \in Nat
      OBVIOUS
    <3>1. IsSeq(f[i]) /\ off[i] = off[i - 1] + Len(seqs[i])  BY <2>7 DEF Good
    <3> QED BY <2>4, <3>1, ListHasLength
  <2>9. off \in [0 .. n -> Nat]
    <3>1. \A i \in 0 .. n : off[i] \in Nat  BY <2>4, <2>8
    <3> QED BY <2>4a, <3>1
  <2>10. n \in 1 .. n  BY <1>4
  <2>11. Good(n) /\ Len(f[n]) = off[n]  BY <2>4, <2>7, <2>10
  <2>12. Laid(FlattenSeq(seqs), seqs, off, n)
    BY <1>2, <2>1, <2>4, <2>8, <2>9, <2>11 DEF Laid, Good
  <2> QED BY <2>12
<1> QED BY <1>3, <1>4

\* The text of n parts with a pipe between them: part i stands before off[i].
Joined(s, parts, off, n) ==
  /\ off \in [0 .. n -> Nat]
  /\ off[0] = 0
  /\ \A i \in 1 .. n : off[i] = off[i - 1] + Len(parts[i]) + 1
  /\ IsSeq(s)
  /\ Len(s) = off[n] - 1
  /\ \A i \in 1 .. n : \A k \in 1 .. Len(parts[i]) : s[off[i - 1] + k] = parts[i][k]
  /\ \A i \in 1 .. n - 1 : s[off[i]] = "|"

LEMMA JoinIsJoined ==
  ASSUME NEW n \in Nat \ {0}, NEW parts, parts = [i \in 1 .. n |-> parts[i]],
         \A i \in 1 .. n : IsSeq(parts[i])
  PROVE  \E off : Joined(Join(parts), parts, off, n)
<1> DEFINE seqs == [i \in DOMAIN parts |-> <<"|">> \o parts[i]]
           flat == FlattenSeq(seqs)
           s == Tail(flat)
<1>1. Join(parts) = s  BY DEF Join
<1>2. DOMAIN parts = 1 .. n  BY Zenon
<1>3. ASSUME NEW i \in 1 .. n
      PROVE  /\ IsSeq(seqs[i]) /\ Len(seqs[i]) = 1 + Len(parts[i])
             /\ seqs[i][1] = "|"
             /\ \A k \in 1 .. Len(parts[i]) : seqs[i][1 + k] = parts[i][k]
             /\ Len(parts[i]) \in Nat
  <2>1. seqs[i] = <<"|">> \o parts[i]  BY <1>2
  <2>2. IsSeq(<<"|">>) /\ Len(<<"|">>) = 1 /\ <<"|">>[1] = "|"  BY ShortTexts
  <2> SUFFICES ASSUME NEW bar, bar = <<"|">>, NEW p, p = parts[i]
               PROVE  /\ IsSeq(seqs[i]) /\ Len(seqs[i]) = 1 + Len(p)
                      /\ seqs[i][1] = "|"
                      /\ \A k \in 1 .. Len(p) : seqs[i][1 + k] = p[k]
                      /\ Len(p) \in Nat
    OBVIOUS
  <2>3. IsSeq(bar) /\ IsSeq(p) /\ Len(bar) = 1 /\ bar[1] = "|"  BY <2>2
  <2>4. seqs[i] = bar \o p  BY <2>1
  <2> HIDE DEF seqs
  <2>5. /\ IsSeq(bar \o p) /\ Len(bar \o p) = Len(bar) + Len(p)
        /\ \A k \in 1 .. Len(bar) : (bar \o p)[k] = bar[k]
        /\ \A k \in 1 .. Len(p) : (bar \o p)[Len(bar) + k] = p[k]
    BY <2>3, ConcatIsSeq
  <2>6. 1 \in 1 .. Len(bar)  BY <2>3
  <2> QED BY <2>3, <2>4, <2>5, <2>6, ListHasLength
<1>4. seqs = [i \in 1 .. n |-> seqs[i]]  BY <1>2
<1> HIDE DEF seqs
<1>5. PICK off : Laid(flat, seqs, off, n)
  <2>1. n \in Nat /\ \A i \in 1 .. n : IsSeq(seqs[i])  BY <1>3
  <2> HIDE DEF flat
  <2> QED BY <1>4, <2>1, FlatIsLaid DEF flat
<1> HIDE DEF flat
<1>6. ASSUME NEW i \in 1 .. n
      PROVE  /\ off[i] = off[i - 1] + Len(parts[i]) + 1
             /\ off[i - 1] \in Nat /\ off[i] \in Nat /\ off[i] >= 1
  <2>1. i - 1 \in 0 .. n /\ i \in 0 .. n  OBVIOUS
  <2>2. off[i - 1] \in Nat /\ off[i] \in Nat /\ off[i] = off[i - 1] + Len(seqs[i])
    BY <1>5, <2>1 DEF Laid
  <2>3. Len(seqs[i]) = 1 + Len(parts[i]) /\ Len(parts[i]) \in Nat  BY <1>3
  <2>4. PICK o, p, l : o = off[i - 1] /\ p = off[i] /\ l = Len(parts[i])  OBVIOUS
  <2>5. o \in Nat /\ p \in Nat /\ l \in Nat /\ p = o + (1 + l)  BY <2>2, <2>3, <2>4
  <2>6. p = o + l + 1 /\ p >= 1  BY <2>5
  <2> QED BY <2>4, <2>5, <2>6
<1>7. /\ IsSeq(flat) /\ Len(flat) = off[n] /\ off \in [0 .. n -> Nat] /\ off[0] = 0
      /\ \A i \in 1 .. n : \A k \in 1 .. Len(seqs[i]) : flat[off[i - 1] + k] = seqs[i][k]
  BY <1>5 DEF Laid
<1>8. flat # <<>>
  <2>1. n \in 1 .. n  OBVIOUS
  <2>2. Len(flat) # 0  BY <1>6, <1>7, <2>1
  <2>3. ASSUME flat = <<>>  PROVE Len(flat) = 0  BY <2>3
  <2> QED BY <2>2, <2>3
<1>9. /\ IsSeq(s) /\ Len(s) = off[n] - 1
      /\ \A p \in 1 .. off[n] - 1 : s[p] = flat[p + 1]
  BY <1>7, <1>8, TailIsSeq
<1> HIDE DEF s
<1>10. \A i \in 1 .. n : off[i] <= off[n]
  <2> SUFFICES ASSUME NEW i \in 1 .. n  PROVE off[i] <= off[n]
    OBVIOUS
  <2>1. \A j \in 1 .. n : off[j - 1] < off[j]
    <3> SUFFICES ASSUME NEW j \in 1 .. n  PROVE off[j - 1] < off[j]
      OBVIOUS
    <3> QED BY <1>3, <1>6
  <2>2. Rises(off, n)  BY <1>7, <2>1 DEF Rises
  <2>3. i \in 0 .. n /\ n \in 0 .. n /\ n \in 1 .. n  OBVIOUS
  <2>4. i < n => off[i] < off[n]  BY <2>2, <2>3, RisesInOrder
  <2>5. off[i] \in Nat /\ off[n] \in Nat  BY <1>6, <2>3
  <2> QED BY <2>4, <2>5
<1>11. ASSUME NEW i \in 1 .. n, NEW k \in 1 .. Len(parts[i])
       PROVE  s[off[i - 1] + k] = parts[i][k]
  <2>1. Len(parts[i]) \in Nat /\ off[n] \in Nat /\ n \in 1 .. n  BY <1>3, <1>6
  <2>2. k \in Nat /\ 1 + k \in 1 .. Len(seqs[i])  BY <1>3, <2>1
  <2>3. off[i - 1] + k \in 1 .. off[n] - 1
    <3> SUFFICES ASSUME NEW o, o = off[i - 1], NEW l, l = Len(parts[i])
                 PROVE  o + k \in 1 .. off[n] - 1
      OBVIOUS
    <3>1. o \in Nat /\ off[i] = o + l + 1 /\ off[i] <= off[n]  BY <1>6, <1>10
    <3> QED BY <2>1, <2>2, <3>1
  <2>4. s[off[i - 1] + k] = flat[(off[i - 1] + k) + 1]  BY <1>9, <2>3
  <2>5. (off[i - 1] + k) + 1 = off[i - 1] + (1 + k)
    <3>1. off[i - 1] \in Nat /\ k \in Nat  BY <1>6, <2>2
    <3> QED BY <3>1
  <2>6. flat[off[i - 1] + (1 + k)] = seqs[i][1 + k]  BY <1>7, <2>2
  <2> QED BY <1>3, <2>4, <2>5, <2>6
<1>12. ASSUME NEW i \in 1 .. n - 1  PROVE s[off[i]] = "|"
  <2>1. i \in 1 .. n /\ i + 1 \in 1 .. n /\ (i + 1) - 1 = i  OBVIOUS
  <2>2. off[i] \in 1 .. off[n] - 1
    <3>1. off[i + 1] = off[i] + Len(parts[i + 1]) + 1 /\ off[i + 1] <= off[n]
      BY <1>6, <1>10, <2>1
    <3>2. Len(parts[i + 1]) \in Nat /\ off[i] \in Nat /\ off[i] >= 1 /\ off[n] \in Nat
      <4>1. n \in 1 .. n  OBVIOUS
      <4> QED BY <1>3, <1>6, <2>1, <4>1
    <3> QED BY <3>1, <3>2
  <2>3. s[off[i]] = flat[off[i] + 1]  BY <1>9, <2>2
  <2>4. 1 \in 1 .. Len(seqs[i + 1])  BY <1>3, <2>1
  <2>5. flat[off[(i + 1) - 1] + 1] = seqs[i + 1][1]  BY <1>7, <2>1, <2>4
  <2> QED BY <1>3, <2>1, <2>3, <2>5
<1>13. Joined(s, parts, off, n)
  BY <1>6, <1>7, <1>9, <1>11, <1>12 DEF Joined
<1> QED BY <1>1, <1>13

LEMMA JoinedRises ==
  ASSUME NEW n \in Nat \ {0}, NEW parts, \A i \in 1 .. n : IsSeq(parts[i]),
         NEW s, NEW off, Joined(s, parts, off, n)
  PROVE  /\ Rises(off, n)
         /\ \A i \in 1 .. n : /\ Len(parts[i]) \in Nat
                              /\ off[i - 1] \in Nat /\ off[i] \in Nat
                              /\ off[i] = off[i - 1] + Len(parts[i]) + 1
                              /\ off[i] <= off[n]
<1>1. off \in [0 .. n -> Nat]  BY DEF Joined
<1>2. ASSUME NEW i \in 1 .. n
      PROVE  /\ Len(parts[i]) \in Nat /\ off[i - 1] \in Nat /\ off[i] \in Nat
             /\ off[i] = off[i - 1] + Len(parts[i]) + 1
  <2>1. i - 1 \in 0 .. n /\ i \in 0 .. n  OBVIOUS
  <2>2. Len(parts[i]) \in Nat  BY ListHasLength
  <2> QED BY <1>1, <2>1, <2>2 DEF Joined
<1>3. \A i \in 1 .. n : off[i - 1] < off[i]
  <2> SUFFICES ASSUME NEW i \in 1 .. n  PROVE off[i - 1] < off[i]
    OBVIOUS
  <2> QED BY <1>2
<1>4. Rises(off, n)  BY <1>1, <1>3 DEF Rises
<1>5. ASSUME NEW i \in 1 .. n  PROVE off[i] <= off[n]
  <2>1. i \in 0 .. n /\ n \in 0 .. n /\ n \in 1 .. n  OBVIOUS
  <2>2. i < n => off[i] < off[n]  BY <1>4, <2>1, RisesInOrder
  <2>3. off[i] \in Nat /\ off[n] \in Nat  BY <1>2, <2>1
  <2> QED BY <2>2, <2>3
<1> QED BY <1>2, <1>4, <1>5

\* A sequence between two values.
LEMMA Framed ==
  ASSUME NEW P, IsSeq(P), NEW m, Len(P) = m, NEW x, NEW z
  PROVE  /\ Len(<<x>> \o P \o <<z>>) = m + 2
         /\ (<<x>> \o P \o <<z>>)[1] = x
         /\ \A i \in 1 .. m : (<<x>> \o P \o <<z>>)[i + 1] = P[i]
         /\ (<<x>> \o P \o <<z>>)[m + 2] = z
<1> SUFFICES ASSUME NEW a, a = <<x>>, NEW b, b = <<z>>
             PROVE  /\ Len((a \o P) \o b) = m + 2
                    /\ ((a \o P) \o b)[1] = x
                    /\ \A i \in 1 .. m : ((a \o P) \o b)[i + 1] = P[i]
                    /\ ((a \o P) \o b)[m + 2] = z
  OBVIOUS
<1>1. IsSeq(a) /\ Len(a) = 1 /\ a[1] = x  BY ShortTexts
<1>2. IsSeq(b) /\ Len(b) = 1 /\ b[1] = z  BY ShortTexts
<1>3. m \in Nat  BY ListHasLength
<1> DEFINE u == a \o P
<1>4. /\ IsSeq(u) /\ Len(u) = Len(a) + Len(P)
      /\ \A i \in 1 .. Len(a) : u[i] = a[i]
      /\ \A i \in 1 .. Len(P) : u[Len(a) + i] = P[i]
  BY <1>1, ConcatIsSeq
<1> HIDE DEF u
<1> DEFINE w == u \o b
<1>5. /\ IsSeq(w) /\ Len(w) = Len(u) + Len(b)
      /\ \A i \in 1 .. Len(u) : w[i] = u[i]
      /\ \A i \in 1 .. Len(b) : w[Len(u) + i] = b[i]
  BY <1>2, <1>4, ConcatIsSeq
<1> HIDE DEF w
<1>6. Len(u) = 1 + m /\ Len(w) = m + 2 /\ 1 \in 1 .. 1 + m /\ 1 \in 1 .. 1
  BY <1>1, <1>2, <1>3, <1>4, <1>5
<1>7. w[1] = x  BY <1>1, <1>4, <1>5, <1>6
<1>8. w[m + 2] = z
  <2>1. (1 + m) + 1 = m + 2  BY <1>3
  <2>2. w[Len(u) + 1] = b[1]  BY <1>2, <1>5
  <2> QED BY <1>2, <1>6, <2>1, <2>2
<1>9. ASSUME NEW i \in 1 .. m  PROVE w[i + 1] = P[i]
  <2>1. i + 1 = 1 + i /\ i + 1 \in 1 .. 1 + m  BY <1>3
  <2>2. w[i + 1] = u[i + 1]  BY <1>5, <1>6, <2>1
  <2>3. u[1 + i] = P[i]  BY <1>1, <1>4
  <2> QED BY <2>1, <2>2, <2>3
<1> QED BY <1>6, <1>7, <1>8, <1>9 DEF w, u

-----------------------------------------------------------------------------
(***************************************************************************)
(* The tokens of a joined text: a pipe separates unless the part before it *)
(* ends in a backslash.                                                    *)
(***************************************************************************)

\* Every pipe in a text follows a backslash.
Guarded(p) == \A i \in 1 .. Len(p) : p[i] = "|" => i - 1 \in 1 .. Len(p) /\ p[i - 1] = "\\"

\* The parts that the separator behind them still closes.
Closed(parts, n) == {i \in 1 .. n - 1 : ~ EndsWith(parts[i], "\\")}

\* The ends of the tokens: those parts, and the last one.
Ends(r, m, parts, n) ==
  /\ m \in Nat
  /\ Rises(r, m + 1)
  /\ r[0] = 0 /\ r[m + 1] = n
  /\ {r[k] : k \in 1 .. m} = Closed(parts, n)

Unescaped(t) == Pick(t, {i \in DOMAIN t : ~ Escapes(t, i)})

\* The pipes that separate stand behind the closed parts.
LEMMA PipesSeparate ==
  ASSUME NEW n \in Nat \ {0}, NEW parts,
         \A i \in 1 .. n : IsSeq(parts[i]) /\ Guarded(parts[i]),
         NEW s, NEW off, Joined(s, parts, off, n)
  PROVE  {p \in DOMAIN s : s[p] = "|" /\ ~ Escapes(s, p - 1)} = {off[i] : i \in Closed(parts, n)}
<1> DEFINE pipes == {p \in DOMAIN s : s[p] = "|" /\ ~ Escapes(s, p - 1)}
<1>1. IsSeq(s) /\ Len(s) = off[n] - 1 /\ DOMAIN s = 1 .. off[n] - 1 /\ off[0] = 0
  BY ListHasLength DEF Joined
<1>2. /\ \A i \in 1 .. n : \A k \in 1 .. Len(parts[i]) : s[off[i - 1] + k] = parts[i][k]
      /\ \A i \in 1 .. n - 1 : s[off[i]] = "|"
  BY DEF Joined
<1>3. /\ Rises(off, n)
      /\ \A i \in 1 .. n : /\ Len(parts[i]) \in Nat
                           /\ off[i - 1] \in Nat /\ off[i] \in Nat
                           /\ off[i] = off[i - 1] + Len(parts[i]) + 1
                           /\ off[i] <= off[n]
  BY JoinedRises
<1>4. ASSUME NEW i \in 1 .. n - 1
      PROVE  off[i] \in DOMAIN s /\ off[i] \in Nat
  <2>1. i \in 0 .. n /\ n \in 0 .. n /\ i < n /\ i \in 1 .. n /\ n \in 1 .. n  OBVIOUS
  <2>2. off[i] < off[n]  BY <1>3, <2>1, RisesInOrder
  <2>3. off[i] = off[i - 1] + Len(parts[i]) + 1 /\ off[i - 1] \in Nat /\ Len(parts[i]) \in Nat
        /\ off[i] \in Nat /\ off[n] \in Nat
    BY <1>3, <2>1
  <2>4. off[i] \in 1 .. off[n] - 1  BY <2>2, <2>3
  <2> QED BY <1>1, <2>3, <2>4
<1>5. ASSUME NEW i \in 1 .. n - 1, EndsWith(parts[i], "\\")
      PROVE  Escapes(s, off[i] - 1)
  <2>1. i \in 1 .. n  OBVIOUS
  <2>0. PICK l, o : l = Len(parts[i]) /\ o = off[i - 1]  OBVIOUS
  <2>2. l \in Nat /\ o \in Nat /\ off[i] = o + l + 1  BY <1>3, <2>0, <2>1
  <2>3. parts[i] # <<>> /\ parts[i][l] = "\\"  BY <1>5, <2>0 DEF EndsWith, Last
  <2>4. l \in 1 .. l
    <3>1. l # 0  BY <2>0, <2>1, <2>3, TailIsSeq
    <3> QED BY <2>2, <3>1
  <2>5. s[o + l] = "\\"  BY <1>2, <2>0, <2>1, <2>3, <2>4
  <2>6. off[i] - 1 = o + l /\ (o + l) + 1 = off[i]  BY <2>2
  <2>7. off[i] \in DOMAIN s /\ s[off[i]] = "|"  BY <1>2, <1>4
  <2>8. o + l \in DOMAIN s
    <3>1. off[i] \in 1 .. off[n] - 1  BY <1>1, <2>7
    <3>2. n \in 1 .. n /\ off[n] \in Nat
      <4>1. n \in 1 .. n  OBVIOUS
      <4> QED BY <1>3, <4>1
    <3>3. o + l \in 1 .. off[n] - 1
      <4>0. PICK b, e : b = off[i] /\ e = off[n]  OBVIOUS
      <4>1. b \in 1 .. e - 1 /\ e \in Nat /\ b = o + l + 1  BY <2>2, <3>1, <3>2, <4>0
      <4>2. o + l \in 1 .. e - 1  BY <2>2, <2>4, <4>1
      <4> QED BY <4>0, <4>2
    <3> QED BY <1>1, <3>3
  <2> QED BY <2>5, <2>6, <2>7, <2>8 DEF Escapes
<1>6. ASSUME NEW i \in 1 .. n - 1, ~ EndsWith(parts[i], "\\")
      PROVE  ~ Escapes(s, off[i] - 1)
  <2>1. i \in 1 .. n  OBVIOUS
  <2>0. PICK l, o : l = Len(parts[i]) /\ o = off[i - 1]  OBVIOUS
  <2>2. l \in Nat /\ o \in Nat /\ off[i] = o + l + 1 /\ off[i] - 1 = o + l  
    <3>1. l \in Nat /\ o \in Nat /\ off[i] = o + l + 1  BY <1>3, <2>0, <2>1
    <3> QED BY <3>1
  <2>3. CASE parts[i] = <<>>
    <3>1. l = 0 /\ off[i] - 1 = o
      <4>1. l = 0  BY <2>0, <2>3
      <4> QED BY <2>2, <4>1
    <3>2. CASE i = 1
      <4>0. i - 1 = 0  BY <3>2
      <4>1. off[i] - 1 = 0  BY <1>1, <2>0, <3>1, <4>0
      <4>2. 0 \notin DOMAIN s  BY <1>1
      <4> QED BY <4>1, <4>2 DEF Escapes
    <3>3. CASE i # 1
      <4>1. i - 1 \in 1 .. n - 1  BY <3>3
      <4>2. s[off[i] - 1] = "|"  BY <1>2, <2>0, <3>1, <4>1
      <4> QED BY <4>2 DEF Escapes
    <3> QED BY <3>2, <3>3
  <2>4. CASE parts[i] # <<>>
    <3>1. l # 0  BY <2>0, <2>1, <2>4, TailIsSeq
    <3>2. l \in 1 .. l  BY <2>2, <3>1
    <3>3. s[o + l] = parts[i][l]  BY <1>2, <2>0, <2>1, <3>2
    <3>4. parts[i][l] # "\\"  BY <1>6, <2>0, <2>4 DEF EndsWith, Last
    <3> QED BY <2>2, <3>3, <3>4 DEF Escapes
  <2> QED BY <2>3, <2>4
<1>7. ASSUME NEW p \in pipes  PROVE \E i \in Closed(parts, n) : p = off[i]
  <2>1. p \in 1 .. off[n] - 1 /\ s[p] = "|" /\ ~ Escapes(s, p - 1)  BY <1>1
  <2>2. off[n] \in Nat
    <3>1. n \in 1 .. n  OBVIOUS
    <3> QED BY <1>3, <3>1
  <2>3. p \in Nat /\ off[0] < p /\ p <= off[n] /\ p # off[n]  BY <1>1, <2>1, <2>2
  <2>4. PICK i \in 1 .. n : off[i - 1] < p /\ p <= off[i]
    BY <1>3, <2>3, RisesOver
  <2>5. CASE p = off[i]
    <3>1. i \in 1 .. n - 1  BY <2>3, <2>5
    <3>2. i \in Closed(parts, n)
      <4>1. ~ EndsWith(parts[i], "\\")  BY <1>5, <2>1, <2>5, <3>1
      <4> QED BY <3>1, <4>1 DEF Closed
    <3> QED BY <2>5, <3>2
  <2>6. CASE p # off[i]
    <3>0. PICK l, o : l = Len(parts[i]) /\ o = off[i - 1]  OBVIOUS
    <3>1. l \in Nat /\ o \in Nat /\ off[i] = o + l + 1  BY <1>3, <3>0
    <3> DEFINE k == p - o
    <3>2. k \in 1 .. l /\ p = o + k /\ (p - 1) = o + (k - 1) /\ (p - 1) + 1 = p
      <4>0. PICK b : b = off[i]  OBVIOUS
      <4>1. b = o + l + 1 /\ o < p /\ p <= b /\ p # b /\ p \in Nat  BY <2>3, <2>4, <2>6, <3>0, <3>1, <4>0
      <4> QED BY <3>1, <4>1
    <3> HIDE DEF k
    <3>3. parts[i][k] = "|"  BY <1>2, <2>1, <3>0, <3>2
    <3>4. k - 1 \in 1 .. l /\ parts[i][k - 1] = "\\"  BY <3>0, <3>2, <3>3 DEF Guarded
    <3>5. s[p - 1] = "\\"  BY <1>2, <3>0, <3>2, <3>4
    <3>6. p - 1 \in 1 .. off[n] - 1
      <4>0. PICK e : e = off[n]  OBVIOUS
      <4>1. p \in 1 .. e - 1 /\ e \in Nat  BY <2>1, <2>2, <4>0
      <4>2. p = o + k /\ k \in 1 .. l /\ k - 1 \in 1 .. l  BY <3>2, <3>4
      <4>3. p - 1 \in 1 .. e - 1  BY <3>1, <4>1, <4>2
      <4> QED BY <4>0, <4>3
    <3>7. Escapes(s, p - 1)  BY <1>1, <2>1, <3>2, <3>5, <3>6 DEF Escapes
    <3> QED BY <2>1, <3>7
  <2> QED BY <2>5, <2>6
<1>8. ASSUME NEW i \in Closed(parts, n)  PROVE off[i] \in pipes
  <2>1. i \in 1 .. n - 1 /\ ~ EndsWith(parts[i], "\\")  BY DEF Closed
  <2> QED BY <1>2, <1>4, <1>6, <2>1
<1> HIDE DEF pipes
<1>9. pipes = {off[i] : i \in Closed(parts, n)}  BY <1>7, <1>8
<1> QED BY <1>9 DEF pipes

\* A list is injective and rises; with its bounds it leads through.
LEMMA EndsExist ==
  ASSUME NEW n \in Nat \ {0}, NEW parts
  PROVE  \E m, r : /\ Ends(r, m, parts, n)
                   /\ Lists([k \in 1 .. m |-> r[k]], m, Closed(parts, n))
<1> DEFINE closed == Closed(parts, n)
<1>1. closed \in SUBSET (1 .. n - 1) /\ n - 1 \in Nat /\ closed \in SUBSET (1 .. n)
  BY DEF Closed
<1> HIDE DEF closed
<1>2. PICK m, q : Lists(q, m, closed)  BY <1>1, ListExists
<1>3. m \in Nat /\ q \in [1 .. m -> closed]  BY <1>2 DEF Lists
<1> DEFINE r == [k \in 0 .. m + 1 |-> IF k = 0 THEN 0 ELSE IF k = m + 1 THEN n ELSE q[k]]
<1>4. /\ r[0] = 0 /\ r[m + 1] = n
      /\ \A k \in 1 .. m : r[k] = q[k] /\ r[k] \in 1 .. n - 1
  <2>1. \A k \in 1 .. m : k \in 0 .. m + 1 /\ k # 0 /\ k # m + 1  BY <1>3
  <2>2. 0 \in 0 .. m + 1 /\ m + 1 \in 0 .. m + 1 /\ m + 1 # 0  BY <1>3
  <2>3. \A k \in 1 .. m : q[k] \in 1 .. n - 1  BY <1>1, <1>3
  <2> QED BY <2>1, <2>2, <2>3
<1>5. r = [k \in 0 .. m + 1 |-> r[k]]  OBVIOUS
<1> HIDE DEF r
<1>6. \A k \in 0 .. m + 1 : r[k] \in Nat
  <2> SUFFICES ASSUME NEW k \in 0 .. m + 1  PROVE r[k] \in Nat
    OBVIOUS
  <2>1. k = 0 \/ k = m + 1 \/ k \in 1 .. m  BY <1>3
  <2> QED BY <1>4, <2>1
<1>7. r \in [0 .. m + 1 -> Nat]  BY <1>5, <1>6
<1>8. ASSUME NEW k \in 1 .. m + 1  PROVE r[k - 1] < r[k]
  <2>1. CASE k = m + 1
    <3>1. k - 1 = 0 \/ k - 1 \in 1 .. m  BY <1>3, <2>1
    <3> QED BY <1>4, <2>1, <3>1
  <2>2. CASE k # m + 1 /\ k # 1
    <3>1. k - 1 \in 1 .. m /\ k \in 1 .. m /\ k - 1 < k  BY <1>3, <2>2
    <3>2. q[k - 1] < q[k]  BY <1>2, <3>1 DEF Lists
    <3> QED BY <1>4, <3>1, <3>2
  <2>3. CASE k # m + 1 /\ k = 1
    <3>1. k - 1 = 0 /\ k \in 1 .. m  BY <1>3, <2>3
    <3>2. r[k] \in 1 .. n - 1 /\ r[k - 1] = 0  BY <1>4, <3>1
    <3> QED BY <3>2
  <2> QED BY <2>1, <2>2, <2>3
<1>9. m + 1 \in Nat /\ Rises(r, m + 1)  BY <1>3, <1>7, <1>8 DEF Rises
<1>10. {r[k] : k \in 1 .. m} = closed
  <2>1. \A k \in 1 .. m : r[k] \in closed  BY <1>3, <1>4
  <2>2. \A i \in closed : \E k \in 1 .. m : r[k] = i
    <3> SUFFICES ASSUME NEW i \in closed  PROVE \E k \in 1 .. m : r[k] = i
      OBVIOUS
    <3>1. PICK k \in 1 .. m : q[k] = i  BY <1>2 DEF Lists
    <3> QED BY <1>4, <3>1
  <2> QED BY <2>1, <2>2
<1>11. [k \in 1 .. m |-> r[k]] = q
  <2>1. q = [k \in 1 .. m |-> q[k]]  BY <1>3
  <2> QED BY <1>4, <2>1
<1>12. Ends(r, m, parts, n)  BY <1>3, <1>4, <1>9, <1>10 DEF Ends, closed
<1> QED BY <1>2, <1>11, <1>12 DEF closed

\* A token reaches from behind a closed part to the end of the next one.
LEMMA TokensFollow ==
  ASSUME NEW n \in Nat \ {0}, NEW parts,
         \A i \in 1 .. n : IsSeq(parts[i]) /\ Guarded(parts[i]),
         NEW s, NEW off, Joined(s, parts, off, n)
  PROVE  \E m, r : /\ Ends(r, m, parts, n)
                   /\ Tokens(s) = [k \in 1 .. m + 1 |->
                        Unescaped(SubSeq(s, off[r[k - 1]] + 1, off[r[k]] - 1))]
<1> DEFINE pipes == {i \in DOMAIN s : s[i] = "|" /\ ~ Escapes(s, i - 1)}
           id == [i \in DOMAIN s |-> i]
           P == Pick(id, pipes)
           cut == <<0>> \o P \o <<Len(s) + 1>>
           Token(k) == SubSeq(s, cut[k] + 1, cut[k + 1] - 1)
           tokens == [k \in 1 .. Len(cut) - 1 |->
                        Pick(Token(k), {i \in DOMAIN Token(k) : ~ Escapes(Token(k), i)})]
<1>1. Tokens(s) = tokens  BY DEF Tokens
<1>2. IsSeq(s) /\ Len(s) = off[n] - 1 /\ DOMAIN s = 1 .. off[n] - 1 /\ off[0] = 0
  BY ListHasLength DEF Joined
<1>3. /\ Rises(off, n)
      /\ \A i \in 1 .. n : off[i] \in Nat
  BY JoinedRises
<1>4. pipes = {off[i] : i \in Closed(parts, n)}  BY PipesSeparate
<1>5. PICK m, r : /\ Ends(r, m, parts, n)
                  /\ Lists([k \in 1 .. m |-> r[k]], m, Closed(parts, n))
  BY EndsExist
<1>6. /\ m \in Nat /\ r[0] = 0 /\ r[m + 1] = n
      /\ \A k \in 1 .. m : r[k] \in Closed(parts, n) /\ r[k] \in 1 .. n - 1 /\ r[k] \in 0 .. n
  <2>1. m \in Nat /\ r[0] = 0 /\ r[m + 1] = n /\ \A k \in 1 .. m : r[k] \in Closed(parts, n)
    BY <1>5 DEF Ends
  <2>2. \A i \in Closed(parts, n) : i \in 1 .. n - 1 /\ i \in 0 .. n  BY DEF Closed
  <2> QED BY <2>1, <2>2
<1> DEFINE q == [k \in 1 .. m |-> off[r[k]]]
<1>7. Lists(q, m, pipes)
  <2>1. q \in [1 .. m -> pipes]  BY <1>4, <1>6
  <2>2. ASSUME NEW k \in 1 .. m, NEW l \in 1 .. m, k < l  PROVE q[k] < q[l]
    <3>1. r[k] < r[l]  BY <1>5, <2>2 DEF Lists
    <3>2. off[r[k]] < off[r[l]]
      <4>1. n \in Nat  OBVIOUS
      <4> QED BY <1>3, <1>6, <3>1, <4>1, RisesInOrder
    <3> QED BY <3>2
  <2>3. \A p \in pipes : \E k \in 1 .. m : q[k] = p
    <3> SUFFICES ASSUME NEW p \in pipes  PROVE \E k \in 1 .. m : q[k] = p
      OBVIOUS
    <3>1. PICK i \in Closed(parts, n) : p = off[i]  BY <1>4
    <3>2. PICK k \in 1 .. m : r[k] = i  BY <1>5 DEF Ends
    <3> QED BY <3>1, <3>2
  <2> HIDE DEF q
  <2> QED BY <1>6, <2>1, <2>2, <2>3 DEF Lists
<1>8. pipes \in SUBSET Nat /\ \A p \in pipes : p \in DOMAIN s
  BY <1>2
<1> HIDE DEF pipes
<1>9. P = [k \in 1 .. m |-> q[k]]
  <2>1. P = [k \in 1 .. m |-> id[q[k]]]
    <3> HIDE DEF id, q
    <3> QED BY <1>7, <1>8, PickFollows
  <2>2. \A k \in 1 .. m : id[q[k]] = q[k]
    <3>1. \A k \in 1 .. m : q[k] \in pipes  BY <1>4, <1>6
    <3> HIDE DEF q
    <3> QED BY <1>8, <3>1
  <2> HIDE DEF P, id, q
  <2> QED BY <2>1, <2>2
<1> HIDE DEF P
<1>10. IsSeq(P) /\ Len(P) = m /\ \A k \in 1 .. m : P[k] = off[r[k]]
  <2>1. P = [k \in 1 .. m |-> P[k]]  BY <1>9
  <2> QED BY <1>6, <1>9, <2>1, FunctionIsSeq
<1>11. /\ Len(cut) = m + 2 /\ cut[1] = 0
       /\ \A i \in 1 .. m : cut[i + 1] = P[i]
       /\ cut[m + 2] = Len(s) + 1
  BY <1>10, Framed
<1> HIDE DEF cut, q
<1>12. Len(s) + 1 = off[n]
  <2>1. off[n] \in Nat
    <3>1. n \in 1 .. n  OBVIOUS
    <3> QED BY <1>3, <3>1
  <2>2. \A e \in Nat : (e - 1) + 1 = e  OBVIOUS
  <2> QED BY <1>2, <2>1, <2>2
<1>13. ASSUME NEW k \in 0 .. m + 1  PROVE cut[k + 1] = off[r[k]]
  <2>1. CASE k = 0
    BY <1>2, <1>6, <1>11, <2>1
  <2>2. CASE k = m + 1
    <3>1. k + 1 = m + 2  BY <1>6, <2>2
    <3> QED BY <1>6, <1>11, <1>12, <2>2, <3>1
  <2>3. CASE k \in 1 .. m
    BY <1>10, <1>11, <2>3
  <2>4. k = 0 \/ k = m + 1 \/ k \in 1 .. m  BY <1>6
  <2> QED BY <2>1, <2>2, <2>3, <2>4
<1>14. ASSUME NEW k \in 1 .. m + 1
       PROVE  Token(k) = SubSeq(s, off[r[k - 1]] + 1, off[r[k]] - 1)
  <2>1. k - 1 \in 0 .. m + 1 /\ k \in 0 .. m + 1 /\ (k - 1) + 1 = k  BY <1>6
  <2>2. cut[k] = off[r[k - 1]] /\ cut[k + 1] = off[r[k]]  BY <1>13, <2>1
  <2> QED BY <2>2
<1>15. tokens = [k \in 1 .. m + 1 |->
                   Unescaped(SubSeq(s, off[r[k - 1]] + 1, off[r[k]] - 1))]
  <2>1. Len(cut) - 1 = m + 1  BY <1>6, <1>11
  <2>2. tokens = [k \in 1 .. Len(cut) - 1 |-> Unescaped(Token(k))]
    BY DEF Unescaped
  <2> HIDE DEF tokens, Token
  <2> QED BY <1>14, <2>1, <2>2
<1> HIDE DEF tokens
<1> QED BY <1>1, <1>5, <1>15

-----------------------------------------------------------------------------
(***************************************************************************)
(* What escapeValue writes and what unescapeValue makes of it.             *)
(***************************************************************************)

\* The characters that escapeValue puts a backslash before.
Marked(v, i) == v[i] = "|" \/ (i = 1 /\ v[i] = "@")

\* e is v with those backslashes: pos says where each character went.
Spread(pos, v, e) ==
  /\ pos \in [0 .. Len(v) -> Nat]
  /\ pos[0] = 0 /\ pos[Len(v)] = Len(e)
  /\ IsSeq(e)
  /\ \A i \in 1 .. Len(v) :
       /\ e[pos[i]] = v[i]
       /\ Marked(v, i) => pos[i] = pos[i - 1] + 2 /\ e[pos[i - 1] + 1] = "\\"
       /\ ~ Marked(v, i) => pos[i] = pos[i - 1] + 1

LEMMA EscapeSpreads ==
  ASSUME NEW v, IsSeq(v)
  PROVE  \E pos : Spread(pos, v, Escape(v))
<1> DEFINE n == Len(v)
           blocks == [i \in DOMAIN v |-> IF v[i] = "|" THEN <<"\\", "|">> ELSE <<v[i]>>]
           lead == IF v # <<>> /\ v[1] = "@" THEN <<"\\">> ELSE <<>>
           flat == FlattenSeq(blocks)
           e == lead \o flat
<1>1. n \in Nat /\ DOMAIN v = 1 .. n  BY ListHasLength
<1>2. IsSeq(<<"\\", "|">>) /\ Len(<<"\\", "|">>) = 2
      /\ <<"\\", "|">>[1] = "\\" /\ <<"\\", "|">>[2] = "|"
  <2>1. <<"\\", "|">> = [i \in 1 .. 2 |-> <<"\\", "|">>[i]]  OBVIOUS
  <2> QED BY <2>1, FunctionIsSeq
<1>3. \A i \in 1 .. n :
        /\ IsSeq(blocks[i])
        /\ v[i] = "|" => Len(blocks[i]) = 2 /\ blocks[i][1] = "\\" /\ blocks[i][2] = v[i]
        /\ v[i] # "|" => Len(blocks[i]) = 1 /\ blocks[i][1] = v[i]
  BY <1>1, <1>2, ShortTexts
<1>4. blocks = [i \in 1 .. n |-> blocks[i]]  BY <1>1
<1>5. Escape(v) = e  BY DEF Escape
<1>6. /\ IsSeq(lead)
      /\ n # 0 /\ v[1] = "@" => Len(lead) = 1 /\ lead[1] = "\\"
      /\ ~ (n # 0 /\ v[1] = "@") => Len(lead) = 0
  <2>1. v # <<>> <=> n # 0
    <3>1. v # <<>> => n # 0  BY TailIsSeq
    <3>2. v = <<>> => n = 0  OBVIOUS
    <3> QED BY <3>1, <3>2
  <2> HIDE DEF n
  <2> QED BY <2>1, ShortTexts
<1> HIDE DEF n, blocks, lead
<1>7. PICK off : Laid(flat, blocks, off, n)
  BY <1>1, <1>3, <1>4, FlatIsLaid
<1> HIDE DEF flat
<1>8. /\ off \in [0 .. n -> Nat] /\ off[0] = 0 /\ IsSeq(flat) /\ Len(flat) = off[n]
      /\ \A i \in 1 .. n : /\ off[i] = off[i - 1] + Len(blocks[i])
                           /\ \A k \in 1 .. Len(blocks[i]) :
                                flat[off[i - 1] + k] = blocks[i][k]
  BY <1>7 DEF Laid
<1>9. /\ IsSeq(e) /\ Len(e) = Len(lead) + Len(flat)
      /\ \A i \in 1 .. Len(lead) : e[i] = lead[i]
      /\ \A i \in 1 .. Len(flat) : e[Len(lead) + i] = flat[i]
  <2>1. IsSeq(lead) /\ IsSeq(flat)  BY <1>6, <1>8
  <2> QED BY <2>1, ConcatIsSeq
<1> HIDE DEF e
<1>10. PICK l : l = Len(lead)  OBVIOUS
<1>11. l \in {0, 1} /\ l \in Nat
  BY <1>6, <1>10
<1> DEFINE pos == [i \in 0 .. n |-> IF i = 0 THEN 0 ELSE l + off[i]]
<1>12. pos[0] = 0 /\ \A i \in 1 .. n : pos[i] = l + off[i]
  BY <1>1
<1>13. pos \in [0 .. n -> Nat]
  BY <1>8, <1>11
<1> HIDE DEF pos
<1>14. pos[n] = Len(e)
  <2>1. CASE n = 0
    <3>1. Len(lead) = 0  BY <1>6, <2>1
    <3>2. Len(flat) = 0  BY <1>8, <2>1
    <3>3. Len(e) = 0  BY <1>9, <3>1, <3>2
    <3> QED BY <1>12, <2>1, <3>3
  <2>2. CASE n # 0
    <3>1. n \in 1 .. n  BY <1>1, <2>2
    <3> QED BY <1>8, <1>9, <1>10, <1>12, <3>1
  <2> QED BY <2>1, <2>2
<1>15. \A i \in 1 .. n : off[i] <= Len(flat) /\ off[i - 1] \in Nat /\ off[i] \in Nat
  <2>1. \A i \in 1 .. n : off[i - 1] \in Nat /\ off[i] \in Nat /\ off[i - 1] < off[i]
    <3> SUFFICES ASSUME NEW i \in 1 .. n
                 PROVE  off[i - 1] \in Nat /\ off[i] \in Nat /\ off[i - 1] < off[i]
      OBVIOUS
    <3>1. i - 1 \in 0 .. n /\ i \in 0 .. n  BY <1>1
    <3>2. Len(blocks[i]) \in {1, 2}  BY <1>3
    <3>3. PICK o, b, p : o = off[i - 1] /\ b = Len(blocks[i]) /\ p = off[i]  OBVIOUS
    <3>4. o \in Nat /\ p \in Nat /\ p = o + b /\ b \in {1, 2}  BY <1>8, <3>1, <3>2, <3>3
    <3>5. o < p  BY <3>4
    <3> QED BY <3>3, <3>4, <3>5
  <2>2. Rises(off, n)  BY <1>8, <2>1 DEF Rises
  <2>3. ASSUME NEW i \in 1 .. n  PROVE off[i] <= Len(flat)
    <3>1. i \in 0 .. n /\ n \in 0 .. n /\ n \in 1 .. n  BY <1>1
    <3>2. i < n => off[i] < off[n]  BY <1>1, <2>2, <3>1, RisesInOrder
    <3>3. off[i] \in Nat /\ off[n] \in Nat  BY <2>1, <3>1
    <3> QED BY <1>1, <1>8, <3>2, <3>3
  <2> QED BY <2>1, <2>3
<1>16. ASSUME NEW i \in 1 .. n
       PROVE  /\ e[pos[i]] = v[i]
              /\ Marked(v, i) => pos[i] = pos[i - 1] + 2 /\ e[pos[i - 1] + 1] = "\\"
              /\ ~ Marked(v, i) => pos[i] = pos[i - 1] + 1
  <2>0. PICK o : o = off[i - 1]  OBVIOUS
  <2>1. o \in Nat /\ o + Len(blocks[i]) = off[i] /\ off[i] <= Len(flat) /\ Len(flat) \in Nat
    BY <1>8, <1>15, <2>0, ListHasLength
  <2>2. /\ \A k \in 1 .. Len(blocks[i]) : flat[o + k] = blocks[i][k]
        /\ \A p \in 1 .. Len(flat) : e[l + p] = flat[p]
    BY <1>8, <1>9, <1>10, <2>0
  <2>3. pos[i - 1] = IF i = 1 THEN 0 ELSE l + o
    <3>1. i = 1 => i - 1 = 0  OBVIOUS
    <3>2. i # 1 => i - 1 \in 1 .. n  BY <1>1
    <3> QED BY <1>12, <2>0, <3>1, <3>2
  <2>4. i = 1 => o = 0
    <3>1. i = 1 => i - 1 = 0  OBVIOUS
    <3> QED BY <1>8, <2>0, <3>1
  <2>5. CASE v[i] = "|"
    <3>1. Len(blocks[i]) = 2 /\ blocks[i][1] = "\\" /\ blocks[i][2] = v[i]  BY <1>3, <2>5
    <3>2. off[i] = o + 2 /\ o + 1 \in 1 .. Len(flat) /\ o + 2 \in 1 .. Len(flat)
      BY <2>1, <3>1
    <3>3. flat[o + 1] = "\\" /\ flat[o + 2] = v[i]
      <4>1. 1 \in 1 .. 2 /\ 2 \in 1 .. 2  OBVIOUS
      <4> QED BY <2>2, <3>1, <4>1
    <3>4. e[l + (o + 1)] = "\\" /\ e[l + (o + 2)] = v[i]  BY <2>2, <3>2, <3>3
    <3>5. i = 1 => l = 0  BY <1>1, <1>6, <1>10, <2>5
    <3>6. pos[i - 1] = l + o
      <4>1. i = 1 => l + o = 0  BY <2>4, <3>5
      <4> QED BY <2>3, <4>1
    <3>7. pos[i] = l + (o + 2)  BY <1>12, <3>2
    <3>8. (l + o) + 1 = l + (o + 1) /\ l + (o + 2) = (l + o) + 2  BY <1>11, <2>1
    <3>9. Marked(v, i)  BY <2>5 DEF Marked
    <3> QED BY <3>4, <3>6, <3>7, <3>8, <3>9
  <2>6. CASE v[i] # "|"
    <3>1. Len(blocks[i]) = 1 /\ blocks[i][1] = v[i]  BY <1>3, <2>6
    <3>2. off[i] = o + 1 /\ o + 1 \in 1 .. Len(flat)  BY <2>1, <3>1
    <3>3. flat[o + 1] = v[i]
      <4>1. 1 \in 1 .. 1  OBVIOUS
      <4> QED BY <2>2, <3>1, <4>1
    <3>4. e[l + (o + 1)] = v[i]  BY <2>2, <3>2, <3>3
    <3>5. pos[i] = l + (o + 1)  BY <1>12, <3>2
    <3>6. CASE i = 1 /\ v[i] = "@"
      <4>1. n # 0 /\ v[1] = "@"  BY <1>1, <3>6
      <4>2. l = 1 /\ lead[1] = "\\"  BY <1>6, <1>10, <4>1
      <4>3. e[1] = "\\"
        <5>1. 1 \in 1 .. Len(lead)  BY <1>10, <4>2
        <5> QED BY <1>9, <4>2, <5>1
      <4>4. pos[i - 1] = 0 /\ pos[i] = 2  BY <2>3, <2>4, <3>5, <3>6, <4>2
      <4>5. Marked(v, i)  BY <3>6 DEF Marked
      <4> QED BY <3>4, <3>5, <4>3, <4>4, <4>5
    <3>7. CASE ~ (i = 1 /\ v[i] = "@")
      <4>1. ~ Marked(v, i)  BY <2>6, <3>7 DEF Marked
      <4>2. i = 1 => l = 0  BY <1>6, <1>10, <3>7
      <4>3. pos[i - 1] = l + o
        <5>1. i = 1 => l + o = 0  BY <2>4, <4>2
        <5> QED BY <2>3, <5>1
      <4>4. l + (o + 1) = (l + o) + 1  BY <1>11, <2>1
      <4> QED BY <3>4, <3>5, <4>1, <4>3, <4>4
    <3> QED BY <3>6, <3>7
  <2> QED BY <2>5, <2>6
<1>17. Spread(pos, v, e)
  <2>1. Len(v) = n  BY DEF n
  <2> QED BY <1>9, <1>12, <1>13, <1>14, <1>16, <2>1, Zenon DEF Spread
<1> QED BY <1>5, <1>17

\* What is cut out of a text.
LEMMA CutOut ==
  ASSUME NEW s, IsSeq(s), NEW a \in Nat, NEW b \in Nat, a <= b, b <= Len(s)
  PROVE  /\ IsSeq(SubSeq(s, a + 1, b))
         /\ Len(SubSeq(s, a + 1, b)) = b - a
         /\ \A i \in 1 .. b - a : SubSeq(s, a + 1, b)[i] = s[a + i]
<1> DEFINE S == ToSet(s)  u == SubSeq(s, a + 1, b)
<1>1. Len(s) \in Nat /\ DOMAIN s = 1 .. Len(s)  BY ListHasLength
<1>2. \A i \in a + 1 .. b : i \in DOMAIN s
  <2>1. \A i \in a + 1 .. b : i \in 1 .. Len(s)  BY <1>1
  <2> QED BY <1>1, <2>1
<1>3. \A i \in a + 1 .. b : s[i] \in S  BY <1>1, <1>2 DEF ToSet
<1> HIDE DEF S
<1>4. /\ u \in Seq(S)
      /\ Len(u) = IF a + 1 <= b THEN b - (a + 1) + 1 ELSE 0
      /\ \A i \in 1 .. b - (a + 1) + 1 : u[i] = s[a + 1 + i - 1]
  BY <1>3, SubSeqProperties
<1> HIDE DEF u
<1>5. b - a \in Nat /\ b - (a + 1) + 1 = b - a
  OBVIOUS
<1>6. Len(u) = b - a
  BY <1>4
<1>7. ASSUME NEW i \in 1 .. b - a  PROVE u[i] = s[a + i]
  <2>1. a + 1 + i - 1 = a + i  OBVIOUS
  <2> QED BY <1>4, <1>5, <2>1
<1>8. u = [i \in 1 .. b - a |-> u[i]]  BY <1>4, <1>6, LenProperties
<1>9. IsSeq(u)  BY <1>5, <1>8, FunctionIsSeq
<1> QED BY <1>6, <1>7, <1>9 DEF u

\* Texts with the same characters are the same.
LEMMA SameText ==
  ASSUME NEW s, IsSeq(s), NEW t, IsSeq(t), Len(s) = Len(t),
         \A i \in 1 .. Len(s) : s[i] = t[i]
  PROVE  s = t
<1>1. s = [i \in 1 .. Len(s) |-> s[i]] /\ t = [i \in 1 .. Len(t) |-> t[i]]
  BY ListHasLength
<1> QED BY <1>1

\* What rises reaches its own place.
LEMMA RisesAbove ==
  ASSUME NEW n \in Nat, NEW f, Rises(f, n)
  PROVE  \A k \in 0 .. n : k <= f[k]
<1> DEFINE Bad == {k \in Nat : k <= n /\ ~ (k <= f[k])}
<1>1. Bad \subseteq Nat  OBVIOUS
<1>2. ASSUME Bad # {}  PROVE FALSE
  <2>1. PICK k \in Bad : \A j \in Bad : ~ (<<j, k>> \in Less)
    <3> HIDE DEF Bad
    <3> QED BY <1>1, <1>2, LessIsWellFounded, WFMin
  <2>2. k \in Nat /\ k <= n /\ ~ (k <= f[k])  BY <2>1
  <2>3. k \in 0 .. n /\ f[k] \in Nat
    <3>1. k \in 0 .. n  BY <2>2
    <3> QED BY <3>1 DEF Rises
  <2>4. k # 0  BY <2>2, <2>3
  <2>5. k \in 1 .. n /\ k - 1 \in 0 .. n /\ k - 1 \in Nat /\ k - 1 <= n /\ <<k - 1, k>> \in Less
    BY <2>2, <2>4 DEF Less
  <2>6. f[k - 1] < f[k] /\ f[k - 1] \in Nat  BY <2>5 DEF Rises
  <2>7. k - 1 <= f[k - 1]  BY <2>1, <2>5
  <2> QED BY <2>2, <2>3, <2>6, <2>7
<1>3. ASSUME NEW k \in 0 .. n  PROVE k <= f[k]
  <2>1. k \notin Bad  BY <1>2
  <2> QED BY <2>1
<1> QED BY <1>3

\* f gives the d least numbers of a set in order.
Starts(f, d, at) ==
  /\ d \in Nat
  /\ \A k \in 1 .. d : f[k] \in at
  /\ \A k, l \in 1 .. d : k < l => f[k] < f[l]
  /\ \A j \in at : d # 0 /\ j <= f[d] => \E k \in 1 .. d : f[k] = j

\* Every list of the set begins with them.
LEMMA ListBegins ==
  ASSUME NEW at \in SUBSET Nat, NEW m, NEW q, Lists(q, m, at),
         NEW d, NEW f, Starts(f, d, at)
  PROVE  \A k \in 1 .. d : k \in 1 .. m /\ q[k] = f[k]
<1>0. /\ d \in Nat
      /\ \A k \in 1 .. d : f[k] \in at
      /\ \A k, l \in 1 .. d : k < l => f[k] < f[l]
      /\ \A j \in at : d # 0 /\ j <= f[d] => \E k \in 1 .. d : f[k] = j
  BY DEF Starts
<1>1. m \in Nat /\ q \in [1 .. m -> at] /\ \A k \in 1 .. m : q[k] \in at /\ q[k] \in Nat
  BY DEF Lists
<1>2. \A k, l \in 1 .. m : k < l => q[k] < q[l]  BY DEF Lists
<1> DEFINE Bad == {k \in Nat : k \in 1 .. d /\ ~ (k <= m /\ q[k] = f[k])}
<1>3. Bad \subseteq Nat  OBVIOUS
<1>4. ASSUME Bad # {}  PROVE FALSE
  <2>1. PICK k \in Bad : \A j \in Bad : ~ (<<j, k>> \in Less)
    <3> HIDE DEF Bad
    <3> QED BY <1>3, <1>4, LessIsWellFounded, WFMin
  <2>2. k \in Nat /\ k \in 1 .. d /\ ~ (k <= m /\ q[k] = f[k])  BY <2>1
  <2>3. ASSUME NEW j \in 1 .. d, j < k  PROVE j <= m /\ q[j] = f[j]
    <3>1. <<j, k>> \in Less /\ j \in Nat  BY <2>2, <2>3 DEF Less
    <3> QED BY <2>1, <3>1
  <2>4. PICK l \in 1 .. m : q[l] = f[k]
    <3>1. f[k] \in at  BY <1>0, <2>2
    <3> QED BY <3>1 DEF Lists
  <2>5. ~ (l < k)
    <3> SUFFICES ASSUME l < k  PROVE FALSE
      OBVIOUS
    <3>1. l \in 1 .. d  BY <1>0, <1>1, <2>2
    <3>2. q[l] = f[l] /\ f[l] < f[k]  BY <1>0, <2>2, <2>3, <3>1
    <3>3. f[k] \in Nat  BY <1>0, <2>2
    <3> QED BY <2>4, <3>2, <3>3
  <2>6. k < l /\ k \in 1 .. m
    <3>1. l # k  BY <1>1, <2>2, <2>4
    <3> QED BY <1>1, <2>2, <2>5, <3>1
  <2>7. q[k] < f[k] /\ q[k] \in at /\ q[k] \in Nat  BY <1>1, <1>2, <2>4, <2>6
  <2>8. f[k] <= f[d] /\ f[k] \in Nat /\ f[d] \in Nat
    <3>1. d \in 1 .. d  BY <1>0, <2>2
    <3>2. k < d \/ k = d  BY <1>0, <2>2
    <3>3. f[k] \in Nat /\ f[d] \in Nat  BY <1>0, <2>2, <3>1
    <3>4. k < d => f[k] < f[d]  BY <1>0, <2>2, <3>1
    <3> QED BY <3>2, <3>3, <3>4
  <2>9. PICK j \in 1 .. d : f[j] = q[k]
    <3>1. d # 0 /\ q[k] <= f[d]  BY <2>2, <2>7, <2>8
    <3> QED BY <1>0, <2>7, <3>1
  <2>10. j < k
    <3> SUFFICES ASSUME ~ (j < k)  PROVE FALSE
      OBVIOUS
    <3>1. k < j \/ k = j  BY <2>2
    <3>2. k < j => f[k] < f[j]  BY <1>0, <2>2
    <3> QED BY <2>7, <2>8, <2>9, <3>1, <3>2
  <2>11. q[j] = q[k] /\ j \in 1 .. m
    <3>1. j <= m /\ q[j] = f[j]  BY <2>3, <2>10
    <3> QED BY <1>1, <2>9, <3>1
  <2>12. q[j] < q[k]  BY <1>2, <2>6, <2>10, <2>11
  <2> QED BY <2>7, <2>11, <2>12
<1>5. \A k \in 1 .. d : k <= m /\ q[k] = f[k]  BY <1>4
<1> QED BY <1>1, <1>5

\* Every character of the escaped text is one of v or a backslash before one.
LEMMA SpreadCovers ==
  ASSUME NEW v, IsSeq(v), NEW e, NEW pos, Spread(pos, v, e)
  PROVE  /\ Len(v) \in Nat /\ Rises(pos, Len(v)) /\ Len(e) \in Nat /\ IsSeq(e)
         /\ \A i \in 1 .. Len(v) : pos[i] \in 1 .. Len(e)
         /\ \A p \in 1 .. Len(e) : \E i \in 1 .. Len(v) :
              p = pos[i] \/ (Marked(v, i) /\ p = pos[i - 1] + 1 /\ p + 1 = pos[i])
<1>0. PICK n : n = Len(v)  OBVIOUS
<1>1. /\ n \in Nat /\ pos \in [0 .. n -> Nat] /\ pos[0] = 0 /\ pos[n] = Len(e) /\ IsSeq(e)
      /\ \A i \in 1 .. n : /\ Marked(v, i) => pos[i] = pos[i - 1] + 2
                           /\ ~ Marked(v, i) => pos[i] = pos[i - 1] + 1
  BY <1>0, ListHasLength DEF Spread
<1>2. \A i \in 1 .. n : pos[i - 1] \in Nat /\ pos[i] \in Nat /\ pos[i - 1] < pos[i]
  <2> SUFFICES ASSUME NEW i \in 1 .. n
               PROVE  pos[i - 1] \in Nat /\ pos[i] \in Nat /\ pos[i - 1] < pos[i]
    OBVIOUS
  <2>1. i - 1 \in 0 .. n /\ i \in 0 .. n  BY <1>1
  <2>2. pos[i - 1] \in Nat /\ pos[i] \in Nat  BY <1>1, <2>1
  <2>3. pos[i] = pos[i - 1] + 2 \/ pos[i] = pos[i - 1] + 1  BY <1>1
  <2> QED BY <2>2, <2>3
<1>3. Rises(pos, n)  BY <1>1, <1>2 DEF Rises
<1>4. Len(e) \in Nat  BY <1>1, ListHasLength
<1>5. ASSUME NEW i \in 1 .. n  PROVE pos[i] \in 1 .. Len(e)
  <2>1. i \in 0 .. n /\ n \in 0 .. n  BY <1>1
  <2>2. i < n => pos[i] < pos[n]  BY <1>1, <1>3, <2>1, RisesInOrder
  <2>3. pos[i - 1] \in Nat /\ pos[i] \in Nat /\ pos[i - 1] < pos[i]  BY <1>2
  <2>4. pos[i] <= Len(e)
    <3>1. CASE i < n
      BY <1>1, <1>4, <2>2, <2>3, <3>1
    <3>2. CASE i = n
      BY <1>1, <1>4, <3>2
    <3> QED BY <1>1, <3>1, <3>2
  <2> QED BY <1>4, <2>3, <2>4
<1>6. ASSUME NEW p \in 1 .. Len(e)
      PROVE  \E i \in 1 .. n :
               p = pos[i] \/ (Marked(v, i) /\ p = pos[i - 1] + 1 /\ p + 1 = pos[i])
  <2>1. p \in Nat /\ pos[0] < p /\ p <= pos[n]  BY <1>1, <1>4
  <2>2. PICK i \in 1 .. n : pos[i - 1] < p /\ p <= pos[i]
    BY <1>1, <1>3, <2>1, RisesOver
  <2>3. CASE ~ Marked(v, i)
    <3>1. pos[i] = pos[i - 1] + 1 /\ pos[i - 1] \in Nat  BY <1>1, <1>2, <2>3
    <3>2. p = pos[i]  BY <2>1, <2>2, <3>1
    <3> QED BY <3>2
  <2>4. CASE Marked(v, i)
    <3>1. pos[i] = pos[i - 1] + 2 /\ pos[i - 1] \in Nat  BY <1>1, <1>2, <2>4
    <3>2. p = pos[i] \/ (p = pos[i - 1] + 1 /\ p + 1 = pos[i])  BY <2>1, <2>2, <3>1
    <3> QED BY <2>4, <3>2
  <2> QED BY <2>3, <2>4
<1> QED BY <1>0, <1>1, <1>3, <1>4, <1>5, <1>6

\* An escaped value shows no pipe, and ends as the value does.
LEMMA EscapeGuards ==
  ASSUME NEW v, IsSeq(v)
  PROVE  /\ IsSeq(Escape(v)) /\ Guarded(Escape(v))
         /\ Escape(v) = <<>> <=> v = <<>>
         /\ \A ch : EndsWith(Escape(v), ch) <=> EndsWith(v, ch)
<1>1. PICK pos : Spread(pos, v, Escape(v))  BY EscapeSpreads
<1>2. PICK n, e : n = Len(v) /\ e = Escape(v)  OBVIOUS
<1>3. /\ n \in Nat /\ Rises(pos, n) /\ Len(e) \in Nat /\ IsSeq(e)
      /\ \A i \in 1 .. n : pos[i] \in 1 .. Len(e)
      /\ \A p \in 1 .. Len(e) : \E i \in 1 .. n :
           p = pos[i] \/ (Marked(v, i) /\ p = pos[i - 1] + 1 /\ p + 1 = pos[i])
  BY <1>1, <1>2, SpreadCovers
<1>4. /\ pos[0] = 0 /\ pos[n] = Len(e)
      /\ \A i \in 1 .. n : /\ e[pos[i]] = v[i]
                           /\ Marked(v, i) => pos[i] = pos[i - 1] + 2 /\ e[pos[i - 1] + 1] = "\\"
  BY <1>1, <1>2 DEF Spread
<1>5. ASSUME NEW p \in 1 .. Len(e), e[p] = "|"
      PROVE  p - 1 \in 1 .. Len(e) /\ e[p - 1] = "\\"
  <2>1. PICK i \in 1 .. n :
          p = pos[i] \/ (Marked(v, i) /\ p = pos[i - 1] + 1 /\ p + 1 = pos[i])
    BY <1>3
  <2>2. CASE p = pos[i]
    <3>1. Marked(v, i)  BY <1>4, <1>5, <2>2 DEF Marked
    <3>2. pos[i] = pos[i - 1] + 2 /\ e[pos[i - 1] + 1] = "\\"  BY <1>4, <3>1
    <3>3. pos[i - 1] \in Nat
      <4>1. i - 1 \in 0 .. n  BY <1>3
      <4> QED BY <1>3, <4>1 DEF Rises
    <3>4. p - 1 = pos[i - 1] + 1 /\ p - 1 \in 1 .. Len(e)  BY <1>3, <2>2, <3>2, <3>3
    <3> QED BY <3>2, <3>4
  <2>3. CASE Marked(v, i) /\ p = pos[i - 1] + 1
    <3>1. e[p] = "\\"  BY <1>4, <2>3
    <3> QED BY <1>5, <3>1
  <2> QED BY <2>1, <2>2, <2>3
<1>6. Guarded(e)  BY <1>5 DEF Guarded
<1>7. (v = <<>> <=> n = 0) /\ (e = <<>> <=> Len(e) = 0)
  <2>1. v # <<>> => n # 0  BY <1>2, TailIsSeq
  <2>2. e # <<>> => Len(e) # 0  BY <1>3, TailIsSeq
  <2>3. v = <<>> => n = 0  BY <1>2
  <2>4. e = <<>> => Len(e) = 0  OBVIOUS
  <2> QED BY <2>1, <2>2, <2>3, <2>4
<1>8. Len(e) = 0 <=> n = 0
  <2>1. n # 0 => Len(e) # 0
    <3> SUFFICES ASSUME n # 0  PROVE Len(e) # 0
      OBVIOUS
    <3>1. n \in 1 .. n  BY <1>3
    <3> QED BY <1>3, <3>1
  <2> QED BY <1>4, <2>1
<1>9. ASSUME NEW ch  PROVE EndsWith(e, ch) <=> EndsWith(v, ch)
  <2>1. CASE n = 0
    BY <1>7, <1>8, <2>1 DEF EndsWith
  <2>2. CASE n # 0
    <3>1. n \in 1 .. n  BY <1>3, <2>2
    <3>2. e[Len(e)] = v[n]  BY <1>4, <3>1
    <3> QED BY <1>2, <1>7, <1>8, <2>2, <3>2 DEF EndsWith, Last
  <2> QED BY <2>1, <2>2
<1> QED BY <1>2, <1>3, <1>6, <1>7, <1>8, <1>9

\* A text that begins like the escaped value loses the backslashes that were
\* put into it, and keeps what the value has, unless that is a backslash too.
LEMMA SpreadIsKept ==
  ASSUME NEW v, IsSeq(v), NEW e, NEW pos, Spread(pos, v, e),
         NEW d \in 0 .. Len(v), NEW t, IsSeq(t), pos[d] <= Len(t),
         \A p \in 1 .. pos[d] : t[p] = e[p],
         \A i \in 1 .. d - 1 : ~ (v[i] = "\\" /\ v[i + 1] = "@")
  PROVE  /\ \A i \in 1 .. d - 1 : ~ Escapes(t, pos[i])
         /\ \A p \in 1 .. pos[d] : ~ Escapes(t, p) => \E i \in 1 .. d : p = pos[i]
<1>0. PICK n : n = Len(v)  OBVIOUS
<1>1. /\ n \in Nat /\ Rises(pos, n) /\ Len(e) \in Nat /\ IsSeq(e)
      /\ \A i \in 1 .. n : pos[i] \in 1 .. Len(e)
      /\ \A p \in 1 .. Len(e) : \E i \in 1 .. n :
           p = pos[i] \/ (Marked(v, i) /\ p = pos[i - 1] + 1 /\ p + 1 = pos[i])
  BY <1>0, SpreadCovers
<1>2. /\ pos[0] = 0
      /\ \A i \in 1 .. n : /\ e[pos[i]] = v[i]
                           /\ Marked(v, i) => pos[i] = pos[i - 1] + 2 /\ e[pos[i - 1] + 1] = "\\"
                           /\ ~ Marked(v, i) => pos[i] = pos[i - 1] + 1
  BY <1>0 DEF Spread
<1>3. d \in 0 .. n /\ d \in Nat  BY <1>0, <1>1
<1>4. \A k, l \in 0 .. n : k < l => pos[k] < pos[l]  BY <1>1, RisesInOrder
<1>5. \A k \in 0 .. n : pos[k] \in Nat  BY <1>1 DEF Rises
<1>6. Len(t) \in Nat /\ DOMAIN t = 1 .. Len(t)  BY ListHasLength
<1>7. ASSUME NEW i \in 1 .. d - 1  PROVE ~ Escapes(t, pos[i])
  <2>1. i \in 1 .. n /\ i + 1 \in 1 .. n /\ i \in 0 .. n /\ i + 1 \in 0 .. n /\ (i + 1) - 1 = i
        /\ i < d /\ (i + 1 < d \/ i + 1 = d)
    BY <1>1, <1>3
  <2>2. PICK a, b : a = pos[i] /\ b = pos[i + 1]  OBVIOUS
  <2>3. a \in Nat /\ b \in Nat /\ a < b /\ b <= pos[d] /\ 1 <= a /\ pos[d] \in Nat
    <3>1. a \in Nat /\ b \in Nat /\ pos[d] \in Nat  BY <1>3, <1>5, <2>1, <2>2
    <3>2. a < b  BY <1>4, <2>1, <2>2
    <3>3. i + 1 < d => b < pos[d]  BY <1>3, <1>4, <2>1, <2>2
    <3>4. i + 1 = d => b = pos[d]  BY <2>2
    <3>5. pos[0] < a
      <4>1. 0 \in 0 .. n /\ 0 < i  BY <1>1, <2>1
      <4> QED BY <1>4, <2>1, <2>2, <4>1
    <3> QED BY <1>2, <2>1, <3>1, <3>2, <3>3, <3>4, <3>5
  <2>4. a \in 1 .. pos[d] /\ a + 1 \in 1 .. pos[d]  BY <2>3
  <2>5. t[a] = v[i] /\ t[a + 1] = e[a + 1]  BY <1>2, <2>1, <2>2, <2>4
  <2>6. CASE Marked(v, i + 1)
    <3>1. e[a + 1] = "\\"  BY <1>2, <2>1, <2>2, <2>6
    <3> QED BY <2>2, <2>5, <3>1 DEF Escapes
  <2>7. CASE ~ Marked(v, i + 1)
    <3>1. b = a + 1  BY <1>2, <2>1, <2>2, <2>7
    <3>2. t[a + 1] = v[i + 1]
      <4>1. e[b] = v[i + 1]  BY <1>2, <2>1, <2>2
      <4> QED BY <2>5, <3>1, <4>1
    <3>3. v[i + 1] # "|"  BY <2>7 DEF Marked
    <3>4. ~ (v[i] = "\\" /\ v[i + 1] = "@")  OBVIOUS
    <3> QED BY <2>2, <2>5, <3>2, <3>3, <3>4 DEF Escapes
  <2> QED BY <2>6, <2>7
<1>8. ASSUME NEW p \in 1 .. pos[d], ~ Escapes(t, p)
      PROVE  \E i \in 1 .. d : p = pos[i]
  <2>1. pos[d] \in Nat /\ pos[d] <= Len(e) /\ p \in Nat
    <3>1. pos[d] \in Nat  BY <1>3, <1>5
    <3>2. d = 0 \/ d \in 1 .. n  BY <1>3
    <3> QED BY <1>1, <1>2, <3>1, <3>2
  <2>2. p \in 1 .. Len(e)  BY <1>1, <2>1
  <2>3. PICK i \in 1 .. n :
          p = pos[i] \/ (Marked(v, i) /\ p = pos[i - 1] + 1 /\ p + 1 = pos[i])
    BY <1>1, <2>2
  <2>4. i \in 0 .. n /\ i - 1 \in 0 .. n /\ i \in Nat  BY <1>1
  <2>5. CASE p = pos[i]
    <3>1. ~ (d < i)
      <4>1. d < i => pos[d] < p  BY <1>3, <1>4, <2>4, <2>5
      <4> QED BY <2>1, <4>1
    <3>2. i \in 1 .. d  BY <1>3, <2>4, <3>1
    <3> QED BY <2>5, <3>2
  <2>6. CASE Marked(v, i) /\ p = pos[i - 1] + 1 /\ p + 1 = pos[i]
    <3>1. ~ (d <= i - 1)
      <4>1. d < i - 1 => pos[d] < pos[i - 1]  BY <1>3, <1>4, <2>4
      <4>2. pos[i - 1] \in Nat  BY <1>5, <2>4
      <4>3. d = i - 1 => pos[d] = pos[i - 1]  OBVIOUS
      <4>4. d <= i - 1 => pos[d] <= pos[i - 1]  BY <1>3, <2>1, <2>4, <4>1, <4>2, <4>3
      <4> QED BY <2>1, <2>6, <4>2, <4>4
    <3>2. i = d \/ i < d  BY <1>3, <2>4, <3>1
    <3>3. p + 1 <= pos[d] /\ p + 1 \in 1 .. pos[d]
      <4>1. i < d => p + 1 < pos[d]  BY <1>3, <1>4, <2>4, <2>6
      <4>2. i = d => p + 1 = pos[d]  BY <2>6
      <4> QED BY <2>1, <3>2, <4>1, <4>2
    <3>4. t[p] = "\\" /\ t[p + 1] = v[i]
      <4>1. e[p] = "\\" /\ e[p + 1] = v[i]  BY <1>2, <2>6
      <4> QED BY <3>3, <4>1
    <3>5. v[i] \in {"|", "@"}  BY <2>6 DEF Marked
    <3>6. p \in DOMAIN t /\ p + 1 \in DOMAIN t  BY <1>6, <2>1, <3>3
    <3>7. Escapes(t, p)  BY <3>4, <3>5, <3>6 DEF Escapes
    <3> QED BY <1>8, <3>7
  <2> QED BY <2>3, <2>5, <2>6
<1> QED BY <1>7, <1>8

NoEscapedAt(v) == \A k \in 1 .. Len(v) - 1 : ~ (v[k] = "\\" /\ v[k + 1] = "@")

\* What was escaped comes back.
LEMMA EscapeIsUndone ==
  ASSUME NEW v, IsSeq(v), NoEscapedAt(v)
  PROVE  Unescaped(Escape(v)) = v
<1>1. PICK pos : Spread(pos, v, Escape(v))  BY EscapeSpreads
<1>2. PICK n, e : n = Len(v) /\ e = Escape(v)  OBVIOUS
<1>3. /\ n \in Nat /\ Rises(pos, n) /\ Len(e) \in Nat /\ IsSeq(e)
      /\ \A i \in 1 .. n : pos[i] \in 1 .. Len(e)
  BY <1>1, <1>2, SpreadCovers
<1>4. /\ pos[n] = Len(e) /\ \A i \in 1 .. n : e[pos[i]] = v[i]
  BY <1>1, <1>2 DEF Spread
<1>5. /\ \A i \in 1 .. n - 1 : ~ Escapes(e, pos[i])
      /\ \A p \in 1 .. pos[n] : ~ Escapes(e, p) => \E i \in 1 .. n : p = pos[i]
  <2>1. n \in 0 .. Len(v) /\ pos[n] <= Len(e)  BY <1>2, <1>3, <1>4
  <2>2. \A p \in 1 .. pos[n] : e[p] = e[p]  OBVIOUS
  <2>3. \A i \in 1 .. n - 1 : ~ (v[i] = "\\" /\ v[i + 1] = "@")  BY <1>2 DEF NoEscapedAt
  <2>4. Spread(pos, v, e)  BY <1>1, <1>2
  <2> QED BY <1>3, <2>1, <2>2, <2>3, <2>4, SpreadIsKept
<1>6. DOMAIN e = 1 .. Len(e)  BY <1>3, ListHasLength
<1> DEFINE kept == {p \in DOMAIN e : ~ Escapes(e, p)}
           q == [i \in 1 .. n |-> pos[i]]
<1>7. ASSUME NEW i \in 1 .. n  PROVE pos[i] \in kept
  <2>1. CASE i = n
    <3>1. pos[i] + 1 \notin DOMAIN e  BY <1>3, <1>4, <1>6, <2>1
    <3> QED BY <1>3, <1>6, <3>1 DEF Escapes
  <2>2. CASE i # n
    <3>1. i \in 1 .. n - 1  BY <1>3, <2>2
    <3> QED BY <1>3, <1>5, <1>6, <3>1
  <2> QED BY <2>1, <2>2
<1>8. Lists(q, n, kept)
  <2>1. q \in [1 .. n -> kept]  BY <1>7
  <2>2. \A k, l \in 1 .. n : k < l => q[k] < q[l]
    <3>1. \A k \in 1 .. n : k \in 0 .. n  BY <1>3
    <3> QED BY <1>3, <3>1, RisesInOrder
  <2>3. \A p \in kept : \E i \in 1 .. n : q[i] = p  BY <1>4, <1>5, <1>6
  <2> HIDE DEF q, kept
  <2> QED BY <1>3, <2>1, <2>2, <2>3 DEF Lists
<1>9. kept \in SUBSET Nat  BY <1>6
<1>10. Unescaped(e) = Pick(e, kept)  BY DEF Unescaped
<1> HIDE DEF kept
<1>11. Pick(e, kept) = [i \in 1 .. n |-> e[q[i]]]
  <2> HIDE DEF q
  <2> QED BY <1>8, <1>9, PickFollows
<1>12. [i \in 1 .. n |-> e[q[i]]] = [i \in 1 .. n |-> v[i]]  BY <1>4
<1>13. v = [i \in 1 .. n |-> v[i]]  BY <1>2, ListHasLength
<1> QED BY <1>2, <1>10, <1>11, <1>12, <1>13

\* A text without backslashes has nothing to undo.
LEMMA PlainIsKept ==
  ASSUME NEW t, IsSeq(t), \A i \in 1 .. Len(t) : t[i] # "\\"
  PROVE  Unescaped(t) = t
<1>1. DOMAIN t = 1 .. Len(t)  BY ListHasLength
<1>2. {i \in DOMAIN t : ~ Escapes(t, i)} = DOMAIN t
  BY <1>1 DEF Escapes
<1> QED BY <1>2, PickAll DEF Unescaped

\* A backslash of the value itself that escapes something is lost: where it
\* was, the reader sees what came next.
LEMMA BackslashIsLost ==
  ASSUME NEW v, IsSeq(v), NEW e, NEW pos, Spread(pos, v, e),
         NEW d \in 1 .. Len(v), NEW t, IsSeq(t), pos[d] + 1 <= Len(t),
         \A p \in 1 .. pos[d] : t[p] = e[p],
         \A i \in 1 .. d - 1 : ~ (v[i] = "\\" /\ v[i + 1] = "@"),
         v[d] = "\\", t[pos[d] + 1] \in {"|", "@"}
  PROVE  Unescaped(t) # v
<1>0. PICK n : n = Len(v)  OBVIOUS
<1>1. /\ n \in Nat /\ Rises(pos, n) /\ Len(e) \in Nat
      /\ \A i \in 1 .. n : pos[i] \in 1 .. Len(e)
  BY <1>0, SpreadCovers
<1>2. \A i \in 1 .. n : e[pos[i]] = v[i]  BY <1>0 DEF Spread
<1>3. Len(t) \in Nat /\ DOMAIN t = 1 .. Len(t)  BY ListHasLength
<1>4. d \in 1 .. n /\ d \in Nat /\ pos[d] \in Nat /\ pos[d] >= 1 /\ pos[d] <= Len(t)
  <2>1. d \in 1 .. n /\ d \in Nat  BY <1>0, <1>1
  <2>2. pos[d] \in 1 .. Len(e)  BY <1>1, <2>1
  <2> QED BY <1>1, <1>3, <2>1, <2>2
<1>5. /\ \A i \in 1 .. d - 1 : ~ Escapes(t, pos[i])
      /\ \A p \in 1 .. pos[d] : ~ Escapes(t, p) => \E i \in 1 .. d : p = pos[i]
  <2>1. d \in 0 .. Len(v)  BY <1>0, <1>1, <1>4
  <2> QED BY <1>4, <2>1, SpreadIsKept
<1> DEFINE kept == {p \in DOMAIN t : ~ Escapes(t, p)}
           f == [k \in 1 .. d |-> IF k = d THEN pos[d] + 1 ELSE pos[k]]
<1>6. f[d] = pos[d] + 1 /\ \A k \in 1 .. d - 1 : k \in 1 .. d /\ f[k] = pos[k]
  BY <1>4
<1> HIDE DEF f
<1>7. \A k \in 1 .. d - 1 : pos[k] \in Nat /\ pos[k] >= 1 /\ pos[k] < pos[d]
  <2> SUFFICES ASSUME NEW k \in 1 .. d - 1
               PROVE  pos[k] \in Nat /\ pos[k] >= 1 /\ pos[k] < pos[d]
    OBVIOUS
  <2>1. k \in 1 .. n /\ k \in 0 .. n /\ d \in 0 .. n /\ k < d  BY <1>1, <1>4
  <2>2. pos[k] \in 1 .. Len(e)  BY <1>1, <2>1
  <2>3. pos[k] < pos[d]  BY <1>1, <2>1, RisesInOrder
  <2> QED BY <2>2, <2>3
<1>8. Escapes(t, pos[d]) /\ ~ Escapes(t, pos[d] + 1)
  <2>1. pos[d] \in 1 .. pos[d]  BY <1>4
  <2>2. t[pos[d]] = "\\"  BY <1>2, <1>4, <2>1
  <2>3. pos[d] \in DOMAIN t /\ pos[d] + 1 \in DOMAIN t  BY <1>3, <1>4
  <2> QED BY <2>2, <2>3 DEF Escapes
<1>9. \A k \in 1 .. d : f[k] \in kept
  <2>1. f[d] \in kept  BY <1>3, <1>4, <1>6, <1>8
  <2>2. ASSUME NEW k \in 1 .. d - 1  PROVE f[k] \in kept
    <3>1. pos[k] \in 1 .. Len(t)  BY <1>3, <1>4, <1>7
    <3> QED BY <1>3, <1>5, <1>6, <3>1
  <2>3. \A k \in 1 .. d : k = d \/ k \in 1 .. d - 1  BY <1>4
  <2> HIDE DEF kept
  <2> QED BY <2>1, <2>2, <2>3
<1>10. ASSUME NEW k \in 1 .. d, NEW l \in 1 .. d, k < l  PROVE f[k] < f[l]
  <2>1. k \in 1 .. d - 1 /\ (l = d \/ l \in 1 .. d - 1)  BY <1>4, <1>10
  <2>2. CASE l = d
    <3>1. pos[k] \in Nat /\ pos[k] < pos[d] /\ f[k] = pos[k] /\ f[l] = pos[d] + 1
      BY <1>6, <1>7, <2>1, <2>2
    <3> QED BY <1>4, <3>1
  <2>3. CASE l \in 1 .. d - 1
    <3>1. k \in 0 .. n /\ l \in 0 .. n  BY <1>1, <1>4, <2>1, <2>3
    <3>2. pos[k] < pos[l]  BY <1>1, <1>10, <3>1, RisesInOrder
    <3> QED BY <1>6, <2>1, <2>3, <3>2
  <2> QED BY <2>1, <2>2, <2>3
<1>11. ASSUME NEW j \in kept, j <= f[d]  PROVE \E k \in 1 .. d : f[k] = j
  <2>1. j \in 1 .. Len(t) /\ ~ Escapes(t, j)  BY <1>3
  <2>2. CASE j = pos[d] + 1
    BY <1>4, <1>6, <2>2
  <2>3. CASE j # pos[d] + 1
    <3>1. j \in 1 .. pos[d]  BY <1>3, <1>4, <1>6, <1>11, <2>1, <2>3
    <3>2. PICK i \in 1 .. d : j = pos[i]  BY <1>5, <2>1, <3>1
    <3>3. i # d  BY <1>8, <2>1, <3>2
    <3>4. i \in 1 .. d - 1  BY <1>4, <3>3
    <3> QED BY <1>6, <3>2, <3>4
  <2> QED BY <2>2, <2>3
<1>12. kept \in SUBSET (1 .. Len(t)) /\ kept \in SUBSET Nat  BY <1>3
<1>13. Unescaped(t) = Pick(t, kept)  BY DEF Unescaped
<1> HIDE DEF kept
<1>14. PICK m, q : Lists(q, m, kept)  BY <1>3, <1>12, ListExists
<1>15. \A k \in 1 .. d : k \in 1 .. m /\ q[k] = f[k]
  <2>1. \A k, l \in 1 .. d : k < l => f[k] < f[l]  BY <1>10
  <2>2. \A j \in kept : d # 0 /\ j <= f[d] => \E k \in 1 .. d : f[k] = j  BY <1>11
  <2>3. Starts(f, d, kept)  BY <1>4, <1>9, <2>1, <2>2 DEF Starts
  <2> QED BY <1>12, <1>14, <2>3, ListBegins
<1>16. Pick(t, kept) = [k \in 1 .. m |-> t[q[k]]]  BY <1>12, <1>14, PickFollows
<1>17. d \in 1 .. m /\ d \in 1 .. d
  <2>1. d \in 1 .. d  BY <1>4
  <2> QED BY <1>15, <2>1
<1>18. Unescaped(t)[d] = t[pos[d] + 1]
  BY <1>6, <1>13, <1>15, <1>16, <1>17
<1> QED BY <1>18

\* What stands last in a text stands last when the escapes are undone.
LEMMA LastIsKept ==
  ASSUME NEW t, IsSeq(t), NEW ch, ~ EndsWith(t, ch), NEW v, IsSeq(v), EndsWith(v, ch)
  PROVE  Unescaped(t) # v
<1>1. Len(t) \in Nat /\ DOMAIN t = 1 .. Len(t)  BY ListHasLength
<1> DEFINE kept == {p \in DOMAIN t : ~ Escapes(t, p)}
<1>2. kept \in SUBSET (1 .. Len(t)) /\ kept \in SUBSET Nat  BY <1>1
<1>3. Unescaped(t) = Pick(t, kept)  BY DEF Unescaped
<1>4. Len(t) # 0 => Len(t) \in kept
  <2>1. Len(t) + 1 \notin DOMAIN t  BY <1>1
  <2>2. Len(t) # 0 => Len(t) \in DOMAIN t  BY <1>1
  <2> QED BY <2>1, <2>2 DEF Escapes
<1> HIDE DEF kept
<1>5. PICK m, q : Lists(q, m, kept)  BY <1>1, <1>2, ListExists
<1>6. Pick(t, kept) = [k \in 1 .. m |-> t[q[k]]]  BY <1>2, <1>5, PickFollows
<1>7. m \in Nat /\ q \in [1 .. m -> kept]  BY <1>5 DEF Lists
<1>8. SUFFICES ASSUME Unescaped(t) = v  PROVE FALSE
  OBVIOUS
<1>9. v = [k \in 1 .. m |-> t[q[k]]]  BY <1>3, <1>6, <1>8
<1>10. Len(v) = m
  <2>1. v = [k \in 1 .. m |-> v[k]]  BY <1>9
  <2> QED BY <1>7, <2>1, FunctionIsSeq
<1>11. v # <<>> /\ v[Len(v)] = ch  BY DEF EndsWith, Last
<1>12. m \in 1 .. m
  <2>1. m # 0  BY <1>10, <1>11, TailIsSeq
  <2> QED BY <1>7, <2>1
<1>13. q[m] \in kept /\ q[m] \in 1 .. Len(t)  BY <1>2, <1>7, <1>12
<1>14. Len(t) \in kept  BY <1>1, <1>4, <1>13
<1>15. PICK k \in 1 .. m : q[k] = Len(t)  BY <1>5, <1>14 DEF Lists
<1>16. k = m
  <2>1. k < m => q[k] < q[m]  BY <1>5, <1>12, <1>15 DEF Lists
  <2> QED BY <1>1, <1>7, <1>13, <1>15, <2>1
<1>17. v[m] = t[Len(t)]  BY <1>9, <1>12, <1>15, <1>16
<1>18. t # <<>>
  <2>1. t = <<>> => Len(t) = 0  OBVIOUS
  <2> QED BY <1>1, <1>13, <2>1
<1> QED BY <1>10, <1>11, <1>17, <1>18 DEF EndsWith, Last

-----------------------------------------------------------------------------
(***************************************************************************)
(* A joined text that is trimmed.                                          *)
(***************************************************************************)

\* Part i is what stands between its separators.
LEMMA PartStands ==
  ASSUME NEW n \in Nat \ {0}, NEW parts, \A i \in 1 .. n : IsSeq(parts[i]),
         NEW s, NEW off, Joined(s, parts, off, n), NEW i \in 1 .. n
  PROVE  SubSeq(s, off[i - 1] + 1, off[i] - 1) = parts[i]
<1>1. /\ Len(parts[i]) \in Nat /\ off[i - 1] \in Nat /\ off[i] \in Nat
      /\ off[i] = off[i - 1] + Len(parts[i]) + 1 /\ off[i] <= off[n]
  BY JoinedRises
<1>2. off[n] \in Nat
  <2>1. n \in 1 .. n  OBVIOUS
  <2> QED BY <2>1, JoinedRises
<1>3. IsSeq(s) /\ Len(s) = off[n] - 1 /\ IsSeq(parts[i])
      /\ \A k \in 1 .. Len(parts[i]) : s[off[i - 1] + k] = parts[i][k]
  BY DEF Joined
<1>4. PICK a, b, l, e : a = off[i - 1] /\ b = off[i] - 1 /\ l = Len(parts[i]) /\ e = off[n]
  OBVIOUS
<1>5. a \in Nat /\ l \in Nat /\ b = a + l /\ b \in Nat /\ a <= b /\ b <= Len(s) /\ b - a = l
  <2>1. PICK c : c = off[i]  OBVIOUS
  <2>2. a \in Nat /\ l \in Nat /\ c = a + l + 1 /\ b = c - 1 /\ c <= e /\ e \in Nat
        /\ Len(s) = e - 1
    BY <1>1, <1>2, <1>3, <1>4, <2>1
  <2>3. b = a + l /\ b <= e - 1  BY <2>2
  <2> QED BY <2>2, <2>3
<1>6. /\ IsSeq(SubSeq(s, a + 1, b)) /\ Len(SubSeq(s, a + 1, b)) = b - a
      /\ \A k \in 1 .. b - a : SubSeq(s, a + 1, b)[k] = s[a + k]
  BY <1>3, <1>5, CutOut
<1>7. SubSeq(s, a + 1, b) = parts[i]
  <2> DEFINE u == SubSeq(s, a + 1, b)
  <2>1. IsSeq(u) /\ Len(u) = Len(parts[i]) /\ \A k \in 1 .. Len(u) : u[k] = parts[i][k]
    BY <1>3, <1>4, <1>5, <1>6
  <2> HIDE DEF u
  <2>2. u = parts[i]  BY <1>3, <2>1, SameText
  <2> QED BY <2>2 DEF u
<1> QED BY <1>4, <1>7

\* Where the text ends when the blanks at its end are gone.
LEMMA TrimStops ==
  ASSUME NEW s, IsSeq(s)
  PROVE  \E m \in 0 .. Len(s) :
           /\ TrimEnd(s) = SubSeq(s, 0 + 1, m)
           /\ m # 0 => s[m] # " "
           /\ \A i \in 1 .. Len(s) : s[i] # " " => i <= m
<1> DEFINE ink == {i \in DOMAIN s : s[i] # " "}
           kept == {0} \union ink
           n == Len(s)
<1>1. n \in Nat /\ DOMAIN s = 1 .. n  BY ListHasLength
<1>2. TrimEnd(s) = SubSeq(s, 0 + 1, Max(kept))  BY DEF TrimEnd
<1>3. ink \in SUBSET (1 .. n)  BY <1>1
<1>4. \A i \in ink : s[i] # " "  OBVIOUS
<1>5. \A i \in 1 .. n : s[i] # " " => i \in ink  BY <1>1
<1> HIDE DEF ink, n
<1>6. CASE ink = {}
  <2>1. kept = {0}  BY <1>6
  <2>2. Max({0}) = 0  BY DEF Max
  <2>3. 0 \in 0 .. n  BY <1>1
  <2>4. \A i \in 1 .. n : ~ (s[i] # " ")  BY <1>5, <1>6
  <2> QED BY <1>2, <2>1, <2>2, <2>3, <2>4 DEF n
<1>7. CASE ink # {}
  <2> DEFINE top == Max(ink)
  <2>1. top \in ink /\ \A i \in ink : i <= top
    BY <1>1, <1>3, <1>7, MaxOfPositions
  <2> HIDE DEF top
  <2>2. top \in 1 .. n /\ \A i \in ink : i \in 1 .. n  BY <1>3, <2>1
  <2>3. \A i \in kept : top >= i /\ i \in Nat  BY <1>1, <2>1, <2>2
  <2>4. \A j \in kept : (\A i \in kept : j >= i) => j = top
    <3> SUFFICES ASSUME NEW j \in kept, \A i \in kept : j >= i  PROVE j = top
      OBVIOUS
    <3>1. top \in kept  BY <2>1
    <3>2. j >= top /\ top >= j /\ j \in Nat /\ top \in Nat  BY <2>3, <3>1
    <3> QED BY <3>2
  <2>5. Max(kept) = top  BY <2>1, <2>3, <2>4 DEF Max
  <2>6. top \in 0 .. n  BY <2>2
  <2>7. s[top] # " "  BY <1>4, <2>1
  <2>8. \A i \in 1 .. n : s[i] # " " => i <= top  BY <1>5, <2>1
  <2> QED BY <1>2, <2>5, <2>6, <2>7, <2>8 DEF n
<1> QED BY <1>6, <1>7

\* w is p without the blanks at its end.
Trimmed(w, p) ==
  /\ IsSeq(w) /\ Len(w) <= Len(p)
  /\ \A i \in 1 .. Len(w) : w[i] = p[i]
  /\ ~ EndsWith(w, " ")
  /\ ~ EndsWith(p, " ") => w = p

WithLast(parts, n, w) == [i \in 1 .. n |-> IF i = n THEN w ELSE parts[i]]

\* Trimming a line trims its last part.
LEMMA TrimKeepsJoined ==
  ASSUME NEW n \in Nat \ {0}, NEW parts, \A i \in 1 .. n : IsSeq(parts[i]),
         NEW s, NEW off, Joined(s, parts, off, n)
  PROVE  \E w, up : /\ Trimmed(w, parts[n])
                    /\ Joined(TrimEnd(s), WithLast(parts, n, w), up, n)
<1>1. \A i \in 1 .. n : /\ Len(parts[i]) \in Nat /\ off[i - 1] \in Nat /\ off[i] \in Nat
                        /\ off[i] = off[i - 1] + Len(parts[i]) + 1
  BY JoinedRises
<1>2. /\ off \in [0 .. n -> Nat] /\ off[0] = 0 /\ IsSeq(s) /\ Len(s) = off[n] - 1
      /\ \A i \in 1 .. n : \A k \in 1 .. Len(parts[i]) : s[off[i - 1] + k] = parts[i][k]
      /\ \A i \in 1 .. n - 1 : s[off[i]] = "|"
  BY DEF Joined
<1>3. PICK m \in 0 .. Len(s) :
        /\ TrimEnd(s) = SubSeq(s, 0 + 1, m)
        /\ m # 0 => s[m] # " "
        /\ \A i \in 1 .. Len(s) : s[i] # " " => i <= m
  BY <1>2, TrimStops
<1>4. PICK a, l, p : a = off[n - 1] /\ l = Len(parts[n]) /\ p = parts[n]  OBVIOUS
<1>5. /\ n \in 1 .. n /\ a \in Nat /\ l \in Nat /\ off[n] = a + l + 1 /\ IsSeq(p)
      /\ \A k \in 1 .. l : s[a + k] = p[k]
  <2>1. n \in 1 .. n  OBVIOUS
  <2>2. a \in Nat /\ l \in Nat /\ off[n] = a + l + 1 /\ IsSeq(p)  BY <1>1, <1>4, <2>1
  <2> QED BY <1>2, <1>4, <2>1, <2>2
<1>6. Len(s) = a + l /\ m \in 0 .. a + l
  <2>1. Len(s) = (a + l + 1) - 1  BY <1>2, <1>5
  <2>2. Len(s) = a + l  BY <1>5, <2>1
  <2> QED BY <1>3, <2>2
<1>7. \A i \in 0 .. n - 1 : off[i] <= a /\ off[i] \in Nat
  <2>0. Rises(off, n)  BY JoinedRises
  <2> SUFFICES ASSUME NEW i \in 0 .. n - 1  PROVE off[i] <= a /\ off[i] \in Nat
    OBVIOUS
  <2>1. i \in 0 .. n /\ n - 1 \in 0 .. n /\ (i < n - 1 \/ i = n - 1)  OBVIOUS
  <2>2. off[i] \in Nat  BY <1>2, <2>1
  <2>3. i < n - 1 => off[i] < a  BY <1>4, <2>0, <2>1, RisesInOrder
  <2>4. i = n - 1 => off[i] = a  BY <1>4
  <2> QED BY <1>5, <2>1, <2>2, <2>3, <2>4
<1>8. a <= m
  <2>1. CASE n = 1
    <3>1. n - 1 = 0  BY <2>1
    <3>2. a = 0  BY <1>2, <1>4, <3>1
    <3> QED BY <1>5, <1>6, <3>2
  <2>2. CASE n # 1
    <3>1. n - 1 \in 1 .. n - 1 /\ n - 1 \in 1 .. n  BY <2>2
    <3>2. s[a] = "|"  BY <1>2, <1>4, <3>1
    <3>3. a \in 1 .. Len(s)
      <4>1. off[n - 1] = off[(n - 1) - 1] + Len(parts[n - 1]) + 1
            /\ off[(n - 1) - 1] \in Nat /\ Len(parts[n - 1]) \in Nat
        BY <1>1, <3>1
      <4>2. a >= 1  BY <1>4, <4>1
      <4> QED BY <1>5, <1>6, <4>2
    <3> QED BY <1>3, <3>2, <3>3
  <2> QED BY <2>1, <2>2
<1> DEFINE j == m - a  w == SubSeq(p, 0 + 1, j)  u == SubSeq(s, 0 + 1, m)
<1>9. j \in Nat /\ j <= l /\ m = a + j /\ m \in Nat  BY <1>5, <1>6, <1>8
<1> HIDE DEF j
<1>10. IsSeq(w) /\ Len(w) = j /\ \A i \in 1 .. j : w[i] = p[i]
  <2>1. 0 <= j /\ j <= Len(p) /\ j - 0 = j  BY <1>4, <1>9
  <2>2. /\ IsSeq(SubSeq(p, 0 + 1, j)) /\ Len(SubSeq(p, 0 + 1, j)) = j - 0
        /\ \A i \in 1 .. j - 0 : SubSeq(p, 0 + 1, j)[i] = p[0 + i]
    <3>1. PICK z \in Nat : z = 0  OBVIOUS
    <3>2. IsSeq(p) /\ z \in Nat /\ j \in Nat /\ z <= j /\ j <= Len(p)
      BY <1>5, <1>9, <2>1, <3>1
    <3>3. /\ IsSeq(SubSeq(p, z + 1, j)) /\ Len(SubSeq(p, z + 1, j)) = j - z
          /\ \A i \in 1 .. j - z : SubSeq(p, z + 1, j)[i] = p[z + i]
      BY <3>2, CutOut
    <3> QED BY <3>1, <3>3
  <2>3. \A i \in 1 .. j : 0 + i = i  BY <1>9
  <2> QED BY <2>1, <2>2, <2>3
<1>11. IsSeq(u) /\ Len(u) = m /\ \A i \in 1 .. m : u[i] = s[i]
  <2>1. 0 <= m /\ m <= Len(s) /\ m - 0 = m  BY <1>5, <1>6, <1>9
  <2>2. /\ IsSeq(SubSeq(s, 0 + 1, m)) /\ Len(SubSeq(s, 0 + 1, m)) = m - 0
        /\ \A i \in 1 .. m - 0 : SubSeq(s, 0 + 1, m)[i] = s[0 + i]
    <3>1. PICK z \in Nat : z = 0  OBVIOUS
    <3>2. IsSeq(s) /\ z \in Nat /\ m \in Nat /\ z <= m /\ m <= Len(s)
      BY <1>2, <1>9, <2>1, <3>1
    <3>3. /\ IsSeq(SubSeq(s, z + 1, m)) /\ Len(SubSeq(s, z + 1, m)) = m - z
          /\ \A i \in 1 .. m - z : SubSeq(s, z + 1, m)[i] = s[z + i]
      BY <3>2, CutOut
    <3> QED BY <3>1, <3>3
  <2>3. \A i \in 1 .. m : 0 + i = i  BY <1>9
  <2> QED BY <2>1, <2>2, <2>3
<1> HIDE DEF w, u
<1>12. ~ EndsWith(w, " ")
  <2>1. ASSUME EndsWith(w, " ")  PROVE j # 0 /\ w[j] = " "
    <3>1. w # <<>> /\ w[j] = " "  BY <1>10, <2>1 DEF EndsWith, Last
    <3>2. j # 0  BY <1>10, <3>1, TailIsSeq
    <3> QED BY <3>1, <3>2
  <2>2. ASSUME j # 0  PROVE j \in 1 .. j /\ j \in 1 .. l /\ m # 0 /\ s[m] = p[j]
    <3>1. j \in 1 .. j /\ j \in 1 .. l /\ m # 0  BY <1>5, <1>9, <2>2
    <3> QED BY <1>5, <1>9, <3>1
  <2>3. j # 0 => w[j] # " "  BY <1>3, <1>10, <2>2
  <2> QED BY <2>1, <2>3
<1>13. ASSUME ~ EndsWith(p, " ")  PROVE w = p
  <2>1. j = l
    <3>1. CASE l = 0
      BY <1>9, <3>1
    <3>2. CASE l # 0
      <4>1. p # <<>>
        <5>1. p = <<>> => l = 0  BY <1>4
        <5> QED BY <3>2, <5>1
      <4>2. p[l] # " "  BY <1>4, <1>13, <4>1 DEF EndsWith, Last
      <4>3. l \in 1 .. l /\ a + l \in 1 .. Len(s)  BY <1>5, <1>6, <3>2
      <4>4. s[a + l] # " "  BY <1>5, <4>2, <4>3
      <4>5. a + l <= m  BY <1>3, <4>3, <4>4
      <4> QED BY <1>5, <1>9, <4>5
    <3> QED BY <3>1, <3>2
  <2> QED BY <1>4, <1>5, <1>10, <2>1, SameText
<1>14. Trimmed(w, p)  BY <1>4, <1>9, <1>10, <1>12, <1>13 DEF Trimmed
<1> DEFINE new == WithLast(parts, n, w)
           up == [i \in 0 .. n |-> IF i = n THEN m + 1 ELSE off[i]]
<1>15. /\ new[n] = w /\ \A i \in 1 .. n : i # n => new[i] = parts[i]
       /\ up[n] = m + 1 /\ \A i \in 0 .. n - 1 : up[i] = off[i]
       /\ up \in [0 .. n -> Nat]
  BY <1>2, <1>5, <1>9 DEF WithLast
<1> HIDE DEF new, up
<1>16. up[0] = 0
  <2>1. 0 \in 0 .. n - 1  OBVIOUS
  <2> QED BY <1>2, <1>15, <2>1
<1>17. ASSUME NEW i \in 1 .. n
       PROVE  /\ up[i] = up[i - 1] + Len(new[i]) + 1
              /\ \A k \in 1 .. Len(new[i]) : u[up[i - 1] + k] = new[i][k]
  <2>0. i - 1 \in 0 .. n - 1  OBVIOUS
  <2>1. CASE i = n
    <3>1. up[i - 1] = a /\ new[i] = w  BY <1>4, <1>15, <2>0, <2>1
    <3>2. m + 1 = a + j + 1  BY <1>5, <1>9
    <3>3. \A k \in 1 .. j : a + k \in 1 .. m /\ k \in 1 .. l  BY <1>5, <1>9
    <3>4. \A k \in 1 .. j : u[a + k] = w[k]  BY <1>5, <1>10, <1>11, <3>3
    <3> QED BY <1>10, <1>15, <2>1, <3>1, <3>2, <3>4
  <2>2. CASE i # n
    <3>1. i \in 0 .. n - 1 /\ i \in 1 .. n - 1  BY <2>2
    <3>2. up[i] = off[i] /\ up[i - 1] = off[i - 1] /\ new[i] = parts[i]
      BY <1>15, <2>0, <2>2, <3>1
    <3>3. PICK o, h, b : o = off[i - 1] /\ h = Len(parts[i]) /\ b = off[i]  OBVIOUS
    <3>4. o \in Nat /\ h \in Nat /\ b = o + h + 1 /\ b <= a  BY <1>1, <1>7, <3>1, <3>3
    <3>5. \A k \in 1 .. h : o + k \in 1 .. m  BY <1>5, <1>9, <3>4
    <3>6. \A k \in 1 .. h : u[o + k] = parts[i][k]  BY <1>2, <1>11, <3>3, <3>5
    <3> QED BY <3>2, <3>3, <3>4, <3>6
  <2> QED BY <2>1, <2>2
<1>18. ASSUME NEW i \in 1 .. n - 1  PROVE u[up[i]] = "|"
  <2>1. i \in 0 .. n - 1 /\ i \in 1 .. n /\ i - 1 \in 0 .. n - 1  OBVIOUS
  <2>2. up[i] = off[i] /\ off[i] <= a /\ off[i] \in Nat  BY <1>7, <1>15, <2>1
  <2>3. off[i] # 0
    <3>1. off[i] = off[i - 1] + Len(parts[i]) + 1 /\ off[i - 1] \in Nat /\ Len(parts[i]) \in Nat
      BY <1>1, <2>1
    <3> QED BY <3>1
  <2>4. off[i] \in 1 .. m  BY <1>5, <1>8, <1>9, <2>2, <2>3
  <2> QED BY <1>2, <1>11, <2>2, <2>4
<1>19. Len(u) = up[n] - 1
  <2>1. (m + 1) - 1 = m  BY <1>9
  <2> QED BY <1>11, <1>15, <2>1
<1>20. Joined(u, new, up, n)
  BY <1>11, <1>15, <1>16, <1>17, <1>18, <1>19 DEF Joined
<1>21. TrimEnd(s) = u  BY <1>3 DEF u
<1> QED BY <1>4, <1>14, <1>20, <1>21 DEF new

-----------------------------------------------------------------------------
(***************************************************************************)
(* The line of a MOUNT: its parts, their tokens, and what the parser puts  *)
(* together of them.  First where every value is clean.                    *)
(***************************************************************************)

Param(id) == <<"@">> \o Parent \o <<"=">> \o id

\* The parameter that names the parent is read as what it is.
LEMMA ParamReads ==
  ASSUME NEW id, IsSeq(id), IsName(id)
  PROVE  /\ IsSeq(Param(id))
         /\ \A i \in 1 .. Len(Param(id)) : Param(id)[i] \notin {"|", "\\", " "}
         /\ Named(Param(id))
         /\ Key(Param(id)) = Parent
         /\ Val(Param(id)) = id
<1> DEFINE a == <<"@">>  b == a \o Parent  c == b \o <<"=">>  p == c \o id
<1>1. IsSeq(a) /\ Len(a) = 1 /\ a[1] = "@"  BY ShortTexts
<1>2. IsSeq(Parent) /\ Len(Parent) = 1 /\ Parent[1] = "parent"  BY ShortTexts DEF Parent
<1>3. IsSeq(<<"=">>) /\ Len(<<"=">>) = 1 /\ <<"=">>[1] = "="  BY ShortTexts
<1> HIDE DEF a
<1>4. IsSeq(b) /\ Len(b) = 2 /\ b[1] = "@" /\ b[2] = "parent"
  <2>1. /\ IsSeq(a \o Parent) /\ Len(a \o Parent) = Len(a) + Len(Parent)
        /\ \A i \in 1 .. Len(a) : (a \o Parent)[i] = a[i]
        /\ \A i \in 1 .. Len(Parent) : (a \o Parent)[Len(a) + i] = Parent[i]
    <3>1. IsSeq(a) /\ IsSeq(Parent)  BY <1>1, <1>2
    <3> QED BY <3>1, ConcatIsSeq
  <2>2. 1 \in 1 .. 1 /\ 1 + 1 = 2  OBVIOUS
  <2> QED BY <1>1, <1>2, <2>1, <2>2
<1> HIDE DEF b
<1>5. IsSeq(c) /\ Len(c) = 3 /\ c[1] = "@" /\ c[2] = "parent" /\ c[3] = "="
  <2> DEFINE q == <<"=">>
  <2>0. IsSeq(q) /\ Len(q) = 1 /\ q[1] = "="  BY <1>3
  <2> HIDE DEF q
  <2>1. /\ IsSeq(b \o q) /\ Len(b \o q) = Len(b) + Len(q)
        /\ \A i \in 1 .. Len(b) : (b \o q)[i] = b[i]
        /\ \A i \in 1 .. Len(q) : (b \o q)[Len(b) + i] = q[i]
    <3>1. IsSeq(b) /\ IsSeq(q)  BY <1>4, <2>0
    <3> QED BY <3>1, ConcatIsSeq
  <2>2. 1 \in 1 .. 2 /\ 2 \in 1 .. 2 /\ 1 \in 1 .. 1 /\ 2 + 1 = 3  OBVIOUS
  <2>3. IsSeq(b \o q) /\ Len(b \o q) = 3 /\ (b \o q)[1] = "@" /\ (b \o q)[2] = "parent"
        /\ (b \o q)[3] = "="
    BY <1>4, <2>0, <2>1, <2>2
  <2> QED BY <2>3 DEF q
<1> HIDE DEF c
<1>6. Len(id) \in Nat /\ \A i \in 1 .. Len(id) : id[i] \notin Special
  BY NameHasText
<1>7. /\ IsSeq(p) /\ Len(p) = 3 + Len(id)
      /\ \A i \in 1 .. 3 : p[i] = c[i]
      /\ \A i \in 1 .. Len(id) : p[3 + i] = id[i]
  <2>1. IsSeq(c) /\ IsSeq(id)  BY <1>5
  <2>2. /\ IsSeq(c \o id) /\ Len(c \o id) = Len(c) + Len(id)
        /\ \A i \in 1 .. Len(c) : (c \o id)[i] = c[i]
        /\ \A i \in 1 .. Len(id) : (c \o id)[Len(c) + i] = id[i]
    BY <2>1, ConcatIsSeq
  <2> QED BY <1>5, <2>2
<1>8. p[1] = "@" /\ p[2] = "parent" /\ p[3] = "="
  <2>1. 1 \in 1 .. 3 /\ 2 \in 1 .. 3 /\ 3 \in 1 .. 3  OBVIOUS
  <2> QED BY <1>5, <1>7, <2>1
<1>9. Param(id) = p  BY DEF Param, a, b, c
<1> HIDE DEF p
<1> DEFINE l == Len(id)
<1>10. l \in Nat /\ l = Len(id)  BY <1>6
<1> HIDE DEF l
<1>11. DOMAIN p = 1 .. 3 + l  BY <1>7, <1>10, ListHasLength
<1>12. ASSUME NEW i \in 1 .. 3 + l
       PROVE  i = 1 \/ i = 2 \/ i = 3 \/ \E j \in 1 .. l : i = 3 + j
  <2>1. i > 3 => i - 3 \in 1 .. l /\ i = 3 + (i - 3)  BY <1>10
  <2>2. i = 1 \/ i = 2 \/ i = 3 \/ i > 3  BY <1>10
  <2> QED BY <2>1, <2>2
<1>13. \A i \in 1 .. Len(p) : p[i] \notin {"|", "\\", " "}
  <2> SUFFICES ASSUME NEW i \in 1 .. 3 + l  PROVE p[i] \notin {"|", "\\", " "}
    BY <1>7, <1>10
  <2>1. CASE i = 1 \/ i = 2 \/ i = 3
    BY <1>8, <2>1
  <2>2. CASE \E j \in 1 .. l : i = 3 + j
    <3>1. p[i] \notin Special  BY <1>6, <1>7, <1>10, <2>2
    <3> QED BY <3>1 DEF Special
  <2> QED BY <1>12, <2>1, <2>2
<1>14. {i \in DOMAIN p : p[i] = "="} = {3}
  <2>1. 3 \in DOMAIN p  BY <1>10, <1>11
  <2>2. ASSUME NEW i \in DOMAIN p, p[i] = "="  PROVE i = 3
    <3>1. i # 1 /\ i # 2  BY <1>8, <2>2
    <3>2. CASE \E j \in 1 .. l : i = 3 + j
      <4>1. p[i] \notin Special  BY <1>6, <1>7, <1>10, <3>2
      <4> QED BY <2>2, <4>1 DEF Special
    <3> QED BY <1>11, <1>12, <3>1, <3>2
  <2> QED BY <1>8, <2>1, <2>2
<1>15. Equals(p) = 3
  <2>1. Min({3}) = 3  BY DEF Min
  <2> QED BY <1>14, <2>1 DEF Equals
<1>16. Named(p)
  <2>1. p # <<>>
    <3>1. p = <<>> => Len(p) = 0  OBVIOUS
    <3>2. Len(p) # 0  BY <1>7, <1>10
    <3> QED BY <3>1, <3>2
  <2>2. 3 \in 1 .. Len(p)  BY <1>7, <1>10
  <2> QED BY <1>8, <2>1, <2>2 DEF Named, Contains
<1>17. Key(p) = Parent
  <2>1. 2 - 1 = 1 /\ 1 \in Nat /\ 1 <= 2 /\ 2 <= Len(p) /\ 1 + 1 = 2 /\ 3 - 1 = 2
        /\ 1 \in 1 .. 1
    BY <1>7, <1>10
  <2>2. /\ IsSeq(SubSeq(p, 1 + 1, 2)) /\ Len(SubSeq(p, 1 + 1, 2)) = 2 - 1
        /\ \A i \in 1 .. 2 - 1 : SubSeq(p, 1 + 1, 2)[i] = p[1 + i]
    <3>1. IsSeq(p) /\ 1 \in Nat /\ 2 \in Nat /\ 1 <= 2 /\ 2 <= Len(p)  BY <1>7, <2>1
    <3> QED BY <3>1, CutOut
  <2> DEFINE k == SubSeq(p, 2, 2)
  <2>3. IsSeq(k) /\ Len(k) = 1 /\ k[1] = "parent"  BY <1>8, <2>1, <2>2
  <2>4. Key(p) = k  BY <1>15, <2>1 DEF Key
  <2> HIDE DEF k
  <2>5. k = Parent
    <3>1. \A i \in 1 .. Len(k) : k[i] = Parent[i]  BY <1>2, <2>3
    <3> QED BY <1>2, <2>3, <3>1, SameText
  <2> QED BY <2>4, <2>5
<1>18. Val(p) = id
  <2> DEFINE e == Len(p)  v == SubSeq(p, 3 + 1, e)
  <2>1. e = 3 + l /\ e \in Nat  BY <1>7, <1>10
  <2> HIDE DEF e
  <2>2. 3 \in Nat /\ 3 <= e /\ e <= Len(p) /\ e - 3 = l  BY <1>7, <1>10, <2>1
  <2>3. IsSeq(v) /\ Len(v) = e - 3 /\ \A i \in 1 .. e - 3 : v[i] = p[3 + i]
    <3>1. IsSeq(p) /\ 3 \in Nat /\ e \in Nat /\ 3 <= e /\ e <= Len(p)  BY <1>7, <2>1, <2>2
    <3> QED BY <3>1, CutOut
  <2>4. Val(p) = v  BY <1>15 DEF Val, e
  <2> HIDE DEF v
  <2>5. Len(v) = Len(id) /\ \A i \in 1 .. Len(v) : v[i] = id[i]
    BY <1>7, <1>10, <2>2, <2>3
  <2>6. v = id  BY <2>3, <2>5, SameText
  <2> QED BY <2>4, <2>6
<1> QED BY <1>7, <1>9, <1>13, <1>16, <1>17, <1>18

PartCount(op) == Len(op.content) + (IF op.parent = NoParent THEN 1 ELSE 2)

\* The parts of a MOUNT: its component, its values, and what names its parent.
MountParts(op, parts, n) ==
  /\ n = PartCount(op)
  /\ parts = [i \in 1 .. n |-> parts[i]]
  /\ parts[1] = op.component
  /\ \A i \in 1 .. Len(op.content) : parts[i + 1] = Escape(op.content[i])
  /\ op.parent # NoParent => parts[n] = Param(op.parent)

\* An operation that mounts, with what the assumptions say of it.
IsMount(op) ==
  /\ op.type = "+"
  /\ op.component \in Component /\ IsSeq(op.component) /\ IsName(op.component)
  /\ IsSeq(op.content) /\ Len(op.content) \in Nat
  /\ DOMAIN op.content = 1 .. Len(op.content)
  /\ \A i \in 1 .. Len(op.content) : IsSeq(op.content[i])
  /\ op.parent # NoParent => IsSeq(op.parent) /\ IsName(op.parent)

LEMMA MountIsMount ==
  ASSUME NEW content \in Content \union Odd, NEW op \in Operation(content), op.type = "+"
  PROVE  IsMount(op)
<1>1. /\ op.component \in Component /\ op.content = content
      /\ op.parent \in Id \union {NoParent}
  BY DEF Operation
<1>2. IsSeq(op.component) /\ IsName(op.component)  BY <1>1, NameAssumption
<1>3. IsSeq(content) /\ \A i \in DOMAIN content : IsSeq(content[i])  BY ContentAssumption
<1>4. Len(content) \in Nat /\ DOMAIN content = 1 .. Len(content)  BY <1>3, ListHasLength
<1>5. op.parent # NoParent => IsSeq(op.parent) /\ IsName(op.parent)
  BY <1>1, NameAssumption
<1> QED BY <1>1, <1>2, <1>3, <1>4, <1>5 DEF IsMount

LEMMA MountHasParts ==
  ASSUME NEW op, IsMount(op)
  PROVE  \E parts, n : MountParts(op, parts, n) /\ Serialize(op).rest = Join(parts)
<1> DEFINE name == <<op.component>>
           values == [i \in DOMAIN op.content |-> Escape(op.content[i])]
           parent == IF op.parent = NoParent THEN <<>> ELSE <<Param(op.parent)>>
           front == name \o values
           parts == front \o parent
           l == Len(op.content)
           n == l + (IF op.parent = NoParent THEN 1 ELSE 2)
<1>1. Serialize(op).rest = Join(parts)  BY DEF Serialize, IsMount, Param
<1>2. IsSeq(name) /\ Len(name) = 1 /\ name[1] = op.component  BY ShortTexts
<1>3. /\ l \in Nat /\ IsSeq(values) /\ Len(values) = l
      /\ \A i \in 1 .. l : values[i] = Escape(op.content[i])
  <2>1. l \in Nat /\ DOMAIN op.content = 1 .. l  BY DEF IsMount
  <2> HIDE DEF l
  <2>2. values = [i \in 1 .. l |-> values[i]]  BY <2>1
  <2>3. \A i \in 1 .. l : values[i] = Escape(op.content[i])  BY <2>1
  <2> HIDE DEF values
  <2> QED BY <2>1, <2>2, <2>3, FunctionIsSeq
<1>4. /\ IsSeq(parent) /\ Len(parent) = IF op.parent = NoParent THEN 0 ELSE 1
      /\ op.parent # NoParent => parent[1] = Param(op.parent)
  <2>1. CASE op.parent = NoParent
    <3>1. parent = <<>> /\ Len(<<>>) = 0  BY <2>1
    <3> QED BY <2>1, <3>1, ShortTexts
  <2>2. CASE op.parent # NoParent
    <3>1. parent = <<Param(op.parent)>>  BY <2>2
    <3> QED BY <2>2, <3>1, ShortTexts
  <2> QED BY <2>1, <2>2
<1> HIDE DEF name, values, parent
<1>5. /\ IsSeq(front) /\ Len(front) = l + 1 /\ front[1] = op.component
      /\ \A i \in 1 .. l : front[i + 1] = Escape(op.content[i])
  <2>1. IsSeq(name) /\ IsSeq(values)  BY <1>2, <1>3
  <2>2. /\ IsSeq(front) /\ Len(front) = Len(name) + Len(values)
        /\ \A i \in 1 .. Len(name) : front[i] = name[i]
        /\ \A i \in 1 .. Len(values) : front[Len(name) + i] = values[i]
    BY <2>1, ConcatIsSeq
  <2> HIDE DEF front, l
  <2>3. 1 \in 1 .. 1 /\ 1 + l = l + 1 /\ \A i \in 1 .. l : 1 + i = i + 1  BY <1>3
  <2> QED BY <1>2, <1>3, <2>2, <2>3
<1> HIDE DEF front, l
<1>6. n \in Nat /\ 1 \in 1 .. l + 1 /\ \A i \in 1 .. l : i + 1 \in 1 .. l + 1  BY <1>3
<1>7. /\ IsSeq(parts) /\ Len(parts) = n
      /\ \A i \in 1 .. l + 1 : parts[i] = front[i]
      /\ op.parent # NoParent => parts[n] = Param(op.parent)
  <2>1. IsSeq(front) /\ IsSeq(parent)  BY <1>4, <1>5
  <2>2. /\ IsSeq(parts) /\ Len(parts) = Len(front) + Len(parent)
        /\ \A i \in 1 .. Len(front) : parts[i] = front[i]
        /\ \A i \in 1 .. Len(parent) : parts[Len(front) + i] = parent[i]
    BY <2>1, ConcatIsSeq
  <2> HIDE DEF parts
  <2>3. CASE op.parent = NoParent
    <3>1. n = l + 1 /\ (l + 1) + 0 = l + 1  BY <1>3, <2>3
    <3> QED BY <1>4, <1>5, <2>2, <2>3, <3>1
  <2>4. CASE op.parent # NoParent
    <3>1. n = l + 2 /\ (l + 1) + 1 = l + 2 /\ 1 \in 1 .. 1  BY <1>3, <2>4
    <3> QED BY <1>4, <1>5, <2>2, <2>4, <3>1
  <2> QED BY <2>3, <2>4
<1>8. parts[1] = op.component /\ \A i \in 1 .. l : parts[i + 1] = Escape(op.content[i])
  BY <1>5, <1>6, <1>7
<1> HIDE DEF parts
<1>9. parts = [i \in 1 .. n |-> parts[i]]  BY <1>7, ListHasLength
<1>10. MountParts(op, parts, n)  BY <1>7, <1>8, <1>9 DEF MountParts, PartCount, l
<1> QED BY <1>1, <1>10

\* The line of a MOUNT: its parts, the last one trimmed, with pipes between.
Wired(op, s, parts, off, n) ==
  /\ n = PartCount(op)
  /\ \A i \in 1 .. n : IsSeq(parts[i]) /\ Guarded(parts[i])
  /\ Joined(s, parts, off, n)
  /\ parts[1] = op.component
  /\ \A i \in 1 .. Len(op.content) :
       i + 1 < n \/ ~ EndsWith(op.content[i], " ") => parts[i + 1] = Escape(op.content[i])
  /\ op.parent # NoParent => parts[n] = Param(op.parent)
  /\ ~ EndsWith(parts[n], " ")

LEMMA LastIsThere ==
  ASSUME NEW t, IsSeq(t), t # <<>>
  PROVE  Len(t) \in 1 .. Len(t)
<1>1. Len(t) \in Nat \ {0}  BY TailIsSeq
<1> QED BY <1>1

\* A text without pipes needs no escape.
LEMMA GuardedWithout ==
  ASSUME NEW t, IsSeq(t), \A i \in 1 .. Len(t) : t[i] \notin {"|", "\\", " "}
  PROVE  Guarded(t) /\ ~ EndsWith(t, " ") /\ ~ EndsWith(t, "\\")
<1>1. Guarded(t)  BY DEF Guarded
<1>2. t # <<>> => Len(t) \in 1 .. Len(t)
  BY LastIsThere
<1> QED BY <1>1, <1>2 DEF EndsWith, Last

LEMMA PartsAreGuarded ==
  ASSUME NEW op, IsMount(op), NEW parts, NEW n, MountParts(op, parts, n)
  PROVE  n \in Nat \ {0} /\ \A i \in 1 .. n : IsSeq(parts[i]) /\ Guarded(parts[i])
<1>1. PICK l : l = Len(op.content)  OBVIOUS
<1>2. l \in Nat /\ n = l + (IF op.parent = NoParent THEN 1 ELSE 2)
  BY <1>1 DEF IsMount, MountParts, PartCount
<1>3. n \in Nat \ {0} /\ (op.parent = NoParent => n = l + 1) /\ (op.parent # NoParent => n = l + 2)
  BY <1>2
<1>4. IsSeq(parts[1]) /\ Guarded(parts[1])
  <2>1. IsSeq(op.component) /\ IsName(op.component)  BY DEF IsMount
  <2>2. \A i \in 1 .. Len(op.component) : op.component[i] \notin Special
    BY <2>1, NameHasText
  <2>3. Guarded(op.component)  BY <2>1, <2>2, GuardedWithout DEF Special
  <2> QED BY <2>1, <2>3 DEF MountParts
<1>5. ASSUME NEW j \in 1 .. l  PROVE IsSeq(parts[j + 1]) /\ Guarded(parts[j + 1])
  <2>1. IsSeq(op.content[j])  BY <1>1 DEF IsMount
  <2>2. IsSeq(Escape(op.content[j])) /\ Guarded(Escape(op.content[j]))
    BY <2>1, EscapeGuards
  <2> QED BY <1>1, <2>2 DEF MountParts
<1>6. op.parent # NoParent => IsSeq(parts[n]) /\ Guarded(parts[n])
  <2> SUFFICES ASSUME op.parent # NoParent  PROVE IsSeq(parts[n]) /\ Guarded(parts[n])
    OBVIOUS
  <2>1. IsSeq(op.parent) /\ IsName(op.parent)  BY DEF IsMount
  <2>2. /\ IsSeq(Param(op.parent))
        /\ \A i \in 1 .. Len(Param(op.parent)) : Param(op.parent)[i] \notin {"|", "\\", " "}
    BY <2>1, ParamReads
  <2>3. Guarded(Param(op.parent))  BY <2>2, GuardedWithout
  <2> QED BY <2>2, <2>3 DEF MountParts
<1>7. ASSUME NEW i \in 1 .. n  PROVE IsSeq(parts[i]) /\ Guarded(parts[i])
  <2>1. i = 1 \/ (i - 1 \in 1 .. l /\ i = (i - 1) + 1) \/ (op.parent # NoParent /\ i = n)
    BY <1>2, <1>3
  <2> QED BY <1>4, <1>5, <1>6, <2>1
<1> QED BY <1>3, <1>7

LEMMA MountIsWired ==
  ASSUME NEW op, IsMount(op)
  PROVE  \E parts, off, n :
           n \in Nat \ {0} /\ Wired(op, TrimEnd(Serialize(op).rest), parts, off, n)
<1>1. PICK old, n : MountParts(op, old, n) /\ Serialize(op).rest = Join(old)
  BY MountHasParts
<1>2. n \in Nat \ {0} /\ \A i \in 1 .. n : IsSeq(old[i]) /\ Guarded(old[i])
  BY <1>1, PartsAreGuarded
<1>3. PICK before : Joined(Join(old), old, before, n)
  <2>1. old = [i \in 1 .. n |-> old[i]]  BY <1>1 DEF MountParts
  <2>2. \A i \in 1 .. n : IsSeq(old[i])  BY <1>2
  <2> QED BY <1>2, <2>1, <2>2, JoinIsJoined
<1>4. PICK w, off : Trimmed(w, old[n]) /\ Joined(TrimEnd(Join(old)), WithLast(old, n, w), off, n)
  <2>1. \A i \in 1 .. n : IsSeq(old[i])  BY <1>2
  <2> QED BY <1>2, <1>3, <2>1, TrimKeepsJoined
<1> DEFINE parts == WithLast(old, n, w)
<1>5. n \in 1 .. n /\ parts[n] = w /\ \A i \in 1 .. n : i # n => parts[i] = old[i]
  <2>1. n \in 1 .. n  BY <1>2
  <2> QED BY <2>1 DEF WithLast
<1>6. Joined(TrimEnd(Serialize(op).rest), parts, off, n)  BY <1>1, <1>4
<1> HIDE DEF parts
<1>7. IsSeq(w) /\ Guarded(w)
  <2> DEFINE p == old[n]
  <2>1. /\ IsSeq(p) /\ \A i \in 1 .. Len(p) : p[i] = "|" => i - 1 \in 1 .. Len(p) /\ p[i - 1] = "\\"
    BY <1>2, <1>5 DEF Guarded
  <2>2. IsSeq(w) /\ Len(w) <= Len(p) /\ \A i \in 1 .. Len(w) : w[i] = p[i]
    BY <1>4 DEF Trimmed
  <2> HIDE DEF p
  <2>3. Len(w) \in Nat /\ Len(p) \in Nat  BY <2>1, <2>2, ListHasLength
  <2>4. PICK a, b : a = Len(w) /\ b = Len(p)  OBVIOUS
  <2>5. ASSUME NEW i \in 1 .. a, w[i] = "|"  PROVE i - 1 \in 1 .. a /\ w[i - 1] = "\\"
    <3>1. i \in 1 .. b  BY <2>2, <2>3, <2>4
    <3>2. i - 1 \in 1 .. b /\ p[i - 1] = "\\"  BY <2>1, <2>2, <2>4, <2>5, <3>1
    <3>3. i - 1 \in 1 .. a  BY <2>3, <2>4, <3>2
    <3> QED BY <2>2, <2>4, <3>2, <3>3
  <2>6. Guarded(w)  BY <2>4, <2>5 DEF Guarded
  <2> QED BY <2>2, <2>6
<1>8. \A i \in 1 .. n : IsSeq(parts[i]) /\ Guarded(parts[i])  BY <1>2, <1>5, <1>7
<1>9. ~ EndsWith(old[n], " ") => w = old[n]  BY <1>4 DEF Trimmed
<1>10. PICK l : l = Len(op.content)  OBVIOUS
<1>11. /\ l \in Nat /\ n = l + (IF op.parent = NoParent THEN 1 ELSE 2)
       /\ old[1] = op.component
       /\ \A i \in 1 .. l : old[i + 1] = Escape(op.content[i])
       /\ op.parent # NoParent => old[n] = Param(op.parent)
  BY <1>1, <1>10 DEF MountParts, IsMount, PartCount
<1>12. parts[1] = op.component
  <2>1. IsSeq(op.component) /\ IsName(op.component)  BY DEF IsMount
  <2>2. \A i \in 1 .. Len(op.component) : op.component[i] \notin Special
    BY <2>1, NameHasText
  <2>3. ~ EndsWith(op.component, " ")  BY <2>1, <2>2, GuardedWithout DEF Special
  <2>4. n = 1 => parts[1] = w /\ w = old[1]  BY <1>5, <1>9, <1>11, <2>3
  <2>5. 1 \in 1 .. n  BY <1>2
  <2>6. n # 1 => parts[1] = old[1]  BY <1>5, <2>5
  <2> QED BY <1>11, <2>4, <2>6
<1>13. ASSUME NEW i \in 1 .. l, i + 1 < n \/ ~ EndsWith(op.content[i], " ")
       PROVE  parts[i + 1] = Escape(op.content[i])
  <2>1. i + 1 \in 1 .. n  BY <1>11
  <2>2. CASE i + 1 # n
    BY <1>5, <1>11, <2>1, <2>2
  <2>3. CASE i + 1 = n
    <3>1. ~ EndsWith(op.content[i], " ")
      <4>1. ~ (i + 1 < n)  BY <1>2, <2>3
      <4> QED BY <1>13, <4>1
    <3>2. IsSeq(op.content[i])  BY <1>10 DEF IsMount
    <3>3. ~ EndsWith(Escape(op.content[i]), " ")  BY <3>1, <3>2, EscapeGuards
    <3>4. old[n] = Escape(op.content[i])  BY <1>11, <2>3
    <3> QED BY <1>5, <1>9, <2>3, <3>3, <3>4
  <2> QED BY <2>2, <2>3
<1>14. op.parent # NoParent => parts[n] = Param(op.parent)
  <2> SUFFICES ASSUME op.parent # NoParent  PROVE parts[n] = Param(op.parent)
    OBVIOUS
  <2>1. IsSeq(op.parent) /\ IsName(op.parent)  BY DEF IsMount
  <2>2. /\ IsSeq(Param(op.parent))
        /\ \A i \in 1 .. Len(Param(op.parent)) : Param(op.parent)[i] \notin {"|", "\\", " "}
    BY <2>1, ParamReads
  <2>3. ~ EndsWith(Param(op.parent), " ")  BY <2>2, GuardedWithout
  <2> QED BY <1>5, <1>9, <1>11, <2>3
<1>15. ~ EndsWith(parts[n], " ")  BY <1>4, <1>5 DEF Trimmed
<1>16. Wired(op, TrimEnd(Serialize(op).rest), parts, off, n)
  BY <1>6, <1>8, <1>10, <1>11, <1>12, <1>13, <1>14, <1>15 DEF Wired, PartCount
<1> QED BY <1>2, <1>16

\* As long as the parts are closed, each is a token of its own.
LEMMA EndsAgree ==
  ASSUME NEW n \in Nat \ {0}, NEW parts, NEW r, NEW m, Ends(r, m, parts, n),
         NEW j \in Nat, \A i \in 1 .. j : i \in Closed(parts, n)
  PROVE  \A i \in 0 .. j : i \in 0 .. m /\ r[i] = i
<1> DEFINE at == Closed(parts, n)  q == [k \in 1 .. m |-> r[k]]  f == [i \in 1 .. j |-> i]
<1>1. /\ m \in Nat /\ Rises(r, m + 1) /\ r \in [0 .. m + 1 -> Nat]
      /\ r[0] = 0 /\ {r[k] : k \in 1 .. m} = at
  BY DEF Ends, Rises
<1>2. at \in SUBSET Nat /\ \A i \in 1 .. j : i \in at  BY DEF Closed
<1>3. \A k, l \in 0 .. m + 1 : k < l => r[k] < r[l]  BY <1>1, RisesInOrder
<1> HIDE DEF at
<1>4. Lists(q, m, at)
  <2>1. q \in [1 .. m -> at]  BY <1>1
  <2>2. \A k, l \in 1 .. m : k < l => q[k] < q[l]
    <3> SUFFICES ASSUME NEW k \in 1 .. m, NEW l \in 1 .. m, k < l  PROVE q[k] < q[l]
      OBVIOUS
    <3>1. k \in 0 .. m + 1 /\ l \in 0 .. m + 1  BY <1>1
    <3> QED BY <1>3, <3>1
  <2>3. \A i \in at : \E k \in 1 .. m : q[k] = i  BY <1>1
  <2> QED BY <1>1, <2>1, <2>2, <2>3 DEF Lists
<1>5. \A i \in 1 .. j : f[i] = i  OBVIOUS
<1> HIDE DEF f
<1>6. Starts(f, j, at)
  <2>1. \A k, l \in 1 .. j : k < l => f[k] < f[l]  BY <1>5
  <2>2. ASSUME NEW i \in at, j # 0, i <= f[j]  PROVE \E k \in 1 .. j : f[k] = i
    <3>1. j \in 1 .. j  BY <2>2
    <3>2. i \in Nat /\ i <= j  BY <1>2, <1>5, <2>2, <3>1
    <3>3. i # 0
      <4>1. PICK k \in 1 .. m : r[k] = i  BY <1>1
      <4>2. 0 \in 0 .. m + 1 /\ k \in 0 .. m + 1 /\ 0 < k  BY <1>1
      <4>3. r[0] < r[k]  BY <1>3, <4>2
      <4> QED BY <1>1, <4>1, <4>3
    <3>4. i \in 1 .. j  BY <3>2, <3>3
    <3> QED BY <1>5, <3>4
  <2> QED BY <1>2, <1>5, <2>1, <2>2 DEF Starts
<1>7. \A k \in 1 .. j : k \in 1 .. m /\ q[k] = f[k]
  <2>1. at \in SUBSET Nat  BY <1>2
  <2> HIDE DEF q
  <2> QED BY <1>4, <1>6, <2>1, ListBegins
<1> SUFFICES ASSUME NEW i \in 0 .. j  PROVE i \in 0 .. m /\ r[i] = i
  OBVIOUS
<1>8. CASE i = 0
  BY <1>1, <1>8
<1>9. CASE i # 0
  <2>1. i \in 1 .. j  BY <1>9
  <2>2. i \in 1 .. m /\ q[i] = i  BY <1>5, <1>7, <2>1
  <2> QED BY <1>1, <2>2
<1> QED BY <1>8, <1>9

LEMMA EndsAll ==
  ASSUME NEW n \in Nat \ {0}, NEW parts, NEW r, NEW m, Ends(r, m, parts, n),
         \A i \in 1 .. n - 1 : i \in Closed(parts, n)
  PROVE  m + 1 = n /\ \A i \in 0 .. n : r[i] = i
<1>1. m \in Nat /\ Rises(r, m + 1) /\ r[m + 1] = n  BY DEF Ends
<1>2. n - 1 \in Nat  OBVIOUS
<1>3. \A i \in 0 .. n - 1 : i \in 0 .. m /\ r[i] = i  BY <1>2, EndsAgree
<1>4. n - 1 \in 0 .. m
  <2>1. n - 1 \in 0 .. n - 1  BY <1>2
  <2> QED BY <1>3, <2>1
<1>5. m + 1 <= n
  <2>1. m + 1 \in Nat /\ m + 1 \in 0 .. m + 1  BY <1>1
  <2>2. m + 1 <= r[m + 1]  BY <1>1, <2>1, RisesAbove
  <2> QED BY <1>1, <2>2
<1>6. m + 1 = n  BY <1>1, <1>4, <1>5
<1>7. \A i \in 0 .. n : i = n \/ i \in 0 .. n - 1  OBVIOUS
<1> QED BY <1>1, <1>3, <1>6, <1>7

\* The parts that stand before a pipe, and those that do not end in a backslash.
LEMMA NameIsClosed ==
  ASSUME NEW op, IsMount(op), NEW s, NEW parts, NEW off, NEW n \in Nat \ {0},
         Wired(op, s, parts, off, n), NEW i \in 1 .. n - 1,
         i # 1 => ~ EndsWith(op.content[i - 1], "\\")
  PROVE  i \in Closed(parts, n)
<1>1. PICK l : l = Len(op.content)  OBVIOUS
<1>2. /\ l \in Nat /\ n = l + (IF op.parent = NoParent THEN 1 ELSE 2)
      /\ parts[1] = op.component
      /\ \A j \in 1 .. l : j + 1 < n => parts[j + 1] = Escape(op.content[j])
  BY <1>1 DEF IsMount, Wired, PartCount
<1>3. ~ EndsWith(parts[i], "\\")
  <2>1. CASE i = 1
    <3>1. IsSeq(op.component) /\ IsName(op.component)  BY DEF IsMount
    <3>2. \A k \in 1 .. Len(op.component) : op.component[k] \notin Special
      BY <3>1, NameHasText
    <3>3. ~ EndsWith(op.component, "\\")  BY <3>1, <3>2, GuardedWithout DEF Special
    <3> QED BY <1>2, <2>1, <3>3
  <2>2. CASE i # 1
    <3>1. i - 1 \in 1 .. l /\ (i - 1) + 1 = i /\ (i - 1) + 1 < n  BY <1>2, <2>2
    <3>2. parts[i] = Escape(op.content[i - 1])  BY <1>2, <3>1
    <3>3. IsSeq(op.content[i - 1])  BY <1>1, <3>1 DEF IsMount
    <3> QED BY <2>2, <3>2, <3>3, EscapeGuards
  <2> QED BY <2>1, <2>2
<1> QED BY <1>3 DEF Closed

\* What Clean says of a MOUNT, value by value.
CleanValue(op, i) ==
  /\ NoEscapedAt(op.content[i])
  /\ ~ Named(op.content[i])
  /\ ~ EndsWith(op.content[i],
                IF i = Len(op.content) /\ op.parent = NoParent THEN " " ELSE "\\")

LEMMA CleanByValue ==
  ASSUME NEW op, IsMount(op)
  PROVE  Clean(op) <=> \A i \in 1 .. Len(op.content) : CleanValue(op, i)
BY DEF Clean, CleanValue, NoEscapedAt, IsMount

\* The tokens of a line that arrives as it was meant.
WholeTokens(op, n) ==
  [k \in 1 .. n |->
     IF k = 1 THEN op.component
     ELSE IF k - 1 \in 1 .. Len(op.content) THEN op.content[k - 1]
     ELSE Param(op.parent)]

\* Part k is the component, a parameter, or a value that is there in full and
\* survives the way.
Survives(op, k, n) ==
  k # 1 /\ k - 1 \in 1 .. Len(op.content) =>
    /\ NoEscapedAt(op.content[k - 1])
    /\ k < n \/ ~ EndsWith(op.content[k - 1], " ")

LEMMA TokenOfPart ==
  ASSUME NEW op, IsMount(op), NEW s, NEW parts, NEW off, NEW n \in Nat \ {0},
         Wired(op, s, parts, off, n), NEW k \in 1 .. n,
         Survives(op, k, n)
  PROVE  Unescaped(SubSeq(s, off[k - 1] + 1, off[k] - 1)) = WholeTokens(op, n)[k]
<1>1. SubSeq(s, off[k - 1] + 1, off[k] - 1) = parts[k]
  <2>1. Joined(s, parts, off, n) /\ \A i \in 1 .. n : IsSeq(parts[i])  BY DEF Wired
  <2> QED BY <2>1, PartStands
<1>2. PICK l : l = Len(op.content)  OBVIOUS
<1>3. l \in Nat /\ n = l + (IF op.parent = NoParent THEN 1 ELSE 2)
  BY <1>2 DEF IsMount, Wired, PartCount
<1>4. CASE k = 1
  <2>1. IsSeq(op.component) /\ IsName(op.component)  BY DEF IsMount
  <2>2. \A i \in 1 .. Len(op.component) : op.component[i] \notin Special
    BY <2>1, NameHasText
  <2>3. \A i \in 1 .. Len(op.component) : op.component[i] # "\\"  BY <2>2 DEF Special
  <2>4. Unescaped(op.component) = op.component  BY <2>1, <2>3, PlainIsKept
  <2>5. parts[k] = op.component  BY <1>4 DEF Wired
  <2> QED BY <1>1, <1>4, <2>4, <2>5 DEF WholeTokens
<1>5. CASE k # 1 /\ k - 1 \in 1 .. l
  <2>1. NoEscapedAt(op.content[k - 1]) /\ (k < n \/ ~ EndsWith(op.content[k - 1], " "))
    BY <1>2, <1>5 DEF Survives
  <2>2. (k - 1) + 1 = k  OBVIOUS
  <2>3. parts[k] = Escape(op.content[k - 1])  BY <1>2, <1>5, <2>1, <2>2 DEF Wired
  <2>4. IsSeq(op.content[k - 1])  BY <1>2, <1>5 DEF IsMount
  <2>5. Unescaped(Escape(op.content[k - 1])) = op.content[k - 1]
    BY <2>1, <2>4, EscapeIsUndone
  <2> QED BY <1>1, <1>2, <1>5, <2>3, <2>5 DEF WholeTokens
<1>6. CASE k # 1 /\ k - 1 \notin 1 .. l
  <2>1. op.parent # NoParent /\ k = n  BY <1>3, <1>6
  <2>2. parts[k] = Param(op.parent)  BY <2>1 DEF Wired
  <2>3. IsSeq(op.parent) /\ IsName(op.parent)  BY <2>1 DEF IsMount
  <2>4. IsSeq(Param(op.parent)) /\ \A i \in 1 .. Len(Param(op.parent)) : Param(op.parent)[i] # "\\"
    BY <2>3, ParamReads
  <2>5. Unescaped(Param(op.parent)) = Param(op.parent)  BY <2>4, PlainIsKept
  <2> QED BY <1>1, <1>2, <1>6, <2>2, <2>5 DEF WholeTokens
<1> QED BY <1>4, <1>5, <1>6

LEMMA CleanTokens ==
  ASSUME NEW op, IsMount(op), NEW s, NEW parts, NEW off, NEW n \in Nat \ {0},
         Wired(op, s, parts, off, n), Clean(op)
  PROVE  Tokens(s) = WholeTokens(op, n)
<1>1. PICK m, r : /\ Ends(r, m, parts, n)
                  /\ Tokens(s) = [k \in 1 .. m + 1 |->
                       Unescaped(SubSeq(s, off[r[k - 1]] + 1, off[r[k]] - 1))]
  <2>1. Joined(s, parts, off, n) /\ \A i \in 1 .. n : IsSeq(parts[i]) /\ Guarded(parts[i])
    BY DEF Wired
  <2> QED BY <2>1, TokensFollow
<1>2. PICK l : l = Len(op.content)  OBVIOUS
<1>3. l \in Nat /\ n = l + (IF op.parent = NoParent THEN 1 ELSE 2)
  BY <1>2 DEF IsMount, Wired, PartCount
<1>4. \A i \in 1 .. l : CleanValue(op, i)  BY <1>2, CleanByValue
<1>5. ASSUME NEW i \in 1 .. n - 1  PROVE i \in Closed(parts, n)
  <2>1. ASSUME i # 1  PROVE ~ EndsWith(op.content[i - 1], "\\")
    <3>1. i - 1 \in 1 .. l /\ ~ (i - 1 = l /\ op.parent = NoParent)  BY <1>3, <2>1
    <3> QED BY <1>2, <1>4, <3>1 DEF CleanValue
  <2> QED BY <2>1, NameIsClosed
<1>6. m + 1 = n /\ \A i \in 0 .. n : r[i] = i  BY <1>1, <1>5, EndsAll
<1>7. ASSUME NEW k \in 1 .. n
      PROVE  Unescaped(SubSeq(s, off[r[k - 1]] + 1, off[r[k]] - 1)) = WholeTokens(op, n)[k]
  <2>1. k \in 0 .. n /\ k - 1 \in 0 .. n  OBVIOUS
  <2>2. r[k] = k /\ r[k - 1] = k - 1  BY <1>6, <2>1
  <2>3. Survives(op, k, n)
    <3>1. k - 1 \in 1 .. l => k < n \/ (k - 1 = l /\ op.parent = NoParent)  BY <1>3
    <3> QED BY <1>2, <1>4, <3>1 DEF CleanValue, Survives
  <2>4. Unescaped(SubSeq(s, off[k - 1] + 1, off[k] - 1)) = WholeTokens(op, n)[k]
    BY <2>3, TokenOfPart
  <2> QED BY <2>2, <2>4
<1>8. Tokens(s) = [k \in 1 .. n |-> WholeTokens(op, n)[k]]  BY <1>1, <1>6, <1>7
<1> QED BY <1>8 DEF WholeTokens

LEMMA WiredBegins ==
  ASSUME NEW op, IsMount(op), NEW s, NEW parts, NEW off, NEW n \in Nat \ {0},
         Wired(op, s, parts, off, n)
  PROVE  Begins(s, op.component)
<1> DEFINE c == op.component
<1>1. Joined(s, parts, off, n) /\ parts[1] = c /\ \A i \in 1 .. n : IsSeq(parts[i])
  BY DEF Wired
<1>2. PICK l, e : l = Len(c) /\ e = off[n]  OBVIOUS
<1>3. \A i \in 1 .. n : /\ Len(parts[i]) \in Nat /\ off[i - 1] \in Nat /\ off[i] \in Nat
                        /\ off[i] = off[i - 1] + Len(parts[i]) + 1 /\ off[i] <= off[n]
  BY <1>1, JoinedRises
<1>4. /\ IsSeq(s) /\ Len(s) = off[n] - 1 /\ off[0] = 0
      /\ \A i \in 1 .. n : \A k \in 1 .. Len(parts[i]) : s[off[i - 1] + k] = parts[i][k]
      /\ \A i \in 1 .. n - 1 : s[off[i]] = "|"
  BY <1>1 DEF Joined
<1>5. 1 \in 1 .. n /\ n \in 1 .. n /\ 1 - 1 = 0  OBVIOUS
<1>6. l \in Nat /\ e \in Nat /\ off[1] = l + 1 /\ l + 1 <= e /\ Len(s) = e - 1
  <2>1. /\ Len(parts[1]) \in Nat /\ off[1] = off[1 - 1] + Len(parts[1]) + 1
        /\ off[1] <= off[n] /\ off[n] \in Nat
    BY <1>3, <1>5
  <2>2. off[1 - 1] = 0  BY <1>4, <1>5
  <2>3. Len(parts[1]) = l  BY <1>1, <1>2
  <2>4. l \in Nat /\ off[1] = 0 + l + 1 /\ off[1] <= off[n] /\ off[n] \in Nat
    BY <2>1, <2>2, <2>3
  <2> QED BY <1>2, <1>4, <2>4
<1>7. \A k \in 1 .. l : s[k] = c[k]
  <2>1. \A k \in 1 .. l : s[0 + k] = c[k]  BY <1>1, <1>2, <1>4, <1>5
  <2>2. \A k \in 1 .. l : 0 + k = k  BY <1>6
  <2> QED BY <2>1, <2>2
<1>8. l <= Len(s)  BY <1>6
<1>9. l < Len(s) => s[l + 1] = "|"
  <2>1. n = 1 => e = l + 1  BY <1>2, <1>6
  <2>2. n # 1 => s[off[1]] = "|"
    <3>1. n # 1 => 1 \in 1 .. n - 1  OBVIOUS
    <3> QED BY <1>4, <3>1
  <2>3. e = l + 1 => ~ (l < Len(s))  BY <1>6
  <2> QED BY <1>6, <2>1, <2>2, <2>3
<1> QED BY <1>2, <1>4, <1>7, <1>8, <1>9 DEF Begins

\* The component is found for its schema.
LEMMA GuessFindsName ==
  ASSUME NEW c, IsSeq(c), IsName(c), NEW s, Begins(s, c)
  PROVE  GuessComponent(s) = c
<1> DEFINE pipes == {i \in DOMAIN s : s[i] = "|"}  all == pipes \union {Len(s) + 1}
<1>1. PICK l, z : l = Len(c) /\ z = Len(s)  OBVIOUS
<1>2. l \in Nat /\ \A i \in 1 .. l : c[i] \notin Special
  BY <1>1, NameHasText
<1>3. IsSeq(s) /\ l <= z /\ (\A i \in 1 .. l : s[i] = c[i]) /\ (l < z => s[l + 1] = "|")
  BY <1>1 DEF Begins
<1>4. z \in Nat /\ DOMAIN s = 1 .. z  BY <1>1, <1>3, ListHasLength
<1>5. l + 1 \in all
  <2>1. CASE l = z
    BY <1>1, <2>1
  <2>2. CASE l # z
    <3>1. l + 1 \in 1 .. z /\ l < z  BY <1>2, <1>3, <1>4, <2>2
    <3> QED BY <1>3, <1>4, <3>1
  <2> QED BY <2>1, <2>2
<1>6. ASSUME NEW i \in all  PROVE i \in Nat /\ l + 1 <= i
  <2>1. CASE i \in pipes
    <3>1. i \in 1 .. z /\ s[i] = "|"  BY <1>4, <2>1
    <3>2. i \notin 1 .. l
      <4>1. i \in 1 .. l => s[i] \notin Special  BY <1>2, <1>3
      <4> QED BY <3>1, <4>1 DEF Special
    <3> QED BY <1>2, <1>4, <3>1, <3>2
  <2>2. CASE i = z + 1
    BY <1>2, <1>3, <1>4, <2>2
  <2> QED BY <1>1, <2>1, <2>2
<1> HIDE DEF all
<1>7. Min(all) = l + 1
  <2>1. \A j \in all : (\A i \in all : j <= i) => j = l + 1
    <3> SUFFICES ASSUME NEW j \in all, \A i \in all : j <= i  PROVE j = l + 1
      OBVIOUS
    <3>1. j \in Nat /\ l + 1 <= j /\ j <= l + 1  BY <1>5, <1>6
    <3> QED BY <1>2, <3>1
  <2>2. \A i \in all : l + 1 <= i  BY <1>6
  <2> QED BY <1>5, <2>1, <2>2 DEF Min
<1>8. GuessComponent(s) = SubSeq(s, 1, Min(all) - 1)  BY DEF GuessComponent, all
<1>9. GuessComponent(s) = SubSeq(s, 0 + 1, l)
  <2>1. (l + 1) - 1 = l /\ 0 + 1 = 1  BY <1>2
  <2> QED BY <1>7, <1>8, <2>1
<1> DEFINE u == SubSeq(s, 0 + 1, l)
<1>10. IsSeq(u) /\ Len(u) = l /\ \A i \in 1 .. l : u[i] = s[i]
  <2>1. 0 \in Nat /\ l \in Nat /\ 0 <= l /\ l <= Len(s) /\ IsSeq(s) /\ l - 0 = l
    BY <1>1, <1>2, <1>3
  <2>2. IsSeq(u) /\ Len(u) = l - 0 /\ \A i \in 1 .. l - 0 : u[i] = s[0 + i]
    BY <2>1, CutOut
  <2>3. \A i \in 1 .. l : 0 + i = i  BY <1>2
  <2> QED BY <2>1, <2>2, <2>3
<1> HIDE DEF u
<1>11. u = c
  <2>1. Len(u) = Len(c) /\ \A i \in 1 .. Len(u) : u[i] = c[i]  BY <1>1, <1>3, <1>10
  <2> QED BY <1>10, <2>1, SameText
<1> QED BY <1>9, <1>11 DEF u

\* Picking the first positions, one, and none.
LEMMA PickFirst ==
  ASSUME NEW n \in Nat, NEW s
  PROVE  Pick(s, 1 .. n) = [k \in 1 .. n |-> s[k]]
<1> DEFINE q == [k \in 1 .. n |-> k]  at == 1 .. n
<1>1. \A k \in 1 .. n : q[k] = k  OBVIOUS
<1>2. q \in [1 .. n -> at]  OBVIOUS
<1>3. at \in SUBSET Nat  OBVIOUS
<1> HIDE DEF q
<1>4. Lists(q, n, at)  BY <1>1, <1>2 DEF Lists
<1> HIDE DEF at
<1>5. Pick(s, at) = [k \in 1 .. n |-> s[q[k]]]  BY <1>3, <1>4, PickFollows
<1> QED BY <1>1, <1>5 DEF at

LEMMA PickOne ==
  ASSUME NEW n \in Nat, NEW s
  PROVE  Pick(s, {n}) # <<>> /\ Last(Pick(s, {n})) = s[n]
<1> DEFINE q == [k \in 1 .. 1 |-> n]  p == Pick(s, {n})
<1>1. \A k \in 1 .. 1 : q[k] = n  OBVIOUS
<1>2. q \in [1 .. 1 -> {n}]  OBVIOUS
<1> HIDE DEF q
<1>3. Lists(q, 1, {n})
  <2>1. 1 \in Nat /\ 1 \in 1 .. 1 /\ \A k, i \in 1 .. 1 : ~ (k < i)  OBVIOUS
  <2> QED BY <1>1, <1>2, <2>1 DEF Lists
<1>4. Pick(s, {n}) = [k \in 1 .. 1 |-> s[q[k]]]
  <2> DEFINE at == {n}
  <2>1. PICK m : m = 1  OBVIOUS
  <2>2. at \in SUBSET Nat /\ Lists(q, m, at)  BY <1>3, <2>1
  <2> HIDE DEF at
  <2>3. Pick(s, at) = [k \in 1 .. m |-> s[q[k]]]  BY <2>2, PickFollows
  <2> QED BY <2>1, <2>3 DEF at
<1>5. p = [k \in 1 .. 1 |-> s[n]]  BY <1>1, <1>4
<1> HIDE DEF p
<1>6. Len(p) = 1
  <2>1. p = [k \in 1 .. 1 |-> p[k]]  BY <1>5
  <2> QED BY <2>1, FunctionIsSeq
<1>7. p # <<>>
  <2>1. p = <<>> => Len(p) = 0  OBVIOUS
  <2> QED BY <1>6, <2>1
<1>8. Last(p) = s[n]
  <2>1. 1 \in 1 .. 1  OBVIOUS
  <2> QED BY <1>5, <1>6, <2>1 DEF Last
<1> QED BY <1>7, <1>8 DEF p

LEMMA PickNone ==
  ASSUME NEW s
  PROVE  Pick(s, {}) = <<>>
<1> DEFINE q == [k \in 1 .. 0 |-> 0]  p == Pick(s, {})
<1>1. Lists(q, 0, {})
  <2>1. 1 .. 0 = {}  OBVIOUS
  <2>2. q \in [1 .. 0 -> {}]  BY <2>1
  <2> HIDE DEF q
  <2> QED BY <2>1, <2>2 DEF Lists
<1> HIDE DEF q
<1>2. Pick(s, {}) = [k \in 1 .. 0 |-> s[q[k]]]
  <2> DEFINE at == {}
  <2>1. PICK m : m = 0  OBVIOUS
  <2>2. at \in SUBSET Nat /\ Lists(q, m, at)  BY <1>1, <2>1
  <2> HIDE DEF at
  <2>3. Pick(s, at) = [k \in 1 .. m |-> s[q[k]]]  BY <2>2, PickFollows
  <2> QED BY <2>1, <2>3 DEF at
<1>3. p = [k \in 1 .. 0 |-> p[k]]  BY <1>2
<1> HIDE DEF p
<1>4. IsSeq(p) /\ Len(p) = 0  BY <1>3, FunctionIsSeq
<1>5. p = <<>>  BY <1>4, TailIsSeq
<1> QED BY <1>5 DEF p

\* The parser puts the tokens together again.
LEMMA ParsesWhole ==
  ASSUME NEW op, IsMount(op), NEW n, NEW line, NEW s, s = TrimEnd(line.rest),
         n = PartCount(op),
         Tokens(s) = WholeTokens(op, n), Begins(s, op.component),
         \A i \in 1 .. Len(op.content) : ~ Named(op.content[i])
  PROVE  ParseMount(line, Schemas) =
           [type |-> "+", id |-> line.id, component |-> op.component,
            fields |-> ResolveFields(op.content, SchemaFor(Schemas, op.component)),
            parent |-> op.parent]
<1> DEFINE tokens == Tokens(s)
           named == {k \in DOMAIN tokens : Named(tokens[k])}
           positional == Pick(tokens, DOMAIN tokens \ named)
           at == {k \in named : Key(tokens[k]) = Parent}
           parents == Pick(tokens, at)
           raw == IF positional = <<>> THEN <<>> ELSE Tail(positional)
<1>1. PICK l : l = Len(op.content)  OBVIOUS
<1>2. l \in Nat /\ n = l + (IF op.parent = NoParent THEN 1 ELSE 2)
  BY <1>1 DEF IsMount, PartCount
<1>3. (op.parent = NoParent => n = l + 1) /\ (op.parent # NoParent => n = l + 2) /\ n \in Nat
      /\ 1 \in 1 .. l + 1 /\ l + 1 \in Nat
  BY <1>2
<1>4. /\ DOMAIN tokens = 1 .. n /\ tokens[1] = op.component
      /\ \A k \in 1 .. l : tokens[k + 1] = op.content[k]
      /\ op.parent # NoParent => tokens[n] = Param(op.parent)
  <2>1. DOMAIN tokens = 1 .. n  BY DEF WholeTokens
  <2>2. 1 \in 1 .. n /\ n \in 1 .. n  BY <1>2
  <2>3. tokens[1] = op.component  BY <2>2 DEF WholeTokens
  <2>4. ASSUME NEW k \in 1 .. l  PROVE tokens[k + 1] = op.content[k]
    <3>1. k + 1 \in 1 .. n /\ k + 1 # 1 /\ (k + 1) - 1 = k  BY <1>2
    <3> QED BY <1>1, <3>1 DEF WholeTokens
  <2>5. op.parent # NoParent => tokens[n] = Param(op.parent)
    <3>1. op.parent # NoParent => n # 1 /\ n - 1 \notin 1 .. l  BY <1>2
    <3> QED BY <1>1, <2>2, <3>1 DEF WholeTokens
  <2> QED BY <2>1, <2>3, <2>4, <2>5
<1>5. op.parent # NoParent => /\ Named(Param(op.parent)) /\ Key(Param(op.parent)) = Parent
                              /\ Val(Param(op.parent)) = op.parent
  <2>1. op.parent # NoParent => IsSeq(op.parent) /\ IsName(op.parent)  BY DEF IsMount
  <2> QED BY <2>1, ParamReads
<1>6. IsSeq(op.component) /\ IsName(op.component)  BY DEF IsMount
<1> HIDE DEF tokens
<1>7. ASSUME NEW k \in 1 .. l + 1  PROVE k \in 1 .. n /\ ~ Named(tokens[k])
  <2>1. k \in 1 .. n  BY <1>2
  <2>2. CASE k = 1
    <3>1. Len(op.component) \in Nat \ {0} /\ \A i \in 1 .. Len(op.component) : op.component[i] \notin Special
      BY <1>6, NameHasText
    <3>2. 1 \in 1 .. Len(op.component)  BY <3>1
    <3>3. op.component[1] # "@"  BY <3>1, <3>2 DEF Special
    <3> QED BY <1>4, <2>1, <2>2, <3>3 DEF Named
  <2>3. CASE k # 1
    <3>1. k - 1 \in 1 .. l /\ (k - 1) + 1 = k  BY <1>2, <2>3
    <3>2. tokens[k] = op.content[k - 1]  BY <1>4, <3>1
    <3> QED BY <1>1, <2>1, <3>1, <3>2
  <2> QED BY <2>2, <2>3
<1>8. DOMAIN tokens \ named = 1 .. l + 1 /\ named = IF op.parent = NoParent THEN {} ELSE {n}
  <2>1. CASE op.parent = NoParent
    <3>1. n = l + 1  BY <1>3, <2>1
    <3>2. named = {}  BY <1>4, <1>7, <3>1
    <3> QED BY <1>4, <2>1, <3>1, <3>2
  <2>2. CASE op.parent # NoParent
    <3>1. n = l + 2  BY <1>3, <2>2
    <3>2. \A k \in 1 .. n : k = n \/ k \in 1 .. l + 1  BY <1>2, <3>1
    <3>3. n \in 1 .. n /\ n \notin 1 .. l + 1  BY <1>2, <3>1
    <3>4. named = {n}  BY <1>4, <1>5, <1>7, <2>2, <3>2, <3>3
    <3>5. 1 .. n = (1 .. l + 1) \union {n}  BY <1>7, <3>2, <3>3
    <3> QED BY <1>4, <2>2, <3>3, <3>4, <3>5
  <2> QED BY <2>1, <2>2
<1>9. at = named
  BY <1>4, <1>5, <1>8
<1>10. positional = [k \in 1 .. l + 1 |-> tokens[k]]
  <2>1. Pick(tokens, 1 .. l + 1) = [k \in 1 .. l + 1 |-> tokens[k]]  BY <1>3, PickFirst
  <2> QED BY <1>8, <2>1
<1>11. (parents = <<>> <=> op.parent = NoParent)
       /\ (op.parent # NoParent => Last(parents) = Param(op.parent))
  <2>1. op.parent = NoParent => at = {}  BY <1>8, <1>9
  <2>2. op.parent # NoParent => at = {n}  BY <1>8, <1>9
  <2>3. Pick(tokens, {}) = <<>>  BY PickNone
  <2>4. Pick(tokens, {n}) # <<>> /\ Last(Pick(tokens, {n})) = tokens[n]  BY <1>3, PickOne
  <2> QED BY <1>4, <2>1, <2>2, <2>3, <2>4
<1> HIDE DEF parents
<1>12. positional # <<>> /\ Head(positional) = op.component /\ Tail(positional) = op.content
  <2> DEFINE p == [k \in 1 .. l + 1 |-> tokens[k]]
  <2>1. IsSeq(p) /\ Len(p) = l + 1 /\ DOMAIN p = 1 .. l + 1
    <3>1. p = [k \in 1 .. l + 1 |-> p[k]]  OBVIOUS
    <3> HIDE DEF p
    <3> QED BY <1>3, <3>1, FunctionIsSeq
  <2>2. \A k \in 1 .. l + 1 : p[k] = tokens[k]  OBVIOUS
  <2>3. positional = p  BY <1>10
  <2> HIDE DEF p, positional
  <2>4. p # <<>>
    <3>1. p = <<>> => Len(p) = 0  OBVIOUS
    <3>2. l + 1 # 0  BY <1>2
    <3> QED BY <2>1, <3>1, <3>2
  <2>5. /\ IsSeq(Tail(p)) /\ Len(Tail(p)) = Len(p) - 1 /\ Head(p) = p[1]
        /\ \A i \in 1 .. Len(p) - 1 : Tail(p)[i] = p[i + 1]
    BY <2>1, <2>4, TailIsSeq
  <2>6. Len(Tail(p)) = l
    <3>1. (l + 1) - 1 = l  BY <1>2
    <3> QED BY <2>1, <2>5, <3>1
  <2>7. ASSUME NEW i \in 1 .. l  PROVE Tail(p)[i] = op.content[i]
    <3>1. i \in 1 .. (l + 1) - 1 /\ i + 1 \in 1 .. l + 1  BY <1>2
    <3> QED BY <1>4, <2>1, <2>2, <2>5, <3>1
  <2>8. Tail(p) = op.content
    <3> DEFINE u == Tail(p)
    <3>1. IsSeq(u) /\ IsSeq(op.content) /\ Len(u) = Len(op.content)
          /\ \A i \in 1 .. Len(u) : u[i] = op.content[i]
      BY <1>1, <2>5, <2>6, <2>7 DEF IsMount
    <3> HIDE DEF u
    <3>2. u = op.content  BY <3>1, SameText
    <3> QED BY <3>2 DEF u
  <2>9. p[1] = op.component  BY <1>3, <1>4, <2>2
  <2> QED BY <2>3, <2>4, <2>5, <2>8, <2>9
<1>13. raw = op.content  BY <1>12
<1>14. GuessComponent(s) = op.component  BY <1>6, GuessFindsName
<1>15. (IF parents = <<>> THEN NoParent ELSE Val(Last(parents))) = op.parent
  BY <1>5, <1>11
<1>16. (IF positional = <<>> THEN <<>> ELSE Head(positional)) = op.component  BY <1>12
<1>17. ParseMount(line, Schemas) =
         [type |-> "+", id |-> line.id,
          component |-> IF positional = <<>> THEN <<>> ELSE Head(positional),
          fields |-> ResolveFields(raw, SchemaFor(Schemas, GuessComponent(s))),
          parent |-> IF parents = <<>> THEN NoParent ELSE Val(Last(parents))]
  BY DEF ParseMount, tokens, parents
<1> HIDE DEF positional, raw
<1> QED BY <1>13, <1>14, <1>15, <1>16, <1>17

LEMMA CleanMountArrives ==
  ASSUME NEW op, IsMount(op), Clean(op)
  PROVE  ParseLine(Serialize(op), Schemas) = Meant(op)
<1> DEFINE line == Serialize(op)
<1>1. PICK parts, off, n : n \in Nat \ {0} /\ Wired(op, TrimEnd(line.rest), parts, off, n)
  BY MountIsWired
<1>2. op.type = "+"  BY DEF IsMount
<1>3. line.type = "+" /\ line.id = op.id  BY <1>2 DEF Serialize
<1>4. Meant(op) = [type |-> "+", id |-> op.id, component |-> op.component,
                   fields |-> ResolveFields(op.content, SchemaFor(Schemas, op.component)),
                   parent |-> op.parent]
  BY <1>2 DEF Meant
<1> HIDE DEF line
<1> DEFINE s == TrimEnd(line.rest)
<1>5. Wired(op, s, parts, off, n)  BY <1>1
<1> HIDE DEF s
<1>6. Tokens(s) = WholeTokens(op, n)  BY <1>1, <1>5, CleanTokens
<1>7. Begins(s, op.component)  BY <1>1, <1>5, WiredBegins
<1>8. n = PartCount(op)  BY <1>5 DEF Wired
<1>9. \A i \in 1 .. Len(op.content) : ~ Named(op.content[i])
  BY CleanByValue DEF CleanValue
<1>10. ParseMount(line, Schemas) =
         [type |-> "+", id |-> line.id, component |-> op.component,
          fields |-> ResolveFields(op.content, SchemaFor(Schemas, op.component)),
          parent |-> op.parent]
  <2>1. s = TrimEnd(line.rest)  BY DEF s
  <2> QED BY <1>6, <1>7, <1>8, <1>9, <2>1, ParsesWhole
<1>11. ParseLine(line, Schemas) = ParseMount(line, Schemas)  BY <1>3 DEF ParseLine
<1> QED BY <1>3, <1>4, <1>10, <1>11 DEF line

-----------------------------------------------------------------------------
(***************************************************************************)
(* Where some value is not clean: the first one that is not is not seen as it *)
(* was meant.                                                              *)
(***************************************************************************)

\* The parser reads the escapes of a value as the serializer wrote them, but a
\* backslash of the value itself may be read as one.
LEMMA EscapedAtIsLost ==
  ASSUME NEW v, IsSeq(v), ~ NoEscapedAt(v), NEW t, IsSeq(t), Len(Escape(v)) <= Len(t),
         \A p \in 1 .. Len(Escape(v)) : t[p] = Escape(v)[p]
  PROVE  Unescaped(t) # v
<1> DEFINE e == Escape(v)
           Bad == {d \in 1 .. Len(v) - 1 : v[d] = "\\" /\ v[d + 1] = "@"}
<1>1. PICK pos : Spread(pos, v, e)  BY EscapeSpreads
<1>2. /\ Len(e) <= Len(t) /\ \A p \in 1 .. Len(e) : t[p] = e[p]
  OBVIOUS
<1> HIDE DEF e
<1>3. PICK l, z : l = Len(v) /\ z = Len(e)  OBVIOUS
<1>4. /\ l \in Nat /\ z \in Nat
      /\ \A i \in 1 .. l : pos[i] \in 1 .. z
  BY <1>1, <1>3, SpreadCovers
<1>5. Bad # {} /\ Bad \subseteq Nat
  <2>1. Bad # {}  BY DEF NoEscapedAt
  <2>2. \A i \in 1 .. l - 1 : i \in Nat  BY <1>4
  <2>3. Bad \subseteq Nat  BY <1>3, <2>2
  <2> QED BY <2>1, <2>3
<1>6. PICK d \in Bad : \A i \in Bad : d <= i
  <2> HIDE DEF Bad
  <2>1. PICK d \in Bad : \A i \in Bad : <<i, d>> \notin Less
    BY <1>5, LessIsWellFounded, WFMin
  <2>2. \A i \in Bad : d <= i
    <3> SUFFICES ASSUME NEW i \in Bad  PROVE d <= i
      OBVIOUS
    <3>1. d \in Nat /\ i \in Nat /\ <<i, d>> \notin Less  BY <1>5, <2>1
    <3>2. ~ (i < d)  BY <3>1 DEF Less
    <3> QED BY <3>1, <3>2
  <2> QED BY <2>2
<1>7. d \in 1 .. l - 1 /\ v[d] = "\\" /\ v[d + 1] = "@"  BY <1>3
<1>8. d \in 1 .. l /\ d + 1 \in 1 .. l /\ d + 1 # 1 /\ (d + 1) - 1 = d  BY <1>4, <1>7
<1>9. pos[d + 1] = pos[d] + 1 /\ e[pos[d + 1]] = "@"
  <2>1. ~ Marked(v, d + 1)  BY <1>7, <1>8 DEF Marked
  <2> QED BY <1>1, <1>3, <1>7, <1>8, <2>1 DEF Spread
<1>10. pos[d] + 1 \in 1 .. z /\ pos[d] \in 1 .. z  BY <1>4, <1>8, <1>9
<1>11. t[pos[d] + 1] = "@"  BY <1>2, <1>3, <1>9, <1>10
<1>12. pos[d] + 1 <= Len(t) /\ \A p \in 1 .. pos[d] : t[p] = e[p]
  <2>1. Len(t) \in Nat  BY ListHasLength
  <2>2. PICK h, b : h = pos[d] /\ b = Len(t)  OBVIOUS
  <2>3. h \in 1 .. z /\ h + 1 \in 1 .. z /\ z <= b /\ z \in Nat /\ b \in Nat
    BY <1>2, <1>3, <1>4, <1>10, <2>1, <2>2
  <2>4. h + 1 <= b /\ \A p \in 1 .. h : p \in 1 .. z  BY <2>3
  <2> QED BY <1>2, <1>3, <2>2, <2>4
<1>13. ASSUME NEW i \in 1 .. d - 1  PROVE ~ (v[i] = "\\" /\ v[i + 1] = "@")
  <2>1. i \in 1 .. l - 1 /\ ~ (d <= i)  BY <1>4, <1>7
  <2>2. i \notin Bad  BY <1>6, <2>1
  <2> QED BY <1>3, <2>1, <2>2
<1> HIDE DEF Bad
<1>14. d \in 1 .. Len(v) /\ t[pos[d] + 1] \in {"|", "@"}  BY <1>3, <1>8, <1>11
<1> QED BY <1>1, <1>7, <1>12, <1>13, <1>14, BackslashIsLost

LEMMA LastBackslashIsLost ==
  ASSUME NEW v, IsSeq(v), NoEscapedAt(v), EndsWith(v, "\\"),
         NEW t, IsSeq(t), Len(Escape(v)) + 1 <= Len(t),
         \A p \in 1 .. Len(Escape(v)) : t[p] = Escape(v)[p],
         t[Len(Escape(v)) + 1] = "|"
  PROVE  Unescaped(t) # v
<1> DEFINE e == Escape(v)  d == Len(v)
<1>1. PICK pos : Spread(pos, v, e)  BY EscapeSpreads
<1>2. /\ Len(e) + 1 <= Len(t) /\ (\A p \in 1 .. Len(e) : t[p] = e[p])
      /\ t[Len(e) + 1] = "|"
  OBVIOUS
<1> HIDE DEF e
<1>3. v # <<>> /\ v[d] = "\\"  BY DEF EndsWith, Last
<1>4. d \in 1 .. Len(v)  BY <1>3, LastIsThere
<1>5. pos[d] = Len(e)  BY <1>1 DEF Spread
<1>6. /\ pos[d] + 1 <= Len(t) /\ (\A p \in 1 .. pos[d] : t[p] = e[p])
      /\ t[pos[d] + 1] \in {"|", "@"}
  BY <1>2, <1>5
<1>7. \A i \in 1 .. d - 1 : ~ (v[i] = "\\" /\ v[i + 1] = "@")  BY DEF NoEscapedAt
<1> HIDE DEF d
<1> QED BY <1>1, <1>3, <1>4, <1>6, <1>7, BackslashIsLost

\* Value k is not written so that it can be read.
Marred(op, k) ==
  \/ ~ NoEscapedAt(op.content[k])
  \/ EndsWith(op.content[k],
              IF k = Len(op.content) /\ op.parent = NoParent THEN " " ELSE "\\")

\* The values before value k are clean, so the parts before it are closed.
LEMMA ClosedBefore ==
  ASSUME NEW op, IsMount(op), NEW s, NEW parts, NEW off, NEW n \in Nat \ {0},
         Wired(op, s, parts, off, n), NEW k \in 1 .. Len(op.content),
         \A i \in 1 .. k - 1 : CleanValue(op, i)
  PROVE  k \in Nat /\ k + 1 <= n /\ \A i \in 1 .. k : i \in Closed(parts, n)
<1>1. PICK l : l = Len(op.content)  OBVIOUS
<1>2. l \in Nat /\ n = l + (IF op.parent = NoParent THEN 1 ELSE 2)
  BY <1>1 DEF IsMount, Wired, PartCount
<1>3. k \in 1 .. l  BY <1>1
<1>4. k \in Nat /\ k <= l /\ k + 1 <= n  BY <1>2, <1>3
<1>5. ASSUME NEW i \in 1 .. k  PROVE i \in Closed(parts, n)
  <2>1. i \in 1 .. n - 1  BY <1>2, <1>3
  <2>2. ASSUME i # 1  PROVE ~ EndsWith(op.content[i - 1], "\\")
    <3>1. i - 1 \in 1 .. k - 1 /\ i - 1 # l  BY <1>2, <1>3, <2>2
    <3>2. CleanValue(op, i - 1)  BY <3>1
    <3> QED BY <1>1, <3>1, <3>2 DEF CleanValue
  <2> QED BY <2>1, <2>2, NameIsClosed
<1> QED BY <1>4, <1>5

\* The token that begins where a marred value stands is another text.
LEMMA MarredIsLost ==
  ASSUME NEW op, IsMount(op), NEW s, NEW parts, NEW off, NEW n \in Nat \ {0},
         Wired(op, s, parts, off, n), NEW r, NEW m, Ends(r, m, parts, n),
         NEW k \in 1 .. Len(op.content), Marred(op, k),
         \A i \in 1 .. k : i \in 0 .. m /\ r[i] = i
  PROVE  Unescaped(SubSeq(s, off[r[(k + 1) - 1]] + 1, off[r[k + 1]] - 1)) # op.content[k]
<1> DEFINE v == op.content[k]  e == Escape(v)
<1>1. PICK l : l = Len(op.content)  OBVIOUS
<1>2. l \in Nat /\ n = l + (IF op.parent = NoParent THEN 1 ELSE 2)
  BY <1>1 DEF IsMount, Wired, PartCount
<1>3. k \in 1 .. l /\ k \in Nat /\ k \in 1 .. k  BY <1>1, <1>2
<1>4. /\ m \in Nat /\ Rises(r, m + 1) /\ r \in [0 .. m + 1 -> Nat] /\ r[m + 1] = n
      /\ {r[i] : i \in 1 .. m} = Closed(parts, n)
  BY DEF Ends, Rises
<1>5. k \in 0 .. m /\ r[k] = k  BY <1>3
<1>6. PICK y : y = r[k + 1]  OBVIOUS
<1>7. /\ k + 1 \in 1 .. m + 1 /\ k + 1 \in 0 .. m + 1 /\ k \in 0 .. m + 1 /\ k < k + 1
      /\ (k + 1) - 1 = k
  BY <1>3, <1>4, <1>5
<1>8. y \in Nat /\ k < y /\ y <= n
  <2>1. \A i, j \in 0 .. m + 1 : i < j => r[i] < r[j]
    <3>1. m + 1 \in Nat /\ Rises(r, m + 1)  BY <1>4
    <3> QED BY <3>1, RisesInOrder
  <2>2. y \in Nat /\ k < y  BY <1>4, <1>5, <1>6, <1>7, <2>1
  <2>3. k + 1 # m + 1 => y < n
    <3>1. m + 1 \in 0 .. m + 1  BY <1>4
    <3>2. k + 1 # m + 1 => k + 1 < m + 1  BY <1>4, <1>7
    <3> QED BY <1>4, <1>6, <1>7, <2>1, <3>1, <3>2
  <2>4. k + 1 = m + 1 => y = n  BY <1>4, <1>6
  <2> QED BY <1>2, <2>2, <2>3, <2>4
<1>9. /\ Joined(s, parts, off, n) /\ \A i \in 1 .. n : IsSeq(parts[i])
      /\ (k + 1 < n \/ ~ EndsWith(v, " ") => parts[k + 1] = e)
      /\ ~ EndsWith(parts[n], " ")
  BY <1>1, <1>3 DEF Wired
<1>10. IsSeq(v)  BY DEF IsMount
<1> HIDE DEF v, e
<1>11. /\ Rises(off, n)
       /\ \A i \in 1 .. n : /\ Len(parts[i]) \in Nat
                            /\ off[i - 1] \in Nat /\ off[i] \in Nat
                            /\ off[i] = off[i - 1] + Len(parts[i]) + 1 /\ off[i] <= off[n]
  BY <1>9, JoinedRises
<1>12. /\ IsSeq(s) /\ Len(s) = off[n] - 1
       /\ \A i \in 1 .. n : \A j \in 1 .. Len(parts[i]) : s[off[i - 1] + j] = parts[i][j]
       /\ \A i \in 1 .. n - 1 : s[off[i]] = "|"
  BY <1>9 DEF Joined
<1> DEFINE t == SubSeq(s, off[k] + 1, off[y] - 1)
<1>13. SUFFICES Unescaped(t) # v
  BY <1>5, <1>6, <1>7 DEF v
<1>14. k + 1 \in 1 .. n /\ y \in 1 .. n /\ k \in 0 .. n /\ y \in 0 .. n /\ n \in 1 .. n
  BY <1>2, <1>3, <1>8
<1>15. PICK a, b, h, z, c : a = off[k] /\ b = off[y] - 1 /\ h = Len(parts[k + 1]) /\ z = off[n]
                            /\ c = off[k + 1]
  OBVIOUS
<1>16. /\ a \in Nat /\ h \in Nat /\ z \in Nat /\ c = a + h + 1 /\ c \in Nat /\ c <= z
       /\ Len(s) = z - 1
  BY <1>7, <1>11, <1>12, <1>14, <1>15
<1>17. \A i, j \in 0 .. n : i < j => off[i] < off[j]  BY <1>11, RisesInOrder
<1>18. /\ b \in Nat /\ a + h <= b /\ b <= Len(s)
       /\ y # k + 1 => a + h + 1 <= b
  <2>1. PICK x : x = off[y]  OBVIOUS
  <2>2. x \in Nat /\ x <= z /\ b = x - 1  BY <1>11, <1>14, <1>15, <2>1
  <2>3. y = k + 1 => x = c  BY <1>15, <2>1
  <2>4. y # k + 1 => c < x
    <3>1. y # k + 1 => k + 1 < y  BY <1>3, <1>8
    <3>2. k + 1 \in 0 .. n  BY <1>14
    <3> QED BY <1>14, <1>15, <1>17, <2>1, <3>1, <3>2
  <2>5. c <= x  BY <1>16, <2>2, <2>3, <2>4
  <2>6. b \in Nat /\ a + h <= b /\ b <= z - 1  BY <1>16, <2>2, <2>5
  <2>7. y # k + 1 => a + h + 1 <= b  BY <1>16, <2>2, <2>4
  <2> QED BY <1>16, <2>6, <2>7
<1>19. IsSeq(t) /\ Len(t) = b - a /\ \A i \in 1 .. b - a : t[i] = s[a + i]
  <2>1. a <= b  BY <1>16, <1>18
  <2>2. t = SubSeq(s, a + 1, b)  BY <1>15
  <2> HIDE DEF t
  <2> QED BY <1>12, <1>16, <1>18, <2>1, <2>2, CutOut
<1> HIDE DEF t
<1>20. PICK w : w = Len(t)  OBVIOUS
<1>22. /\ w \in Nat /\ h <= w /\ \A i \in 1 .. h : t[i] = parts[k + 1][i]
       /\ y # k + 1 => h + 1 <= w /\ t[h + 1] = s[c]
  <2>1. w = b - a  BY <1>19, <1>20
  <2>2. w \in Nat /\ h <= w /\ (y # k + 1 => h + 1 <= w)  BY <1>16, <1>18, <2>1
  <2>3. ASSUME NEW i \in 1 .. h  PROVE t[i] = parts[k + 1][i]
    <3>1. i \in 1 .. b - a  BY <2>1, <2>2, <1>16
    <3>2. t[i] = s[a + i]  BY <1>19, <3>1
    <3> QED BY <1>7, <1>12, <1>14, <1>15, <3>2
  <2>4. ASSUME y # k + 1  PROVE t[h + 1] = s[c]
    <3>1. h + 1 \in 1 .. b - a  BY <1>16, <2>1, <2>2, <2>4
    <3>2. c = a + (h + 1)  BY <1>16
    <3> QED BY <1>19, <3>1, <3>2
  <2> QED BY <2>2, <2>3, <2>4
<1>21. CASE k = l /\ op.parent = NoParent /\ EndsWith(v, " ")
  <2>0. k = l /\ op.parent = NoParent  BY <1>21
  <2>1. n = k + 1 /\ y = n /\ n - 1 = k  BY <1>2, <1>3, <1>8, <2>0
  <2>2. t = parts[n]
    <3>0. Joined(s, parts, off, n) /\ (\A i \in 1 .. n : IsSeq(parts[i])) /\ n \in 1 .. n
      BY <1>9, <1>14
    <3>1. SubSeq(s, off[n - 1] + 1, off[n] - 1) = parts[n]  BY <3>0, PartStands
    <3> QED BY <2>1, <3>1 DEF t
  <2> QED BY <1>9, <1>10, <1>19, <1>21, <2>2, LastIsKept
<1>23. CASE ~ (k = l /\ op.parent = NoParent /\ EndsWith(v, " "))
  <2>1. parts[k + 1] = e
    <3>1. ~ (k = l /\ op.parent = NoParent) => k + 1 < n  BY <1>2, <1>3
    <3> QED BY <1>9, <1>23, <3>1
  <2>2. h = Len(e) /\ Len(e) <= Len(t) /\ \A i \in 1 .. Len(e) : t[i] = e[i]
    BY <1>15, <1>20, <1>22, <2>1
  <2>3. CASE ~ NoEscapedAt(v)
    BY <1>10, <1>19, <2>2, <2>3, EscapedAtIsLost DEF e
  <2>4. CASE NoEscapedAt(v)
    <3>1. EndsWith(v, IF k = l /\ op.parent = NoParent THEN " " ELSE "\\")
      BY <1>1, <2>4 DEF Marred, v
    <3>2. EndsWith(v, "\\") /\ ~ (k = l /\ op.parent = NoParent)  BY <1>23, <3>1
    <3>3. EndsWith(e, "\\")  BY <1>10, <3>2, EscapeGuards DEF e
    <3>4. k + 1 # n /\ k + 1 \in 1 .. n - 1  BY <1>2, <1>3, <3>2
    <3>5. y # k + 1
      <4>1. k + 1 \notin Closed(parts, n)  BY <2>1, <3>3 DEF Closed
      <4>2. k + 1 \in 1 .. m => y \in Closed(parts, n)  BY <1>4, <1>6
      <4>3. k + 1 \notin 1 .. m => y = n
        <5>1. k + 1 \notin 1 .. m => k + 1 = m + 1  BY <1>4, <1>7
        <5> QED BY <1>4, <1>6, <5>1
      <4> QED BY <3>4, <4>1, <4>2, <4>3
    <3>6. t[h + 1] = "|" /\ h + 1 <= w  BY <1>12, <1>15, <1>22, <3>4, <3>5
    <3>7. Len(e) + 1 <= Len(t) /\ t[Len(e) + 1] = "|"  BY <1>20, <2>2, <3>6
    <3> QED BY <1>10, <1>19, <2>2, <2>4, <3>2, <3>7, LastBackslashIsLost DEF e
  <2> QED BY <2>3, <2>4
<1> QED BY <1>21, <1>23

\* What is listed in order stands no further ahead than its place in the list.
LEMMA ListAbove ==
  ASSUME NEW at \in SUBSET (Nat \ {0}), NEW m, NEW q, Lists(q, m, at)
  PROVE  \A k \in 1 .. m : k <= q[k]
<1> DEFINE f == [i \in 0 .. m |-> IF i = 0 THEN 0 ELSE q[i]]
<1>1. m \in Nat /\ q \in [1 .. m -> at] /\ \A k, l \in 1 .. m : k < l => q[k] < q[l]
  BY DEF Lists
<1>2. \A k \in 1 .. m : q[k] \in Nat \ {0}  BY <1>1
<1>3. f[0] = 0 /\ (\A i \in 1 .. m : f[i] = q[i]) /\ f \in [0 .. m -> Nat]
  <2>1. 0 \in 0 .. m /\ \A i \in 1 .. m : i \in 0 .. m /\ i # 0  BY <1>1
  <2>2. \A i \in 0 .. m : i # 0 => i \in 1 .. m  BY <1>1
  <2> QED BY <1>2, <2>1, <2>2
<1> HIDE DEF f
<1>4. ASSUME NEW i \in 1 .. m  PROVE f[i - 1] < f[i]
  <2>1. CASE i = 1
    <3>1. i - 1 = 0  BY <2>1
    <3>2. q[i] > 0  BY <1>2
    <3> QED BY <1>3, <3>1, <3>2
  <2>2. CASE i # 1
    <3>1. i - 1 \in 1 .. m /\ i - 1 < i  BY <1>1, <2>2
    <3> QED BY <1>1, <1>3, <3>1
  <2> QED BY <2>1, <2>2
<1>5. Rises(f, m)  BY <1>3, <1>4 DEF Rises
<1>6. \A k \in 0 .. m : k <= f[k]  BY <1>1, <1>5, RisesAbove
<1> SUFFICES ASSUME NEW k \in 1 .. m  PROVE k <= q[k]
  OBVIOUS
<1>7. k \in 0 .. m  BY <1>1
<1> QED BY <1>3, <1>6, <1>7

\* Once something is left out, all that follows has moved up.
LEMMA ListSkips ==
  ASSUME NEW at \in SUBSET Nat, NEW m, NEW q, Lists(q, m, at),
         NEW d \in 1 .. m, d < q[d]
  PROVE  \A i \in 1 .. m : d <= i => i < q[i]
<1>1. m \in Nat /\ q \in [1 .. m -> at] /\ \A k, l \in 1 .. m : k < l => q[k] < q[l]
  BY DEF Lists
<1>2. \A k \in 1 .. m : q[k] \in Nat  BY <1>1
<1> DEFINE z == m - d + 1
           f == [i \in 0 .. z |-> IF i = 0 THEN 0 ELSE q[d + i - 1] - d]
<1>3. z \in Nat /\ d \in Nat /\ 1 \in 1 .. z /\ \A i \in 1 .. z : d + i - 1 \in 1 .. m
      /\ (d + i - 1 = d \/ d < d + i - 1)
  BY <1>1
<1>4. \A i \in 1 .. z : q[d + i - 1] - d \in Nat \ {0}
  <2> SUFFICES ASSUME NEW i \in 1 .. z  PROVE q[d + i - 1] - d \in Nat \ {0}
    OBVIOUS
  <2>1. PICK h, y, w : h = d + i - 1 /\ y = q[h] /\ w = q[d]  OBVIOUS
  <2>2. h \in 1 .. m /\ (h = d \/ d < h)  BY <1>3, <2>1
  <2>3. y \in Nat /\ w \in Nat /\ d < w /\ w <= y
    <3>1. y \in Nat /\ w \in Nat /\ d < w  BY <1>2, <2>1, <2>2
    <3>2. d < h => w < y  BY <1>1, <2>1, <2>2
    <3>3. h = d => w = y  BY <2>1
    <3> QED BY <2>2, <3>1, <3>2, <3>3
  <2>4. y - d \in Nat \ {0}  BY <1>3, <2>3
  <2> QED BY <2>1, <2>4
<1>5. f[0] = 0 /\ (\A i \in 1 .. z : f[i] = q[d + i - 1] - d) /\ f \in [0 .. z -> Nat]
  <2> HIDE DEF z
  <2>1. 0 \in 0 .. z /\ \A i \in 1 .. z : i \in 0 .. z /\ i # 0  BY <1>3
  <2>2. \A i \in 0 .. z : i # 0 => i \in 1 .. z  BY <1>3
  <2> QED BY <1>4, <2>1, <2>2
<1> HIDE DEF f, z
<1>6. ASSUME NEW i \in 1 .. z  PROVE f[i - 1] < f[i]
  <2>1. CASE i = 1
    <3>1. i - 1 = 0  BY <2>1
    <3>2. f[i] \in Nat \ {0}  BY <1>4, <1>5
    <3> QED BY <1>5, <3>1, <3>2
  <2>2. CASE i # 1
    <3>1. i - 1 \in 1 .. z /\ d + (i - 1) - 1 < d + i - 1  BY <1>3, <2>2
    <3>2. PICK g, h : g = d + (i - 1) - 1 /\ h = d + i - 1  OBVIOUS
    <3>3. g \in 1 .. m /\ h \in 1 .. m /\ g < h  BY <1>3, <3>1, <3>2
    <3>4. q[g] < q[h] /\ q[g] \in Nat /\ q[h] \in Nat  BY <1>1, <1>2, <3>3
    <3>5. f[i - 1] = q[g] - d /\ f[i] = q[h] - d  BY <1>5, <3>1, <3>2
    <3> QED BY <1>3, <3>4, <3>5
  <2> QED BY <2>1, <2>2
<1>7. Rises(f, z)  BY <1>5, <1>6 DEF Rises
<1>8. \A k \in 0 .. z : k <= f[k]  BY <1>3, <1>7, RisesAbove
<1> SUFFICES ASSUME NEW i \in 1 .. m, d <= i  PROVE i < q[i]
  OBVIOUS
<1>9. PICK k : k = i - d + 1  OBVIOUS
<1>10. k \in 1 .. z /\ k \in 0 .. z /\ d + k - 1 = i  BY <1>1, <1>3, <1>9 DEF z
<1>11. k <= q[i] - d  BY <1>5, <1>8, <1>10
<1> QED BY <1>2, <1>3, <1>9, <1>11

\* The values that a parse with the right fields has seen.
LEMMA FieldsTell ==
  ASSUME NEW op, IsMount(op), Labelled(op), NEW raw, IsSeq(raw),
         Len(raw) <= Len(op.content), NEW schema, schema = SchemaFor(Schemas, op.component),
         ResolveFields(raw, schema) = ResolveFields(op.content, schema)
  PROVE  \A i \in 1 .. Len(op.content) :
           op.content[i] = IF i \in 1 .. Len(raw) THEN raw[i] ELSE <<>>
<1>1. PICK l, z : l = Len(op.content) /\ z = Len(raw)  OBVIOUS
<1>2. l \in Nat /\ z \in Nat /\ z <= l /\ DOMAIN op.content = 1 .. l /\ DOMAIN raw = 1 .. z
  BY <1>1, ListHasLength DEF IsMount
<1>3. \A i \in 1 .. z : i \in 1 .. l  BY <1>2
<1> DEFINE labels == IF schema = NoSchema THEN Positional
                     ELSE [i \in DOMAIN schema |-> schema[i].label]
<1>4. /\ \A i \in 1 .. l : i \in DOMAIN labels
      /\ \A i \in 1 .. l, j \in DOMAIN labels : labels[i] = labels[j] => i = j
  BY <1>2 DEF Labelled, IsMount
<1> SUFFICES ASSUME NEW i \in 1 .. l
             PROVE  op.content[i] = IF i \in 1 .. z THEN raw[i] ELSE <<>>
  BY <1>1
<1>5. CASE schema = NoSchema
  <2>1. labels = Positional  BY <1>5
  <2> HIDE DEF labels
  <2> DEFINE F == [x \in {Positional[j] : j \in DOMAIN raw} |->
                     raw[CHOOSE j \in DOMAIN raw : Positional[j] = x]]
             G == [x \in {Positional[j] : j \in DOMAIN op.content} |->
                     op.content[CHOOSE j \in DOMAIN op.content : Positional[j] = x]]
  <2>2. F = G  BY <1>5 DEF ResolveFields
  <2>3. DOMAIN F = {Positional[j] : j \in 1 .. z} /\ DOMAIN G = {Positional[j] : j \in 1 .. l}
    BY <1>2
  <2>4. \A j \in 1 .. l : Positional[j] = Positional[i] => j = i  BY <1>4, <2>1
  <2>5. i \in 1 .. z
    <3>1. Positional[i] \in {Positional[j] : j \in 1 .. z}  BY <2>2, <2>3
    <3>2. PICK j \in 1 .. z : Positional[j] = Positional[i]  BY <3>1
    <3> QED BY <1>3, <2>4, <3>2
  <2>6. (CHOOSE j \in DOMAIN raw : Positional[j] = Positional[i]) = i
    BY <1>2, <1>3, <2>4, <2>5
  <2>7. (CHOOSE j \in DOMAIN op.content : Positional[j] = Positional[i]) = i
    BY <1>2, <2>4
  <2>8. F[Positional[i]] = raw[i]  BY <1>2, <2>5, <2>6
  <2>9. G[Positional[i]] = op.content[i]  BY <1>2, <2>7
  <2> QED BY <2>2, <2>5, <2>8, <2>9
<1>6. CASE schema # NoSchema
  <2> DEFINE at(x) == CHOOSE j \in DOMAIN schema : schema[j].label = x
             F == [x \in Labels(schema) |-> IF at(x) \in DOMAIN raw THEN raw[at(x)] ELSE <<>>]
             G == [x \in Labels(schema) |->
                     IF at(x) \in DOMAIN op.content THEN op.content[at(x)] ELSE <<>>]
  <2>1. F = G  BY <1>6 DEF ResolveFields
  <2>2. i \in DOMAIN schema /\ \A j \in DOMAIN schema : schema[i].label = schema[j].label => i = j
    BY <1>4, <1>6
  <2>3. schema[i].label \in Labels(schema)  BY <2>2 DEF Labels
  <2>4. at(schema[i].label) = i  BY <2>2
  <2> HIDE DEF at
  <2>5. F[schema[i].label] = IF i \in 1 .. z THEN raw[i] ELSE <<>>  BY <1>2, <2>3, <2>4
  <2>6. G[schema[i].label] = op.content[i]  BY <1>2, <2>3, <2>4
  <2> QED BY <2>1, <2>5, <2>6
<1> QED BY <1>5, <1>6

\* A line of a MOUNT, its parts and its tokens.
Reading(op, s, parts, off, n, m, r) ==
  /\ IsMount(op)
  /\ n \in Nat \ {0}
  /\ Wired(op, s, parts, off, n)
  /\ Ends(r, m, parts, n)
  /\ Tokens(s) = [k \in 1 .. m + 1 |->
       Unescaped(SubSeq(s, off[r[k - 1]] + 1, off[r[k]] - 1))]

At(tokens) == {k \in DOMAIN tokens : ~ Named(tokens[k])}

\* As long as the parts are the tokens, they are read as they were meant.
LEMMA SurvivingToken ==
  ASSUME NEW op, NEW s, NEW parts, NEW off, NEW n, NEW m, NEW r,
         Reading(op, s, parts, off, n, m, r), NEW k \in 1 .. n, k \in 1 .. m + 1,
         r[k - 1] = k - 1, r[k] = k, Survives(op, k, n)
  PROVE  Tokens(s)[k] = WholeTokens(op, n)[k]
<1>1. Tokens(s)[k] = Unescaped(SubSeq(s, off[k - 1] + 1, off[k] - 1))  BY DEF Reading
<1>2. IsMount(op) /\ n \in Nat \ {0} /\ Wired(op, s, parts, off, n)  BY DEF Reading
<1> QED BY <1>1, <1>2, TokenOfPart

\* There are no more positional tokens than there were values and a component.
LEMMA PositionalFit ==
  ASSUME NEW op, NEW s, NEW parts, NEW off, NEW n, NEW m, NEW r,
         Reading(op, s, parts, off, n, m, r)
  PROVE  \A k \in At(Tokens(s)) : k \in 1 .. Len(op.content) + 1 /\ k \in 1 .. m + 1
<1>1. PICK l : l = Len(op.content)  OBVIOUS
<1>2. /\ l \in Nat /\ n = l + (IF op.parent = NoParent THEN 1 ELSE 2)
      /\ IsMount(op) /\ Wired(op, s, parts, off, n) /\ n \in Nat \ {0}
  BY <1>1 DEF IsMount, Wired, PartCount, Reading
<1>3. /\ m \in Nat /\ Rises(r, m + 1) /\ r \in [0 .. m + 1 -> Nat] /\ r[m + 1] = n
  BY DEF Reading, Ends, Rises
<1>4. \A k \in 0 .. m + 1 : k <= r[k]
  <2>1. m + 1 \in Nat  BY <1>3
  <2> QED BY <1>3, <2>1, RisesAbove
<1>5. m + 1 <= n
  <2>1. m + 1 \in 0 .. m + 1  BY <1>3
  <2> QED BY <1>3, <1>4, <2>1
<1>6. DOMAIN Tokens(s) = 1 .. m + 1  BY DEF Reading
<1> SUFFICES ASSUME NEW k \in 1 .. m + 1, ~ Named(Tokens(s)[k])  PROVE k \in 1 .. l + 1
  BY <1>1, <1>6 DEF At
<1>7. CASE op.parent = NoParent
  <2>1. n = l + 1  BY <1>2, <1>7
  <2> QED BY <1>2, <1>3, <1>5, <2>1
<1>8. CASE op.parent # NoParent
  <2>1. n = l + 2  BY <1>2, <1>8
  <2>2. ASSUME k = l + 2  PROVE FALSE
    <3>1. k = n /\ k = m + 1 /\ k \in 1 .. n /\ k - 1 \in 0 .. m + 1 /\ k \in 0 .. m + 1
          /\ k - 1 < k
      BY <1>2, <1>3, <1>5, <2>1, <2>2
    <3>2. r[k] = k  BY <1>3, <3>1
    <3>3. r[k - 1] = k - 1
      <4>1. r[k - 1] < r[k]  BY <1>3, <3>1, RisesInOrder
      <4>2. k - 1 <= r[k - 1] /\ r[k - 1] \in Nat  BY <1>3, <1>4, <3>1
      <4> QED BY <3>2, <4>1, <4>2
    <3>4. k # 1 /\ k - 1 \notin 1 .. l  BY <1>2, <2>2
    <3>5. Survives(op, k, n)  BY <1>1, <3>4 DEF Survives
    <3>6. Tokens(s)[k] = WholeTokens(op, n)[k]  BY <3>1, <3>2, <3>3, <3>5, SurvivingToken
    <3>7. WholeTokens(op, n)[k] = Param(op.parent)  BY <1>1, <3>1, <3>4 DEF WholeTokens
    <3>8. IsSeq(op.parent) /\ IsName(op.parent)  BY <1>2, <1>8 DEF IsMount
    <3>9. Named(Param(op.parent))  BY <3>8, ParamReads
    <3> QED BY <3>6, <3>7, <3>9
  <2> QED BY <1>2, <1>3, <1>5, <2>1, <2>2
<1> QED BY <1>7, <1>8

LEMMA EmptyIsEmpty == Unescaped(<<>>) = <<>>
<1>1. IsSeq(<<>>) /\ \A i \in 1 .. Len(<<>>) : <<>>[i] # "\\"
  <2>1. Len(<<>>) = 0 /\ 1 .. 0 = {}  OBVIOUS
  <2>2. \A i \in 1 .. Len(<<>>) : <<>>[i] # "\\"  BY <2>1
  <2> QED BY <2>2, ShortTexts
<1> DEFINE t == <<>>
<1>2. IsSeq(t) /\ \A i \in 1 .. Len(t) : t[i] # "\\"  BY <1>1
<1> HIDE DEF t
<1>3. Unescaped(t) = t  BY <1>2, PlainIsKept
<1> QED BY <1>3 DEF t

\* Behind the last value that is not empty, tokens are empty or name the parent.
LEMMA EmptyAfter ==
  ASSUME NEW op, NEW s, NEW parts, NEW off, NEW n, NEW m, NEW r,
         Reading(op, s, parts, off, n, m, r),
         NEW j \in 1 .. Len(op.content),
         \A i \in 1 .. Len(op.content) : j < i => op.content[i] = <<>>,
         NEW k \in 1 .. m + 1, j + 2 <= k
  PROVE  Tokens(s)[k] = <<>> \/ Named(Tokens(s)[k])
<1>1. PICK l : l = Len(op.content)  OBVIOUS
<1>2. /\ l \in Nat /\ n = l + (IF op.parent = NoParent THEN 1 ELSE 2)
      /\ IsMount(op) /\ Wired(op, s, parts, off, n) /\ n \in Nat \ {0}
  BY <1>1 DEF IsMount, Wired, PartCount, Reading
<1>3. /\ m \in Nat /\ Rises(r, m + 1) /\ r \in [0 .. m + 1 -> Nat] /\ r[m + 1] = n
      /\ {r[i] : i \in 1 .. m} = Closed(parts, n)
  BY DEF Reading, Ends, Rises
<1>4. /\ j \in 1 .. l /\ \A i \in 1 .. l : j < i => op.content[i] = <<>>
  BY <1>1
<1>5. k \in Nat /\ k - 1 \in 0 .. m + 1 /\ k \in 0 .. m + 1 /\ k - 1 < k /\ j + 1 <= k - 1
  BY <1>2, <1>3, <1>4
<1>6. \A i, h \in 0 .. m + 1 : i < h => r[i] < r[h]
  <2>1. m + 1 \in Nat  BY <1>3
  <2> QED BY <1>3, <2>1, RisesInOrder
<1>7. \A i \in 0 .. m + 1 : i <= r[i]
  <2>1. m + 1 \in Nat  BY <1>3
  <2> QED BY <1>3, <2>1, RisesAbove
<1>8. PICK x, y : x = r[k - 1] /\ y = r[k]  OBVIOUS
<1>9. x \in Nat /\ y \in Nat /\ x < y /\ j + 1 <= x /\ y <= n
  <2>1. x \in Nat /\ y \in Nat /\ x < y /\ k - 1 <= x  BY <1>3, <1>5, <1>6, <1>7, <1>8
  <2>2. y <= n
    <3>1. m + 1 \in 0 .. m + 1 /\ (k = m + 1 \/ k < m + 1)  BY <1>3
    <3>2. k < m + 1 => y < n  BY <1>3, <1>5, <1>6, <1>8, <3>1
    <3>3. k = m + 1 => y = n  BY <1>3, <1>8
    <3> QED BY <1>2, <2>1, <3>1, <3>2, <3>3
  <2>3. j + 1 <= x  BY <1>4, <1>5, <2>1
  <2> QED BY <2>1, <2>2, <2>3
<1> DEFINE p == x + 1
<1>10. p \in 1 .. n /\ p # 1 /\ p - 1 = x /\ j + 2 <= p /\ p <= y
  BY <1>2, <1>4, <1>9
<1>11. p - 1 \in 1 .. l => op.content[p - 1] = <<>> /\ parts[p] = <<>>
  <2> SUFFICES ASSUME x \in 1 .. l  PROVE op.content[x] = <<>> /\ parts[x + 1] = <<>>
    BY <1>10
  <2>1. op.content[x] = <<>>  BY <1>4, <1>9
  <2>2. ~ EndsWith(op.content[x], " ")  BY <2>1 DEF EndsWith
  <2>3. parts[x + 1] = Escape(op.content[x])  BY <1>1, <1>2, <2>2 DEF Wired
  <2>4. IsSeq(op.content[x])  BY <1>1, <1>2 DEF IsMount
  <2>5. Escape(op.content[x]) = <<>>  BY <2>1, <2>4, EscapeGuards
  <2> QED BY <2>1, <2>3, <2>5
<1>12. p = y
  <2>1. CASE p = n
    BY <1>2, <1>9, <1>10, <2>1
  <2>2. CASE p # n
    <3>1. p \in 1 .. n - 1 /\ p - 1 \in 1 .. l  BY <1>2, <1>4, <1>10, <2>2
    <3>2. parts[p] = <<>>  BY <1>11, <3>1
    <3>3. p \in Closed(parts, n)  BY <3>1, <3>2 DEF Closed, EndsWith
    <3> HIDE DEF p
    <3>4. PICK h \in 1 .. m : r[h] = p  BY <1>3, <3>3
    <3>5. h \in 0 .. m + 1 /\ h \in Nat  BY <1>3
    <3>6. ~ (h <= k - 1)
      <4>1. h < k - 1 => r[h] < r[k - 1]  BY <1>5, <1>6, <3>5
      <4>2. x < p  BY <1>9, <1>10
      <4> QED BY <1>5, <1>8, <1>9, <1>10, <3>4, <3>5, <4>1, <4>2
    <3>7. k = h \/ k < h  BY <1>5, <3>5, <3>6
    <3>8. k < h => y < p  BY <1>5, <1>6, <1>8, <3>4, <3>5
    <3>9. ~ (y < p)  BY <1>9, <1>10
    <3> QED BY <1>8, <3>4, <3>7, <3>8, <3>9
  <2> QED BY <2>1, <2>2
<1>13. Tokens(s)[k] = Unescaped(parts[p])
  <2>1. Tokens(s)[k] = Unescaped(SubSeq(s, off[p - 1] + 1, off[p] - 1))
    BY <1>8, <1>10, <1>12 DEF Reading
  <2>2. Joined(s, parts, off, n) /\ \A i \in 1 .. n : IsSeq(parts[i])  BY <1>2 DEF Wired
  <2> HIDE DEF p
  <2>3. SubSeq(s, off[p - 1] + 1, off[p] - 1) = parts[p]
    <3>1. n \in Nat \ {0} /\ p \in 1 .. n  BY <1>2, <1>10
    <3> QED BY <2>2, <3>1, PartStands
  <2> QED BY <2>1, <2>3
<1>14. CASE p - 1 \in 1 .. l
  BY <1>11, <1>13, <1>14, EmptyIsEmpty
<1>15. CASE p - 1 \notin 1 .. l
  <2>1. op.parent # NoParent /\ p = n  BY <1>2, <1>4, <1>10, <1>15
  <2>2. parts[p] = Param(op.parent)  BY <1>2, <2>1 DEF Wired
  <2>3. IsSeq(op.parent) /\ IsName(op.parent)  BY <1>2, <2>1 DEF IsMount
  <2>4. /\ IsSeq(Param(op.parent)) /\ Named(Param(op.parent))
        /\ \A i \in 1 .. Len(Param(op.parent)) : Param(op.parent)[i] # "\\"
    BY <2>3, ParamReads
  <2>5. Unescaped(Param(op.parent)) = Param(op.parent)  BY <2>4, PlainIsKept
  <2> QED BY <1>13, <2>2, <2>4, <2>5
<1> QED BY <1>14, <1>15

\* What the parser took for the values, where the fields are those meant.
LEMMA ValuesSeen ==
  ASSUME NEW op, NEW s, NEW parts, NEW off, NEW n, NEW m, NEW r,
         Reading(op, s, parts, off, n, m, r), Labelled(op),
         NEW line, s = TrimEnd(line.rest),
         ParseMount(line, Schemas).fields
           = ResolveFields(op.content, SchemaFor(Schemas, op.component)),
         NEW q, NEW p, Lists(q, p, At(Tokens(s)))
  PROVE  \A k \in 1 .. Len(op.content) :
           op.content[k] = IF k + 1 \in 1 .. p THEN Tokens(s)[q[k + 1]] ELSE <<>>
<1> DEFINE tokens == Tokens(s)
           positional == Pick(tokens, At(tokens))
           raw == IF positional = <<>> THEN <<>> ELSE Tail(positional)
<1>1. IsMount(op) /\ Wired(op, s, parts, off, n) /\ n \in Nat \ {0}  BY DEF Reading
<1>2. IsSeq(op.component) /\ IsName(op.component)  BY <1>1 DEF IsMount
<1>3. GuessComponent(s) = op.component
  <2>1. Begins(s, op.component)  BY <1>1, WiredBegins
  <2> QED BY <1>2, <2>1, GuessFindsName
<1>4. DOMAIN tokens \ {k \in DOMAIN tokens : Named(tokens[k])} = At(tokens)  BY DEF At
<1>5. ResolveFields(raw, SchemaFor(Schemas, op.component))
        = ResolveFields(op.content, SchemaFor(Schemas, op.component))
  <2>1. ParseMount(line, Schemas).fields
          = ResolveFields(raw, SchemaFor(Schemas, GuessComponent(s)))
    BY <1>4 DEF ParseMount
  <2> QED BY <1>3, <2>1
<1>6. PICK l : l = Len(op.content)  OBVIOUS
<1>7. \A k \in At(tokens) : k \in 1 .. l + 1 /\ k \in 1 .. m + 1  BY <1>6, PositionalFit
<1>8. l \in Nat  BY <1>1, <1>6 DEF IsMount
<1>9. At(tokens) \in SUBSET Nat /\ At(tokens) \in SUBSET (Nat \ {0})  BY <1>7, <1>8
<1> HIDE DEF tokens
<1> DEFINE set == At(tokens)
<1>10. Lists(q, p, set) /\ set \in SUBSET Nat /\ set \in SUBSET (Nat \ {0})
  BY <1>9 DEF tokens
<1>11. p \in Nat /\ q \in [1 .. p -> set]  BY <1>10 DEF Lists
<1> HIDE DEF set
<1>12. Pick(tokens, set) = [k \in 1 .. p |-> tokens[q[k]]]  BY <1>10, PickFollows
<1>13. /\ IsSeq(positional) /\ Len(positional) = p
       /\ \A k \in 1 .. p : positional[k] = tokens[q[k]]
  <2>1. positional = [k \in 1 .. p |-> tokens[q[k]]]  BY <1>12 DEF set
  <2> HIDE DEF positional
  <2>2. positional = [k \in 1 .. p |-> positional[k]]  BY <2>1
  <2> QED BY <1>11, <2>1, <2>2, FunctionIsSeq
<1> HIDE DEF positional
<1>14. p <= l + 1
  <2>1. p # 0 => p \in 1 .. p  BY <1>11
  <2>2. p \in 1 .. p => p <= q[p]  BY <1>10, ListAbove
  <2>3. p \in 1 .. p => q[p] \in 1 .. l + 1  BY <1>7, <1>11 DEF set
  <2> QED BY <1>8, <1>11, <2>1, <2>2, <2>3
<1>15. /\ IsSeq(raw) /\ Len(raw) <= l
       /\ \A k \in 1 .. l : k \in 1 .. Len(raw) <=> k + 1 \in 1 .. p
       /\ \A k \in 1 .. Len(raw) : raw[k] = tokens[q[k + 1]]
  <2>1. CASE positional = <<>>
    <3>1. raw = <<>> /\ p = 0
      <4>1. Len(<<>>) = 0  OBVIOUS
      <4> QED BY <1>13, <2>1, <4>1
    <3>2. \A k \in 1 .. l : k \notin 1 .. 0 /\ k + 1 \notin 1 .. 0  OBVIOUS
    <3>3. IsSeq(raw) /\ Len(raw) = 0
      <4>1. Len(<<>>) = 0  OBVIOUS
      <4> QED BY <3>1, <4>1, ShortTexts
    <3>4. \A k \in 1 .. 0 : FALSE  OBVIOUS
    <3>5. 0 <= l  BY <1>8
    <3> HIDE DEF raw
    <3> QED BY <3>1, <3>2, <3>3, <3>4, <3>5
  <2>2. CASE positional # <<>>
    <3>1. raw = Tail(positional)  BY <2>2
    <3>2. /\ IsSeq(Tail(positional)) /\ p \in Nat \ {0} /\ Len(Tail(positional)) = p - 1
          /\ \A i \in 1 .. p - 1 : Tail(positional)[i] = positional[i + 1]
      BY <1>13, <2>2, TailIsSeq
    <3>3. \A i \in 1 .. p - 1 : i + 1 \in 1 .. p  BY <3>2
    <3>4. \A k \in 1 .. l : k \in 1 .. p - 1 <=> k + 1 \in 1 .. p  BY <1>8, <3>2
    <3>5. p - 1 <= l  BY <1>8, <1>14, <3>2
    <3> QED BY <1>13, <3>1, <3>2, <3>3, <3>4, <3>5
  <2> QED BY <2>1, <2>2
<1> HIDE DEF raw
<1> DEFINE schema == SchemaFor(Schemas, op.component)
<1>16. ResolveFields(raw, schema) = ResolveFields(op.content, schema)  BY <1>5
<1>17. schema = SchemaFor(Schemas, op.component)  OBVIOUS
<1> HIDE DEF schema
<1>18. \A k \in 1 .. Len(op.content) :
         op.content[k] = IF k \in 1 .. Len(raw) THEN raw[k] ELSE <<>>
  <2>1. Len(raw) <= Len(op.content) /\ IsSeq(raw)  BY <1>6, <1>15
  <2> QED BY <1>1, <1>16, <1>17, <2>1, FieldsTell
<1> QED BY <1>6, <1>15, <1>18 DEF tokens

\* A list that holds the first positions begins with them.
LEMMA ListHolds ==
  ASSUME NEW at \in SUBSET (Nat \ {0}), NEW p, NEW q, Lists(q, p, at),
         NEW k \in Nat, \A i \in 1 .. k : i \in at
  PROVE  \A i \in 1 .. k : i \in 1 .. p /\ q[i] = i
<1> DEFINE f == [i \in 1 .. k |-> i]
<1>1. \A i \in 1 .. k : f[i] = i  OBVIOUS
<1> HIDE DEF f
<1>2. Starts(f, k, at)
  <2>1. \A i, j \in 1 .. k : i < j => f[i] < f[j]  BY <1>1
  <2>2. ASSUME NEW j \in at, k # 0, j <= f[k]  PROVE \E i \in 1 .. k : f[i] = j
    <3>1. k \in 1 .. k  BY <2>2
    <3>2. j \in Nat \ {0} /\ j <= k  BY <1>1, <2>2, <3>1
    <3>3. j \in 1 .. k  BY <3>2
    <3> QED BY <1>1, <3>3
  <2> QED BY <1>1, <2>1, <2>2 DEF Starts
<1>3. at \in SUBSET Nat  OBVIOUS
<1>4. \A i \in 1 .. k : i \in 1 .. p /\ q[i] = f[i]  BY <1>2, <1>3, ListBegins
<1> QED BY <1>1, <1>4

\* A value that is not clean is not seen as it was meant.
LEMMA UncleanIsSeen ==
  ASSUME NEW op, NEW s, NEW parts, NEW off, NEW n, NEW m, NEW r,
         Reading(op, s, parts, off, n, m, r), Labelled(op),
         NEW line, s = TrimEnd(line.rest),
         ParseMount(line, Schemas).fields
           = ResolveFields(op.content, SchemaFor(Schemas, op.component))
  PROVE  Clean(op)
<1> DEFINE T == Tokens(s)  at == At(T)
<1>1. /\ IsMount(op) /\ Wired(op, s, parts, off, n) /\ n \in Nat \ {0}
      /\ Ends(r, m, parts, n)
  BY DEF Reading
<1>2. PICK l : l = Len(op.content)  OBVIOUS
<1>3. l \in Nat /\ n = l + (IF op.parent = NoParent THEN 1 ELSE 2)
  BY <1>1, <1>2 DEF IsMount, Wired, PartCount
<1>4. \A k \in at : k \in 1 .. l + 1 /\ k \in 1 .. m + 1  BY <1>2, PositionalFit
<1>5. \A k \in at : k \in Nat \ {0}  BY <1>3, <1>4
<1>6. DOMAIN T = 1 .. m + 1 /\ \A k \in 1 .. m + 1 : k \in at <=> ~ Named(T[k])
  <2>1. DOMAIN T = 1 .. m + 1  BY DEF Reading
  <2> QED BY <2>1 DEF At
<1>7. PICK p, q : Lists(q, p, at)
  <2>1. l + 1 \in Nat /\ at \in SUBSET (1 .. l + 1)  BY <1>3, <1>4
  <2> HIDE DEF at
  <2> QED BY <2>1, ListExists
<1>8. \A k \in 1 .. l : op.content[k] = IF k + 1 \in 1 .. p THEN T[q[k + 1]] ELSE <<>>
  BY <1>2, <1>7, ValuesSeen
<1> HIDE DEF at, T
<1>9. p \in Nat /\ q \in [1 .. p -> at]  BY <1>7 DEF Lists
<1>10. \A k \in 1 .. l : ~ Named(op.content[k])
  <2>1. ~ Named(<<>>)  BY DEF Named
  <2> QED BY <1>4, <1>6, <1>8, <1>9, <2>1
<1> DEFINE Bad == {k \in 1 .. l : ~ CleanValue(op, k)}
<1>11. SUFFICES ASSUME Bad # {}  PROVE FALSE
  BY <1>1, <1>2, CleanByValue
<1>12. PICK k \in Bad : \A i \in Bad : k <= i
  <2>1. \A i \in 1 .. l : i \in Nat  BY <1>3
  <2>2. Bad \subseteq Nat  BY <2>1
  <2> HIDE DEF Bad
  <2>3. PICK k \in Bad : \A i \in Bad : <<i, k>> \notin Less
    BY <1>11, <2>2, LessIsWellFounded, WFMin
  <2>4. \A i \in Bad : k <= i
    <3> SUFFICES ASSUME NEW i \in Bad  PROVE k <= i
      OBVIOUS
    <3>1. k \in Nat /\ i \in Nat /\ <<i, k>> \notin Less  BY <2>2, <2>3
    <3>2. ~ (i < k)  BY <3>1 DEF Less
    <3> QED BY <3>1, <3>2
  <2> QED BY <2>4
<1>13. k \in 1 .. l /\ ~ CleanValue(op, k)  OBVIOUS
<1>14. \A i \in 1 .. k - 1 : i \in 1 .. l /\ CleanValue(op, i)
  <2> SUFFICES ASSUME NEW i \in 1 .. k - 1  PROVE i \in 1 .. l /\ CleanValue(op, i)
    OBVIOUS
  <2>1. i \in 1 .. l /\ ~ (k <= i)  BY <1>3, <1>13
  <2> QED BY <1>12, <2>1
<1> HIDE DEF Bad
<1>15. Marred(op, k)  BY <1>2, <1>10, <1>13 DEF CleanValue, Marred
<1>16. k \in Nat /\ k + 1 <= n /\ \A i \in 1 .. k : i \in Closed(parts, n)
  BY <1>1, <1>2, <1>13, <1>14, ClosedBefore
<1>17. \A i \in 0 .. k : i \in 0 .. m /\ r[i] = i  BY <1>1, <1>16, EndsAgree
<1>18. k \in 1 .. k /\ k \in 0 .. m /\ m \in Nat /\ k + 1 \in 1 .. m + 1
  <2>1. k \in 1 .. k /\ k \in 0 .. k  BY <1>3, <1>13
  <2>2. m \in Nat  BY <1>1 DEF Ends
  <2>3. k \in 0 .. m  BY <1>17, <2>1
  <2> QED BY <1>16, <2>1, <2>2, <2>3
<1>19. T[k + 1] # op.content[k]
  <2>1. \A i \in 1 .. k : i \in 0 .. m /\ r[i] = i
    <3>1. \A i \in 1 .. k : i \in 0 .. k  BY <1>16
    <3> QED BY <1>17, <3>1
  <2>2. Unescaped(SubSeq(s, off[r[(k + 1) - 1]] + 1, off[r[k + 1]] - 1)) # op.content[k]
    BY <1>1, <1>2, <1>13, <1>15, <2>1, MarredIsLost
  <2>3. T[k + 1] = Unescaped(SubSeq(s, off[r[(k + 1) - 1]] + 1, off[r[k + 1]] - 1))
    BY <1>18 DEF T, Reading
  <2> QED BY <2>2, <2>3
<1>20. ASSUME NEW i \in 1 .. k  PROVE i \in at
  <2>1. i \in 1 .. n /\ i \in 1 .. m + 1 /\ i \in 0 .. k /\ i - 1 \in 0 .. k /\ i \in 1 .. l
    BY <1>3, <1>13, <1>16, <1>18
  <2>2. r[i] = i /\ r[i - 1] = i - 1  BY <1>17, <2>1
  <2>3. i # 1 => i - 1 \in 1 .. l /\ i - 1 \in 1 .. k - 1 /\ i < n  BY <1>3, <1>16, <2>1
  <2>4. i # 1 => NoEscapedAt(op.content[i - 1])  BY <1>14, <2>3 DEF CleanValue
  <2>5. Survives(op, i, n)  BY <2>3, <2>4 DEF Survives
  <2>6. T[i] = WholeTokens(op, n)[i]  BY <2>1, <2>2, <2>5, SurvivingToken DEF T
  <2>7. ~ Named(T[i])
    <3>1. CASE i = 1
      <4>1. T[i] = op.component  BY <2>1, <2>6, <3>1 DEF WholeTokens
      <4>2. IsSeq(op.component) /\ IsName(op.component)  BY <1>1 DEF IsMount
      <4>3. /\ Len(op.component) \in Nat \ {0}
            /\ \A j \in 1 .. Len(op.component) : op.component[j] \notin Special
        BY <4>2, NameHasText
      <4>4. 1 \in 1 .. Len(op.component)  BY <4>3
      <4>5. op.component[1] # "@"  BY <4>3, <4>4 DEF Special
      <4> QED BY <4>1, <4>5 DEF Named
    <3>2. CASE i # 1
      <4>1. T[i] = op.content[i - 1]  BY <1>2, <2>1, <2>3, <2>6, <3>2 DEF WholeTokens
      <4> QED BY <1>10, <2>3, <3>2, <4>1
    <3> QED BY <3>1, <3>2
  <2> QED BY <1>6, <2>1, <2>7
<1>21. at \in SUBSET (Nat \ {0}) /\ at \in SUBSET Nat  BY <1>5
<1>22. CASE k + 1 \in at
  <2>1. \A i \in 1 .. k + 1 : i \in at
    <3>1. \A i \in 1 .. k + 1 : i \in 1 .. k \/ i = k + 1  BY <1>16
    <3> QED BY <1>20, <1>22, <3>1
  <2>2. k + 1 \in Nat /\ k + 1 \in 1 .. k + 1  BY <1>16
  <2>3. \A i \in 1 .. k + 1 : i \in 1 .. p /\ q[i] = i
    <3>1. PICK h : h = k + 1  OBVIOUS
    <3>2. h \in Nat /\ \A i \in 1 .. h : i \in at  BY <2>1, <2>2, <3>1
    <3>3. at \in SUBSET (Nat \ {0})  BY <1>21
    <3>4. \A i \in 1 .. h : i \in 1 .. p /\ q[i] = i  BY <1>7, <3>2, <3>3, ListHolds
    <3> QED BY <3>1, <3>4
  <2>4. k + 1 \in 1 .. p /\ q[k + 1] = k + 1  BY <2>2, <2>3
  <2>5. op.content[k] = T[k + 1]  BY <1>8, <1>13, <2>4
  <2> QED BY <1>19, <2>5
<1>23. CASE k + 1 \notin at
  <2>1. \A i \in 1 .. k : i \in 1 .. p /\ q[i] = i  BY <1>7, <1>16, <1>20, <1>21, ListHolds
  <2>2. k \in 1 .. p /\ q[k] = k  BY <1>18, <2>1
  <2>3. op.content[k] # <<>>
    <3>1. IsSeq(op.content[k])  BY <1>1, <1>2, <1>13 DEF IsMount
    <3>2. ASSUME op.content[k] = <<>>  PROVE FALSE
      <4>1. ~ EndsWith(op.content[k], IF k = Len(op.content) /\ op.parent = NoParent THEN " " ELSE "\\")
        BY <3>2 DEF EndsWith
      <4>2. Len(op.content[k]) = 0
        <5>1. Len(<<>>) = 0  OBVIOUS
        <5> QED BY <3>2, <5>1
      <4>3. NoEscapedAt(op.content[k])
        <5>1. \A i \in 1 .. 0 - 1 : FALSE  OBVIOUS
        <5> QED BY <4>2, <5>1 DEF NoEscapedAt
      <4> QED BY <1>15, <4>1, <4>3 DEF Marred
    <3> QED BY <3>2
  <2> DEFINE Live == {i \in 1 .. l : op.content[i] # <<>>}  j == Max(Live)
  <2>4. Live # {} /\ Live \in SUBSET (1 .. l) /\ k \in Live  BY <1>13, <2>3
  <2>5. j \in Live /\ \A i \in Live : i <= j
    <3> HIDE DEF Live
    <3> QED BY <1>3, <2>4, MaxOfPositions
  <2> HIDE DEF j
  <2>6. j \in 1 .. l /\ op.content[j] # <<>> /\ k <= j  BY <2>4, <2>5
  <2>7. \A i \in 1 .. l : j < i => op.content[i] = <<>>
    <3> SUFFICES ASSUME NEW i \in 1 .. l, j < i, op.content[i] # <<>>  PROVE FALSE
      OBVIOUS
    <3>1. i <= j  BY <2>5
    <3> QED BY <1>3, <2>6, <3>1
  <2> HIDE DEF Live
  <2>8. j + 1 \in 1 .. p /\ op.content[j] = T[q[j + 1]]  BY <1>8, <2>6
  <2>9. k + 1 \in 1 .. p /\ k + 1 <= j + 1
    BY <1>9, <1>13, <1>16, <2>6, <2>8
  <2>10. k + 1 < q[k + 1]
    <3>1. k < k + 1 /\ \A i, h \in 1 .. p : i < h => q[i] < q[h]  BY <1>7, <1>16 DEF Lists
    <3>2. q[k] < q[k + 1]  BY <2>2, <2>9, <3>1
    <3>3. q[k + 1] \in at  BY <1>9, <2>9
    <3>4. q[k + 1] \in Nat /\ q[k + 1] # k + 1  BY <1>5, <1>23, <3>3
    <3>5. k < q[k + 1]  BY <2>2, <3>2
    <3> QED BY <1>16, <3>4, <3>5
  <2>11. j + 1 < q[j + 1]
    <3>1. \A i \in 1 .. p : k + 1 <= i => i < q[i]
      BY <1>7, <1>21, <2>9, <2>10, ListSkips
    <3> QED BY <2>8, <2>9, <3>1
  <2>12. q[j + 1] \in at  BY <1>9, <2>8
  <2>13. q[j + 1] \in 1 .. m + 1 /\ j + 2 <= q[j + 1]
    <3>1. q[j + 1] \in 1 .. m + 1 /\ q[j + 1] \in Nat  BY <1>4, <1>5, <2>12
    <3> QED BY <1>3, <2>6, <2>11, <3>1
  <2>14. T[q[j + 1]] = <<>> \/ Named(T[q[j + 1]])
    <3> DEFINE h == q[j + 1]
    <3>1. j \in 1 .. Len(op.content) /\ \A i \in 1 .. Len(op.content) : j < i => op.content[i] = <<>>
      BY <1>2, <2>6, <2>7
    <3>2. h \in 1 .. m + 1 /\ j + 2 <= h  BY <2>13
    <3> HIDE DEF h
    <3>3. Tokens(s)[h] = <<>> \/ Named(Tokens(s)[h])  BY <3>1, <3>2, EmptyAfter
    <3> QED BY <3>3 DEF h, T
  <2>15. ~ Named(T[q[j + 1]])  BY <1>6, <2>12, <2>13
  <2> QED BY <2>6, <2>8, <2>14, <2>15
<1> QED BY <1>22, <1>23

\* So a MOUNT arrives as it was meant exactly if its values are clean.
LEMMA MountArrives ==
  ASSUME NEW op, IsMount(op)
  PROVE  /\ Clean(op) => ParseLine(Serialize(op), Schemas) = Meant(op)
         /\ Labelled(op) /\ ParseLine(Serialize(op), Schemas) = Meant(op) => Clean(op)
<1>1. Clean(op) => ParseLine(Serialize(op), Schemas) = Meant(op)  BY CleanMountArrives
<1>2. ASSUME Labelled(op), ParseLine(Serialize(op), Schemas) = Meant(op)
      PROVE  Clean(op)
  <2> DEFINE line == Serialize(op)
  <2>1. PICK parts, off, n : n \in Nat \ {0} /\ Wired(op, TrimEnd(line.rest), parts, off, n)
    BY MountIsWired
  <2>2. op.type = "+"  BY DEF IsMount
  <2>3. line.type = "+"  BY <2>2 DEF Serialize
  <2>4. Meant(op).fields = ResolveFields(op.content, SchemaFor(Schemas, op.component))
    BY <2>2 DEF Meant
  <2> HIDE DEF line
  <2>5. ParseMount(line, Schemas).fields
          = ResolveFields(op.content, SchemaFor(Schemas, op.component))
    <3>1. ParseLine(line, Schemas) = ParseMount(line, Schemas)  BY <2>3 DEF ParseLine
    <3>2. ParseLine(line, Schemas) = Meant(op)  BY <1>2 DEF line
    <3> QED BY <2>4, <3>1, <3>2
  <2> DEFINE s == TrimEnd(line.rest)
  <2>6. Wired(op, s, parts, off, n) /\ s = TrimEnd(line.rest)  BY <2>1
  <2> HIDE DEF s
  <2>7. PICK m, r : /\ Ends(r, m, parts, n)
                    /\ Tokens(s) = [k \in 1 .. m + 1 |->
                         Unescaped(SubSeq(s, off[r[k - 1]] + 1, off[r[k]] - 1))]
    <3>1. Joined(s, parts, off, n) /\ \A i \in 1 .. n : IsSeq(parts[i]) /\ Guarded(parts[i])
      BY <2>6 DEF Wired
    <3> QED BY <2>1, <3>1, TokensFollow
  <2>8. Reading(op, s, parts, off, n, m, r)  BY <2>1, <2>6, <2>7 DEF Reading
  <2> QED BY <1>2, <2>5, <2>6, <2>8, UncleanIsSeen
<1> QED BY <1>1, <1>2

-----------------------------------------------------------------------------
(***************************************************************************)
(* The lines of an UPDATE and of a directive.                              *)
(***************************************************************************)

\* An escape is the value itself exactly if there was nothing to escape.
LEMMA EscapeChanges ==
  ASSUME NEW v, IsSeq(v)
  PROVE  Escape(v) = v <=> \A i \in 1 .. Len(v) : ~ Marked(v, i)
<1> DEFINE e == Escape(v)
<1>1. PICK pos : Spread(pos, v, e)  BY EscapeSpreads
<1> HIDE DEF e
<1>2. PICK l, z : l = Len(v) /\ z = Len(e)  OBVIOUS
<1>3. /\ l \in Nat /\ Rises(pos, l) /\ z \in Nat /\ IsSeq(e)
      /\ \A i \in 1 .. l : pos[i] \in 1 .. z
      /\ \A p \in 1 .. z : \E i \in 1 .. l : p = pos[i] \/ Marked(v, i)
  BY <1>1, <1>2, SpreadCovers
<1>4. /\ pos \in [0 .. l -> Nat] /\ pos[l] = z
      /\ \A i \in 1 .. l : e[pos[i]] = v[i] /\ (Marked(v, i) => pos[i] = pos[i - 1] + 2)
  BY <1>1, <1>2 DEF Spread
<1>5. (\A i, j \in 0 .. l : i < j => pos[i] < pos[j]) /\ \A i \in 0 .. l : i <= pos[i]
  BY <1>3, RisesInOrder, RisesAbove
<1> DEFINE q == [i \in 1 .. l |-> pos[i]]  at == {pos[i] : i \in 1 .. l}
<1>6. Lists(q, l, at) /\ at \in SUBSET (Nat \ {0}) /\ at \in SUBSET Nat
  <2>1. q \in [1 .. l -> at]  OBVIOUS
  <2>2. \A i, j \in 1 .. l : i < j => q[i] < q[j]
    <3>1. \A i \in 1 .. l : i \in 0 .. l /\ q[i] = pos[i]  BY <1>3
    <3> QED BY <1>5, <3>1
  <2>3. \A p \in at : \E i \in 1 .. l : q[i] = p  OBVIOUS
  <2>4. \A p \in 1 .. z : p \in Nat \ {0} /\ p \in Nat  BY <1>3
  <2>5. at \in SUBSET (Nat \ {0}) /\ at \in SUBSET Nat  BY <1>3, <2>4
  <2> HIDE DEF q, at
  <2> QED BY <1>3, <2>1, <2>2, <2>3, <2>5 DEF Lists
<1>7. \A i \in 1 .. l : q[i] = pos[i]  OBVIOUS
<1>8. ASSUME \A i \in 1 .. l : ~ Marked(v, i)  PROVE e = v
  <2>1. \A p \in 1 .. z : p \in at  BY <1>3, <1>8
  <2> HIDE DEF q, at
  <2>2. \A p \in 1 .. z : p \in 1 .. l /\ q[p] = p  BY <1>3, <1>6, <2>1, ListHolds
  <2>3. z <= l
    <3>1. z # 0 => z \in 1 .. z  BY <1>3
    <3> QED BY <1>3, <2>2, <3>1
  <2>4. l <= z
    <3>1. l \in 0 .. l  BY <1>3
    <3> QED BY <1>4, <1>5, <3>1
  <2>5. l = z  BY <1>3, <2>3, <2>4
  <2>6. \A p \in 1 .. l : e[p] = v[p]  BY <1>4, <1>7, <2>2, <2>5
  <2> QED BY <1>2, <1>3, <2>5, <2>6, SameText
<1>9. ASSUME e = v, NEW i \in 1 .. l, Marked(v, i)  PROVE FALSE
  <2>1. l = z  BY <1>2, <1>9
  <2>2. i < q[i]
    <3>1. i - 1 \in 0 .. l /\ i \in Nat  BY <1>3
    <3>2. pos[i - 1] \in Nat /\ i - 1 <= pos[i - 1]  BY <1>4, <1>5, <3>1
    <3>3. pos[i] = pos[i - 1] + 2  BY <1>4, <1>9
    <3>4. i < pos[i]  BY <3>1, <3>2, <3>3
    <3> QED BY <1>7, <3>4
  <2> HIDE DEF q, at
  <2>3. \A j \in 1 .. l : i <= j => j < q[j]  BY <1>6, <2>2, ListSkips
  <2>4. l \in 1 .. l /\ i <= l  BY <1>3
  <2>5. l < q[l] /\ q[l] = pos[l]  BY <1>7, <2>3, <2>4
  <2> QED BY <1>3, <1>4, <2>1, <2>5
<1> QED BY <1>2, <1>8, <1>9 DEF e

LEMMA TrimTrims ==
  ASSUME NEW s, IsSeq(s)
  PROVE  Trimmed(TrimEnd(s), s) /\ \A i \in 1 .. Len(s) : s[i] # " " => i <= Len(TrimEnd(s))
<1>1. PICK m \in 0 .. Len(s) :
        /\ TrimEnd(s) = SubSeq(s, 0 + 1, m)
        /\ m # 0 => s[m] # " "
        /\ \A i \in 1 .. Len(s) : s[i] # " " => i <= m
  BY TrimStops
<1>2. PICK l : l = Len(s)  OBVIOUS
<1>3. l \in Nat /\ m \in 0 .. l /\ m \in Nat /\ m <= l  BY <1>2, ListHasLength
<1> DEFINE u == SubSeq(s, 0 + 1, m)
<1>4. IsSeq(u) /\ Len(u) = m /\ \A i \in 1 .. m : u[i] = s[i]
  <2>1. 0 \in Nat /\ m \in Nat /\ 0 <= m /\ m <= Len(s)  BY <1>2, <1>3
  <2>2. IsSeq(u) /\ Len(u) = m - 0 /\ \A i \in 1 .. m - 0 : u[i] = s[0 + i]
    BY <2>1, CutOut
  <2>3. m - 0 = m /\ \A i \in 1 .. m : 0 + i = i  BY <1>3
  <2> QED BY <2>2, <2>3
<1>5. u = TrimEnd(s)  BY <1>1
<1> HIDE DEF u
<1>6. m # 0 => m \in 1 .. m  BY <1>3
<1>7. u # <<>> => m # 0  BY <1>4, TailIsSeq
<1>8. ~ EndsWith(u, " ")  BY <1>1, <1>4, <1>6, <1>7 DEF EndsWith, Last
<1>9. l # 0 => l \in 1 .. l  BY <1>3
<1>10. s # <<>> <=> l # 0
  <2>1. s = <<>> => Len(s) = 0  OBVIOUS
  <2>2. s # <<>> => Len(s) \in Nat \ {0}  BY TailIsSeq
  <2> QED BY <1>2, <2>1, <2>2
<1>11. ~ EndsWith(s, " ") /\ l # 0 => l <= m
  BY <1>1, <1>2, <1>9, <1>10 DEF EndsWith, Last
<1>12. l <= m => u = s
  <2> SUFFICES ASSUME l <= m  PROVE u = s
    OBVIOUS
  <2>1. l = m  BY <1>3
  <2>2. Len(u) = Len(s) /\ \A i \in 1 .. Len(u) : u[i] = s[i]  BY <1>2, <1>4, <2>1
  <2> QED BY <1>4, <2>2, SameText
<1>13. l = 0 => l <= m  BY <1>3
<1>14. Len(u) <= Len(s)  BY <1>2, <1>3, <1>4
<1>15. Trimmed(u, s)  BY <1>4, <1>8, <1>11, <1>12, <1>13, <1>14 DEF Trimmed
<1> QED BY <1>1, <1>4, <1>5, <1>15

\* What Clean says of the value of an UPDATE or a directive.
CleanText(v) == ~ Contains(v, "|") /\ ~ EndsWith(v, " ") /\ (v # <<>> => v[1] # "@")

LEMMA CleanTextIsPlain ==
  ASSUME NEW v, IsSeq(v)
  PROVE  CleanText(v) <=> ~ EndsWith(v, " ") /\ Escape(v) = v
<1>1. v # <<>> <=> 1 \in 1 .. Len(v)
  <2>1. v = <<>> => Len(v) = 0 /\ 1 \notin 1 .. 0  OBVIOUS
  <2>2. v # <<>> => Len(v) \in Nat \ {0}  BY TailIsSeq
  <2>3. \A l \in Nat \ {0} : 1 \in 1 .. l  OBVIOUS
  <2> QED BY <2>1, <2>2, <2>3
<1>2. (\A i \in 1 .. Len(v) : ~ Marked(v, i)) <=> ~ Contains(v, "|") /\ (v # <<>> => v[1] # "@")
  BY <1>1 DEF Marked, Contains
<1> QED BY <1>2, EscapeChanges DEF CleanText

LEMMA UpdateArrives ==
  ASSUME NEW v, IsSeq(v)
  PROVE  TrimEnd(Escape(v)) = v <=> CleanText(v)
<1>1. IsSeq(Escape(v)) /\ (EndsWith(Escape(v), " ") <=> EndsWith(v, " "))  BY EscapeGuards
<1>2. Trimmed(TrimEnd(Escape(v)), Escape(v))  BY <1>1, TrimTrims
<1>3. /\ ~ EndsWith(TrimEnd(Escape(v)), " ")
      /\ ~ EndsWith(Escape(v), " ") => TrimEnd(Escape(v)) = Escape(v)
  BY <1>2 DEF Trimmed
<1> QED BY <1>1, <1>3, CleanTextIsPlain

\* The key that every directive is written with.
ReasonIs == <<"reason", "=">>

LEMMA ReasonIsSeq ==
  IsSeq(ReasonIs) /\ Len(ReasonIs) = 2 /\ ReasonIs[1] = "reason" /\ ReasonIs[2] = "="
<1> DEFINE u == <<"reason", "=">>
<1>1. Len(u) = 2 /\ u[1] = "reason" /\ u[2] = "="  OBVIOUS
<1>2. u = [i \in 1 .. 2 |-> u[i]]  OBVIOUS
<1> HIDE DEF u
<1>3. IsSeq(u)
  <2>1. PICK n : n = 2  OBVIOUS
  <2>2. n \in Nat /\ u = [i \in 1 .. n |-> u[i]]  BY <1>2, <2>1
  <2> QED BY <2>2, FunctionIsSeq
<1> QED BY <1>1, <1>3 DEF u, ReasonIs

\* A text without pipes is one part.
LEMMA GuessTakesAll ==
  ASSUME NEW s, IsSeq(s), ~ Contains(s, "|")
  PROVE  GuessComponent(s) = s
<1>1. PICK l : l = Len(s)  OBVIOUS
<1>2. l \in Nat /\ DOMAIN s = 1 .. l  BY <1>1, ListHasLength
<1>3. {i \in DOMAIN s : s[i] = "|"} = {}  BY <1>1, <1>2 DEF Contains
<1>4. Min({l + 1}) = l + 1
  <2>1. l + 1 <= l + 1  BY <1>2
  <2> QED BY <2>1 DEF Min
<1>5. (l + 1) - 1 = l /\ 0 + 1 = 1  BY <1>2
<1>6. {i \in DOMAIN s : s[i] = "|"} \cup {Len(s) + 1} = {l + 1}  BY <1>1, <1>3
<1>7. GuessComponent(s) = SubSeq(s, 0 + 1, l)  BY <1>4, <1>5, <1>6 DEF GuessComponent
<1> DEFINE u == SubSeq(s, 0 + 1, l)
<1>8. IsSeq(u) /\ Len(u) = l /\ \A i \in 1 .. l : u[i] = s[i]
  <2>1. 0 \in Nat /\ l \in Nat /\ 0 <= l /\ l <= Len(s)  BY <1>1, <1>2
  <2>2. IsSeq(u) /\ Len(u) = l - 0 /\ \A i \in 1 .. l - 0 : u[i] = s[0 + i]
    BY <2>1, CutOut
  <2>3. l - 0 = l /\ \A i \in 1 .. l : 0 + i = i  BY <1>2
  <2> QED BY <2>2, <2>3
<1> HIDE DEF u
<1>9. u = s  BY <1>1, <1>8, SameText
<1> QED BY <1>7, <1>9 DEF u

LEMMA DirectiveArrives ==
  ASSUME NEW v, IsSeq(v), NEW line, line.rest = ReasonIs \o Escape(v)
  PROVE  ParseParams(line) = [type |-> "!", value |-> v, more |-> FALSE] <=> CleanText(v)
<1> DEFINE e == Escape(v)  full == ReasonIs \o e  rest == TrimEnd(full)
<1>1. IsSeq(e) /\ (EndsWith(e, " ") <=> EndsWith(v, " ")) /\ (e = <<>> <=> v = <<>>)
  BY EscapeGuards
<1>2. CleanText(v) <=> ~ EndsWith(v, " ") /\ e = v  BY CleanTextIsPlain
<1>3. rest = TrimEnd(line.rest)  OBVIOUS
<1> HIDE DEF e
<1>4. PICK h : h = Len(e)  OBVIOUS
<1>5. h \in Nat /\ (e # <<>> <=> h # 0)
  <2>1. e = <<>> => Len(e) = 0  OBVIOUS
  <2>2. e # <<>> => Len(e) \in Nat \ {0}  BY <1>1, TailIsSeq
  <2>3. Len(e) \in Nat  BY <1>1, ListHasLength
  <2> QED BY <1>4, <2>1, <2>2, <2>3
<1>6. /\ IsSeq(full) /\ Len(full) = 2 + h
      /\ full[1] = "reason" /\ full[2] = "="
      /\ \A i \in 1 .. h : full[2 + i] = e[i]
  <2>1. IsSeq(ReasonIs) /\ IsSeq(e)  BY <1>1, ReasonIsSeq
  <2>2. /\ IsSeq(full) /\ Len(full) = Len(ReasonIs) + Len(e)
        /\ \A i \in 1 .. Len(ReasonIs) : full[i] = ReasonIs[i]
        /\ \A i \in 1 .. Len(e) : full[Len(ReasonIs) + i] = e[i]
    BY <2>1, ConcatIsSeq
  <2> HIDE DEF full
  <2>3. 1 \in 1 .. 2 /\ 2 \in 1 .. 2  OBVIOUS
  <2> QED BY <1>4, <2>2, <2>3, ReasonIsSeq
<1> HIDE DEF full
<1>7. Trimmed(rest, full) /\ \A i \in 1 .. Len(full) : full[i] # " " => i <= Len(rest)
  BY <1>6, TrimTrims
<1> HIDE DEF rest
<1>8. PICK z : z = Len(rest)  OBVIOUS
<1>9. 2 \in 1 .. 2 + h /\ 1 \in 1 .. 2 + h  BY <1>5
<1>10. IsSeq(rest) /\ z \in Nat /\ 2 <= z /\ z <= 2 + h /\ \A i \in 1 .. z : rest[i] = full[i]
  <2>1. IsSeq(rest) /\ z <= 2 + h /\ \A i \in 1 .. z : rest[i] = full[i]
    BY <1>6, <1>7, <1>8 DEF Trimmed
  <2>2. z \in Nat  BY <1>8, <2>1, ListHasLength
  <2>3. full[2] # " "  BY <1>6
  <2>4. 2 \in 1 .. Len(full)  BY <1>6, <1>9
  <2>5. 2 <= z  BY <1>7, <1>8, <2>3, <2>4
  <2> QED BY <2>1, <2>2, <2>5
<1>11. 1 \in 1 .. z /\ 2 \in 1 .. z /\ DOMAIN rest = 1 .. z
  <2>1. 1 \in 1 .. z /\ 2 \in 1 .. z  BY <1>10
  <2> QED BY <1>8, <1>10, <2>1, ListHasLength
<1>12. rest[1] = "reason" /\ rest[2] = "="  BY <1>6, <1>10, <1>11
<1>13. Equals(rest) = 2
  <2> DEFINE all == {i \in DOMAIN rest : rest[i] = "="}
  <2>1. 2 \in all  BY <1>11, <1>12
  <2>2. \A i \in all : i \in Nat /\ 2 <= i
    <3> SUFFICES ASSUME NEW i \in all  PROVE i \in Nat /\ 2 <= i
      OBVIOUS
    <3>1. i \in 1 .. z /\ i # 1  BY <1>11, <1>12
    <3> QED BY <1>10, <3>1
  <2> HIDE DEF all
  <2>3. \A j \in all : (\A i \in all : j <= i) => j = 2
    <3> SUFFICES ASSUME NEW j \in all, \A i \in all : j <= i  PROVE j = 2
      OBVIOUS
    <3>1. j \in Nat /\ 2 <= j /\ j <= 2  BY <2>1, <2>2
    <3> QED BY <3>1
  <2>4. Min(all) = 2  BY <2>1, <2>2, <2>3 DEF Min
  <2> QED BY <2>4 DEF Equals, all
<1> DEFINE value == SubSeq(rest, 2 + 1, z)
<1>14. IsSeq(value) /\ Len(value) = z - 2 /\ \A i \in 1 .. z - 2 : value[i] = rest[2 + i]
  <2>1. PICK t \in Nat : t = 2  OBVIOUS
  <2>2. IsSeq(rest) /\ t \in Nat /\ z \in Nat /\ t <= z /\ z <= Len(rest)  BY <1>8, <1>10, <2>1
  <2>3. /\ IsSeq(SubSeq(rest, t + 1, z)) /\ Len(SubSeq(rest, t + 1, z)) = z - t
        /\ \A i \in 1 .. z - t : SubSeq(rest, t + 1, z)[i] = rest[t + i]
    BY <2>2, CutOut
  <2> QED BY <2>1, <2>3
<1>15. ~ Contains(rest, "|") =>
         ParseParams(line) = [type |-> "!", value |-> value, more |-> FALSE]
  <2> SUFFICES ASSUME ~ Contains(rest, "|")
               PROVE  ParseParams(line) = [type |-> "!", value |-> value, more |-> FALSE]
    OBVIOUS
  <2>1. GuessComponent(rest) = rest  BY <1>10, GuessTakesAll
  <2>2. Contains(rest, "|") = FALSE  BY DEF Contains
  <2>3. value = SubSeq(rest, 2 + 1, Len(rest))  BY <1>8
  <2> HIDE DEF value
  <2>4. ParseParams(line) = [type |-> "!", value |-> SubSeq(rest, 2 + 1, Len(rest)),
                             more |-> Contains(rest, "|")]
    BY <1>3, <1>13, <2>1 DEF ParseParams
  <2> QED BY <2>2, <2>3, <2>4
<1>16. Contains(rest, "|") => ParseParams(line).more = TRUE
  BY <1>3 DEF ParseParams
<1> HIDE DEF value
<1>17. EndsWith(full, " ") <=> EndsWith(v, " ")
  <2>1. full # <<>>
    <3>1. full = <<>> => Len(full) = 0  OBVIOUS
    <3>2. 2 + h # 0  BY <1>5
    <3> QED BY <1>6, <3>1, <3>2
  <2>2. h # 0 => full[2 + h] = e[h]
    <3>1. h # 0 => h \in 1 .. h  BY <1>5
    <3> QED BY <1>6, <3>1
  <2>3. h = 0 => full[2 + h] = "="  BY <1>6
  <2> QED BY <1>1, <1>4, <1>5, <1>6, <2>1, <2>2, <2>3 DEF EndsWith, Last
<1>18. ~ EndsWith(v, " ") => z = 2 + h
  BY <1>6, <1>7, <1>8, <1>17 DEF Trimmed
<1>19. z = 2 + h => value = e
  <2> SUFFICES ASSUME z = 2 + h  PROVE value = e
    OBVIOUS
  <2>1. z - 2 = h /\ \A i \in 1 .. h : 2 + i \in 1 .. z  BY <1>5
  <2>2. Len(value) = Len(e) /\ \A i \in 1 .. Len(value) : value[i] = e[i]
    <3>1. Len(value) = h  BY <1>14, <2>1
    <3>2. \A i \in 1 .. h : value[i] = rest[2 + i]  BY <1>14, <2>1
    <3>3. \A i \in 1 .. h : rest[2 + i] = e[i]  BY <1>6, <1>10, <2>1
    <3> QED BY <1>4, <3>1, <3>2, <3>3
  <2> QED BY <1>1, <1>14, <2>2, SameText
<1>20. ASSUME CleanText(v)
       PROVE  ParseParams(line) = [type |-> "!", value |-> v, more |-> FALSE]
  <2>1. ~ EndsWith(v, " ") /\ e = v /\ ~ Contains(v, "|")  BY <1>2, <1>20 DEF CleanText
  <2>2. z = 2 + h /\ value = v  BY <1>18, <1>19, <2>1
  <2>3. ~ Contains(rest, "|")
    <3> SUFFICES ASSUME NEW i \in 1 .. z, rest[i] = "|"  PROVE FALSE
      BY <1>8 DEF Contains
    <3>1. i # 1 /\ i # 2  BY <1>12
    <3>2. i - 2 \in 1 .. h /\ 2 + (i - 2) = i  BY <1>5, <2>2, <3>1
    <3>3. rest[i] = v[i - 2]  BY <1>6, <1>10, <2>1, <3>2
    <3> QED BY <1>4, <2>1, <3>2, <3>3 DEF Contains
  <2> QED BY <1>15, <2>2, <2>3
<1>21. rest # <<>> /\ 2 + (z - 2) = z
  <2>1. rest = <<>> => Len(rest) = 0  OBVIOUS
  <2>2. z # 0 /\ 2 + (z - 2) = z  BY <1>10
  <2> QED BY <1>8, <2>1, <2>2
<1>22. ASSUME ParseParams(line) = [type |-> "!", value |-> v, more |-> FALSE]
       PROVE  CleanText(v)
  <2>1. ~ Contains(rest, "|")  BY <1>16, <1>22
  <2>2. value = v  BY <1>15, <1>22, <2>1
  <2>3. ~ EndsWith(v, " ")
    <3> SUFFICES ASSUME EndsWith(v, " ")  PROVE FALSE
      OBVIOUS
    <3>1. v # <<>> /\ v[Len(v)] = " "  BY DEF EndsWith, Last
    <3>2. Len(v) \in 1 .. Len(v)  BY <3>1, LastIsThere
    <3>3. rest[2 + Len(v)] = " " /\ Len(v) = z - 2  BY <1>14, <2>2, <3>1, <3>2
    <3>4. rest[z] = " "  BY <1>21, <3>3
    <3> QED BY <1>7, <1>8, <1>21, <3>4 DEF Trimmed, EndsWith, Last
  <2>4. e = v  BY <1>18, <1>19, <2>2, <2>3
  <2> QED BY <1>2, <2>3, <2>4
<1> QED BY <1>20, <1>22

-----------------------------------------------------------------------------
(***************************************************************************)
(* What arrives of any operation, and in every state.                      *)
(***************************************************************************)

\* Every operation arrives as it was meant if its values are clean, and where
\* they have their labels, only then.
THEOREM LineArrives ==
  ASSUME NEW content \in Content \union Odd, NEW op \in Operation(content)
  PROVE  /\ Clean(op) => ParseLine(Serialize(op), Schemas) = Meant(op)
         /\ Labelled(op) /\ ParseLine(Serialize(op), Schemas) = Meant(op) => Clean(op)
<1> DEFINE line == Serialize(op)  parsed == ParseLine(line, Schemas)
<1>1. IsSeq(content) /\ \A i \in DOMAIN content : IsSeq(content[i])  BY ContentAssumption
<1>2. Len(content) \in Nat /\ DOMAIN content = 1 .. Len(content)  BY <1>1, ListHasLength
<1>3. CASE op.type = "+"
  <2>1. IsMount(op)  BY <1>3, MountIsMount
  <2> QED BY <2>1, MountArrives
<1>4. CASE op.type = "~"
  <2>1. op.content = content /\ Len(content) = 1  BY <1>4 DEF Operation
  <2> DEFINE v == op.content[1]
  <2>2. IsSeq(v)
    <3>1. 1 \in 1 .. 1  OBVIOUS
    <3> QED BY <1>1, <1>2, <2>1, <3>1
  <2>3. line = [type |-> "~", id |-> op.id, field |-> op.field, rest |-> Escape(v)]
    BY <1>4 DEF Serialize
  <2>4. Meant(op) = [type |-> "~", id |-> op.id, field |-> op.field, value |-> v]
    BY <1>4 DEF Meant
  <2>5. Clean(op) <=> CleanText(v)  BY <1>4 DEF Clean, CleanText
  <2> HIDE DEF line, v
  <2>6. parsed = [type |-> "~", id |-> op.id, field |-> op.field, value |-> TrimEnd(Escape(v))]
    BY <2>3 DEF ParseLine, ParseUpdate
  <2>7. TrimEnd(Escape(v)) = v <=> CleanText(v)  BY <2>2, UpdateArrives
  <2> HIDE DEF parsed
  <2>8. parsed = Meant(op) <=> Clean(op)
    <3>1. parsed = Meant(op) => parsed.value = Meant(op).value  OBVIOUS
    <3> QED BY <2>4, <2>5, <2>6, <2>7, <3>1
  <2> QED BY <2>8 DEF parsed, line
<1>5. CASE op.type = "-"
  <2>1. op = [type |-> "-", id |-> op.id]  BY <1>5 DEF Operation
  <2>2. line.type = "-" /\ line.id = op.id  BY <1>5 DEF Serialize
  <2>3. Meant(op) = op /\ Clean(op) = TRUE  BY <1>5 DEF Meant, Clean
  <2> HIDE DEF line
  <2>4. parsed = [type |-> "-", id |-> op.id]  BY <2>2 DEF ParseLine
  <2> QED BY <2>1, <2>3, <2>4 DEF line
<1>6. CASE op.type = "!"
  <2>1. op.content = content /\ Len(content) = 1  BY <1>6 DEF Operation
  <2> DEFINE v == op.content[1]
  <2>2. IsSeq(v)
    <3>1. 1 \in 1 .. 1  OBVIOUS
    <3> QED BY <1>1, <1>2, <2>1, <3>1
  <2>3. line.type = "!" /\ line.rest = ReasonIs \o Escape(v)
    BY <1>6 DEF Serialize, ReasonIs
  <2>4. Meant(op) = [type |-> "!", value |-> v, more |-> FALSE]  BY <1>6 DEF Meant
  <2>5. Clean(op) <=> CleanText(v)  BY <1>6 DEF Clean, CleanText
  <2> HIDE DEF line, v
  <2>6. parsed = ParseParams(line)  BY <2>3 DEF ParseLine
  <2>7. ParseParams(line) = [type |-> "!", value |-> v, more |-> FALSE] <=> CleanText(v)
    BY <2>2, <2>3, DirectiveArrives
  <2> QED BY <2>4, <2>5, <2>6, <2>7 DEF line
<1>7. op.type \in {"+", "~", "-", "!"}  BY DEF Operation
<1> QED BY <1>3, <1>4, <1>5, <1>6, <1>7

\* What an engine holds was parsed from the line of an operation.
LinesAreParsed ==
  /\ DOMAIN stage = Engine /\ DOMAIN sent = Engine /\ DOMAIN got = Engine
  /\ \A e \in Engine :
       stage[e] # "idle" =>
         \E content \in Content \union Odd :
           /\ sent[e] \in Operation(content)
           /\ got[e] = ParseLine(Serialize(sent[e]), Schemas)

LEMMA ParsedStays == LinesAreParsed /\ [Next]_vars => LinesAreParsed'
<1> SUFFICES ASSUME LinesAreParsed, [Next]_vars  PROVE LinesAreParsed'
  OBVIOUS
<1>1. ASSUME NEW e \in Engine, Receive(e)  PROVE LinesAreParsed'
  <2>0. PICK content \in Content \union Odd :
          \E op \in Operation(content) :
            /\ sent' = [sent EXCEPT ![e] = op]
            /\ got' = [got EXCEPT ![e] = ParseLine(Serialize(op), Schemas)]
    BY <1>1 DEF Receive
  <2>1. PICK op \in Operation(content) :
          /\ sent' = [sent EXCEPT ![e] = op]
          /\ got' = [got EXCEPT ![e] = ParseLine(Serialize(op), Schemas)]
    BY <2>0
  <2>2. stage' = [stage EXCEPT ![e] = "parsed"]  BY <1>1 DEF Receive
  <2> DEFINE parsed == ParseLine(Serialize(op), Schemas)
  <2>3. got' = [got EXCEPT ![e] = parsed]  BY <2>1
  <2> HIDE DEF parsed
  <2>4. DOMAIN stage' = Engine /\ DOMAIN sent' = Engine /\ DOMAIN got' = Engine
    BY <2>1, <2>2, <2>3 DEF LinesAreParsed
  <2>5. sent'[e] = op /\ got'[e] = parsed  BY <2>1, <2>3 DEF LinesAreParsed
  <2>6. ASSUME NEW f \in Engine, f # e
        PROVE  stage'[f] = stage[f] /\ sent'[f] = sent[f] /\ got'[f] = got[f]
    BY <2>1, <2>2, <2>3, <2>6 DEF LinesAreParsed
  <2>7. ASSUME NEW f \in Engine, stage'[f] # "idle"
        PROVE  \E c \in Content \union Odd :
                 /\ sent'[f] \in Operation(c)
                 /\ got'[f] = ParseLine(Serialize(sent'[f]), Schemas)
    <3>1. CASE f = e
      BY <2>5, <3>1 DEF parsed
    <3>2. CASE f # e
      BY <2>6, <2>7, <3>2 DEF LinesAreParsed
    <3> QED BY <3>1, <3>2
  <2> QED BY <2>4, <2>7 DEF LinesAreParsed
<1>2. ASSUME NEW e \in Engine, Drop(e)  PROVE LinesAreParsed'
  <2>1. /\ stage' = [stage EXCEPT ![e] = "idle"]
        /\ sent' = [sent EXCEPT ![e] = Nothing]
        /\ got' = [got EXCEPT ![e] = Nothing]
    BY <1>2 DEF Drop
  <2>2. DOMAIN stage' = Engine /\ DOMAIN sent' = Engine /\ DOMAIN got' = Engine
    BY <2>1 DEF LinesAreParsed
  <2>3. stage'[e] = "idle"  BY <2>1 DEF LinesAreParsed
  <2>4. ASSUME NEW f \in Engine, f # e
        PROVE  stage'[f] = stage[f] /\ sent'[f] = sent[f] /\ got'[f] = got[f]
    BY <2>1, <2>4 DEF LinesAreParsed
  <2> QED BY <2>2, <2>3, <2>4 DEF LinesAreParsed
<1>3. ASSUME NEW e \in Engine, Validate(e)  PROVE LinesAreParsed'
  <2>1. CASE Valid(got[e], Index(tree), Schemas)
    <3>1. stage[e] = "parsed" /\ stage' = [stage EXCEPT ![e] = "valid"] /\ UNCHANGED <<sent, got>>
      BY <1>3, <2>1 DEF Validate
    <3>2. \A f \in Engine : stage'[f] # "idle" => stage[f] # "idle"
      BY <3>1 DEF LinesAreParsed
    <3>3. DOMAIN stage' = Engine  BY <3>1 DEF LinesAreParsed
    <3> QED BY <3>1, <3>2, <3>3 DEF LinesAreParsed
  <2>2. CASE ~ Valid(got[e], Index(tree), Schemas)
    <3>1. Drop(e)  BY <1>3, <2>2 DEF Validate
    <3> QED BY <1>2, <3>1
  <2> QED BY <2>1, <2>2
<1>4. ASSUME NEW e \in Engine, ApplyAndLog(e)  PROVE LinesAreParsed'
  <2>1. Drop(e)  BY <1>4 DEF ApplyAndLog
  <2> QED BY <1>2, <2>1
<1>5. CASE LogNote
  BY <1>5 DEF LogNote, engineVars, LinesAreParsed
<1>6. CASE UNCHANGED vars
  BY <1>6 DEF vars, engineVars, LinesAreParsed
<1> QED BY <1>1, <1>3, <1>4, <1>5, <1>6 DEF Next

\* An operation arrives as it was meant exactly if its values are clean (where
\* each has its label): RoundTripIfClean, in every state.  The serializer
\* escapes pipes and a first @ and the tokenizer undoes both, but it takes a
\* backslash of the value before an @ or before the next pipe for an escape
\* too, reads @key= as a parameter, and the line is trimmed
\* (serializer.js:184-192, tokenizer.js:16-45, parser.js:67-104).
THEOREM RoundTrips == Spec => []RoundTripIfClean
<1>1. Init => LinesAreParsed
  <2> SUFFICES ASSUME Init  PROVE LinesAreParsed
    OBVIOUS
  <2>1. /\ stage = [e \in Engine |-> "idle"]
        /\ sent = [e \in Engine |-> Nothing]
        /\ got = [e \in Engine |-> Nothing]
    BY DEF Init
  <2>2. DOMAIN stage = Engine /\ DOMAIN sent = Engine /\ DOMAIN got = Engine  BY <2>1
  <2>3. \A e \in Engine : stage[e] = "idle"  BY <2>1
  <2> QED BY <2>2, <2>3 DEF LinesAreParsed
<1>2. LinesAreParsed => RoundTripIfClean
  <2> SUFFICES ASSUME LinesAreParsed, NEW e \in Engine, stage[e] # "idle"
               PROVE  /\ Clean(sent[e]) => got[e] = Meant(sent[e])
                      /\ Labelled(sent[e]) /\ got[e] = Meant(sent[e]) => Clean(sent[e])
    BY DEF RoundTripIfClean
  <2>1. PICK content \in Content \union Odd :
          sent[e] \in Operation(content) /\ got[e] = ParseLine(Serialize(sent[e]), Schemas)
    BY DEF LinesAreParsed
  <2> DEFINE op == sent[e]
  <2>2. op \in Operation(content) /\ got[e] = ParseLine(Serialize(op), Schemas)  BY <2>1
  <2> HIDE DEF op
  <2>3. /\ Clean(op) => ParseLine(Serialize(op), Schemas) = Meant(op)
        /\ Labelled(op) /\ ParseLine(Serialize(op), Schemas) = Meant(op) => Clean(op)
    BY <2>2, LineArrives
  <2> QED BY <2>2, <2>3 DEF op
<1> QED BY <1>1, <1>2, ParsedStays, PTL DEF Spec
===============================================================================
