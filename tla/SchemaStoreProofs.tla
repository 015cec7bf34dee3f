-------------------------- MODULE SchemaStoreProofs --------------------------
(***************************************************************************)
(* Theorems about SchemaStore: for any clients, versions, time to live and *)
(* bounds, its types, that only a rejected command leaves a schema behind, *)
(* that a write nobody overlaps mends the index, that a getLatest nobody   *)
(* overlaps finds what the index named, and that a calm registry           *)
(* implements SchemaIndexSpec.                                             *)
(*                                                                         *)
(* The invariant says what a call may rely on between its commands: alone, *)
(* on what it did and found itself (LoneDeletes); in a calm registry, on   *)
(* the index as well (CalmWrites, CalmIndex).                              *)
(***************************************************************************)
EXTENDS SchemaStore, WellFoundedInduction, TLAPS

-----------------------------------------------------------------------------
(***************************************************************************)
(* The largest of a set of versions.                                       *)
(***************************************************************************)

Less == {p \in Nat \X Nat : p[1] < p[2]}

LEMMA LessIsWellFounded == IsWellFoundedOn(Less, Nat)
BY NatLessThanWellFounded DEF OpToRel, Less

\* A set of versions is finite, so it has a largest element: the one that lies
\* least below Newest.
LEMMA LargestIs ==
  ASSUME NEW S \in SUBSET Version
  PROVE  IF S = {} THEN Largest(S) = 0
         ELSE Largest(S) \in S /\ \A v \in S : v <= Largest(S)
<1>1. CASE S = {}
  BY <1>1 DEF Largest
<1>2. CASE S # {}
  <2> DEFINE Below == {Newest - v : v \in S}
  <2>1. Below \subseteq Nat /\ Below # {}
    <3>1. \A v \in S : v \in 1..Newest
      BY DEF Version
    <3> QED
      BY <1>2, <3>1, BoundAssumption
  <2>2. \E x \in Below : \A y \in Below : ~ (<<y, x>> \in Less)
    <3> HIDE DEF Below
    <3> QED BY <2>1, LessIsWellFounded, WFMin
  <2>3. PICK x \in Below : \A y \in Below : ~ (<<y, x>> \in Less)
    BY <2>2
  <2>4. PICK m \in S : x = Newest - m
    BY <2>3
  <2>5. ASSUME NEW v \in S PROVE v <= m
    <3>1. Newest - v \in Below /\ ~ (<<Newest - v, x>> \in Less)
      BY <2>3
    <3>2. ~ (Newest - v < Newest - m)
      BY <2>1, <2>3, <2>4, <3>1 DEF Less
    <3> QED
      BY <3>2, BoundAssumption DEF Version
  <2> QED
    BY <1>2, <2>5 DEF Largest
<1> QED
  BY <1>1, <1>2

-----------------------------------------------------------------------------
(***************************************************************************)
(* The inductive invariant.                                                *)
(***************************************************************************)

Registering == {"expire", "compare", "raise"}
Deleting == {"check", "scan", "recompute"}

\* A call has a version exactly while it is under way, and its scan is over
\* when it computes the index again.
CallsHoldVersions ==
  \A c \in Client :
    /\ pc[c] = "idle" <=> ver[c] = 0
    /\ pc[c] = "recompute" => toScan[c] = {}

\* What alone means: there is no other write.
AloneIsAlone ==
  \A c, d \in Client :
    pc[c] \in Writing /\ pc[d] \in Writing /\ alone[c] => c = d

\* A delete that nobody overlaps has removed its version, and finds all others.
LoneDeletes ==
  \A c \in Client : pc[c] \in Deleting /\ alone[c] =>
    /\ left[ver[c]] = 0
    /\ pc[c] # "check" =>
         /\ ver[c] \notin found[c]
         /\ ~ prefixed => \A v \in Version : left[v] > 0 => v \in found[c] \union toScan[c]

\* In a calm registry every write is alone; what it registers is stored, and
\* what it found is.
CalmWrites ==
  calm => \A c \in Client :
    /\ pc[c] \in Writing => alone[c]
    /\ pc[c] \in Registering => left[ver[c]] > 0
    /\ pc[c] = "raise" => latest < ver[c]
    /\ pc[c] \in {"scan", "recompute"} =>
         /\ ~ prefixed /\ ver[c] = latest
         /\ \A v \in found[c] : left[v] > 0
    /\ pc[c] = "fetch" /\ alone[c] => left[ver[c]] > 0

\* In a calm registry the index names a stored version, unless a delete is
\* about to change it, and is not below a stored version, unless a register
\* is about to raise it.
CalmIndex ==
  calm =>
    /\ latest # 0 =>
         left[latest] > 0 \/ \E c \in Client : pc[c] \in Deleting /\ ver[c] = latest
    /\ \A v \in Version : left[v] > 0 /\ v > latest =>
         \E c \in Client : pc[c] \in Registering /\ ver[c] = v

IInv ==
  /\ TypeOK
  /\ OnlyFaultsPersist
  /\ CallsHoldVersions
  /\ AloneIsAlone
  /\ LoneDeletes
  /\ CalmWrites
  /\ CalmIndex

-----------------------------------------------------------------------------
(***************************************************************************)
(* Each command of each call preserves the invariant.                      *)
(***************************************************************************)

LEMMA VersionsArePositive ==
  /\ \A v \in Version : v \in Nat /\ v > 0
  /\ 0 \notin Version
BY BoundAssumption DEF Version

LEMMA ForeverIsLonger == Ttl \in Nat \ {0} /\ Forever \in Nat /\ Forever > Ttl
BY TtlAssumption DEF Forever

\* The HSET of a register: in a calm registry it is the only write, and its
\* version is stored from now on.
LEMMA Registers ==
  ASSUME IInv, NEW c \in Client, NEW v \in Version, Register(c, v), UNCHANGED prefixed
  PROVE  IInv'
<1> USE VersionsArePositive, ForeverIsLonger, BoundAssumption
         DEF IInv, TypeOK, Register, Call, Overlap, Writers, At
<1>1. TypeOK'
  <2>1. left' \in [Version -> 0..Forever]
    OBVIOUS
  <2>2. pc' \in [Client -> Location] /\ ver' \in [Client -> Version \union {0}]
    BY DEF Location, Writing
  <2>3. calls' \in 0..MaxCalls
    OBVIOUS
  <2>4. alone' \in [Client -> BOOLEAN] /\ calm' \in BOOLEAN
    OBVIOUS
  <2> QED
    BY <2>1, <2>2, <2>3, <2>4
<1>2. OnlyFaultsPersist'
  BY DEF OnlyFaultsPersist
<1>3. CallsHoldVersions'
  BY DEF CallsHoldVersions
<1>4. AloneIsAlone'
  BY DEF AloneIsAlone, Writing
<1>5. LoneDeletes'
  BY ZenonT(60) DEF AloneIsAlone, LoneDeletes, Writing, Deleting
<1>6. CalmWrites'
  BY DEF CalmWrites, Writing, Registering
<1>7. CalmIndex'
  BY DEF CalmIndex, Writing, Registering, Deleting
<1> QED
  BY <1>1, <1>2, <1>3, <1>4, <1>5, <1>6, <1>7

\* The expiry changes no version from stored to not stored.
LEMMA Expires ==
  ASSUME IInv, NEW c \in Client, Expire(c), UNCHANGED prefixed
  PROVE  IInv'
<1> USE VersionsArePositive, ForeverIsLonger, BoundAssumption
         DEF IInv, TypeOK, Expire, Goto, boundVars
<1>1. TypeOK'
  <2>1. ver[c] \in Version \union {0} /\ Ttl \in 0..Forever /\ 0 \in 0..Forever
    OBVIOUS
  <2>2. left' \in [Version -> 0..Forever]
    BY <2>1
  <2>3. pc' \in [Client -> Location] /\ ver' \in [Client -> Version \union {0}]
    BY DEF Location, Writing
  <2> QED
    BY <2>2, <2>3
<1>2. OnlyFaultsPersist'
  BY DEF OnlyFaultsPersist
<1>3. CallsHoldVersions'
  BY DEF CallsHoldVersions
<1>4. AloneIsAlone'
  BY DEF AloneIsAlone, Writing
<1>5. LoneDeletes'
  BY DEF AloneIsAlone, LoneDeletes, Writing, Deleting
<1>6. CalmWrites'
  BY DEF CalmWrites, Writing, Registering
<1>7. CalmIndex'
  BY DEF CalmIndex, Writing, Registering, Deleting
<1> QED
  BY <1>1, <1>2, <1>3, <1>4, <1>5, <1>6, <1>7

\* The register goes on only with a version above the index.
LEMMA Compares ==
  ASSUME IInv, NEW c \in Client, Compare(c), UNCHANGED prefixed
  PROVE  IInv'
<1> USE VersionsArePositive, ForeverIsLonger, BoundAssumption
         DEF IInv, TypeOK, Compare, Goto, redisVars, boundVars
<1>1. TypeOK'
  BY DEF Location, Writing
<1>2. OnlyFaultsPersist'
  BY DEF OnlyFaultsPersist
<1>3. CallsHoldVersions'
  BY DEF CallsHoldVersions
<1>4. AloneIsAlone'
  BY DEF AloneIsAlone, Writing
<1>5. LoneDeletes'
  BY DEF AloneIsAlone, LoneDeletes, Writing, Deleting
<1>6. CalmWrites'
  BY DEF CallsHoldVersions, CalmWrites, Writing, Registering, Deleting
<1>7. CalmIndex'
  BY DEF CalmIndex, Writing, Registering, Deleting
<1> QED
  BY <1>1, <1>2, <1>3, <1>4, <1>5, <1>6, <1>7

\* The index comes to name the version of the register, which is stored.
LEMMA Raises ==
  ASSUME IInv, NEW c \in Client, Raise(c), UNCHANGED prefixed
  PROVE  IInv'
<1> USE VersionsArePositive, ForeverIsLonger, BoundAssumption
         DEF IInv, TypeOK, Raise, SetLatest, Goto, boundVars
<1>1. TypeOK'
  BY DEF Location, Writing
<1>2. OnlyFaultsPersist'
  BY DEF OnlyFaultsPersist
<1>3. CallsHoldVersions'
  BY DEF CallsHoldVersions
<1>4. AloneIsAlone'
  BY DEF AloneIsAlone, Writing
<1>5. LoneDeletes'
  BY DEF AloneIsAlone, LoneDeletes, Writing, Deleting
<1>6. CalmWrites'
  BY DEF AloneIsAlone, CalmWrites, Writing, Registering, Deleting
<1>7. CalmIndex'
  BY DEF AloneIsAlone, CalmWrites, CalmIndex, Writing, Registering, Deleting
<1> QED
  BY <1>1, <1>2, <1>3, <1>4, <1>5, <1>6, <1>7

\* The DEL: whoever is under way is not alone any more.
LEMMA Deletes ==
  ASSUME IInv, NEW c \in Client, NEW v \in Version, Delete(c, v), UNCHANGED prefixed
  PROVE  IInv'
<1> USE VersionsArePositive, ForeverIsLonger, BoundAssumption
         DEF IInv, TypeOK, Delete, Call, Overlap, Writers, At
<1>1. TypeOK'
  <2>1. left' \in [Version -> 0..Forever]
    OBVIOUS
  <2>2. pc' \in [Client -> Location] /\ ver' \in [Client -> Version \union {0}]
    BY DEF Location, Writing
  <2>3. calls' \in 0..MaxCalls
    OBVIOUS
  <2>4. alone' \in [Client -> BOOLEAN] /\ calm' \in BOOLEAN
    OBVIOUS
  <2> QED
    BY <2>1, <2>2, <2>3, <2>4
<1>2. OnlyFaultsPersist'
  BY DEF OnlyFaultsPersist
<1>3. CallsHoldVersions'
  BY DEF CallsHoldVersions
<1>4. AloneIsAlone'
  BY DEF AloneIsAlone, Writing
<1>5. LoneDeletes'
  BY DEF AloneIsAlone, LoneDeletes, Writing, Deleting
<1>6. CalmWrites'
  BY DEF CalmWrites, Writing, Registering
<1>7. CalmIndex'
  BY DEF CalmIndex, Writing, Registering, Deleting
<1> QED
  BY <1>1, <1>2, <1>3, <1>4, <1>5, <1>6, <1>7

\* The delete goes on only with the version that the index names.
LEMMA Checks ==
  ASSUME IInv, NEW c \in Client, Check(c), UNCHANGED prefixed
  PROVE  IInv'
<1> USE VersionsArePositive, ForeverIsLonger, BoundAssumption
         DEF IInv, TypeOK, Check, Goto, redisVars, boundVars
<1>1. TypeOK'
  <2>1. pc' \in [Client -> Location] /\ ver' \in [Client -> Version \union {0}]
    BY DEF Location, Writing
  <2>2. toScan' \in [Client -> SUBSET Version] /\ found' \in [Client -> SUBSET Version]
    OBVIOUS
  <2> QED
    BY <2>1, <2>2
<1>2. OnlyFaultsPersist'
  BY DEF OnlyFaultsPersist
<1>3. CallsHoldVersions'
  BY DEF CallsHoldVersions
<1>4. AloneIsAlone'
  BY DEF AloneIsAlone, Writing
<1>5. LoneDeletes'
  BY DEF AloneIsAlone, LoneDeletes, Writing, Deleting
<1>6. CalmWrites'
  <2> SUFFICES ASSUME calm', NEW d \in Client PROVE
           /\ pc'[d] \in Writing => alone'[d]
           /\ pc'[d] \in Registering => left'[ver'[d]] > 0
           /\ pc'[d] = "raise" => latest' < ver'[d]
           /\ pc'[d] \in {"scan", "recompute"} =>
                /\ ~ prefixed' /\ ver'[d] = latest'
                /\ \A w \in found'[d] : left'[w] > 0
           /\ pc'[d] = "fetch" /\ alone'[d] => left'[ver'[d]] > 0
    BY DEF CalmWrites
  <2>1. CASE d = c
    <3>1. calm /\ pc[c] \in Writing
      BY DEF Writing
    <3>2. alone[c]
      BY <3>1 DEF CalmWrites
    <3>3. alone'[c]
      BY <3>2
    <3>4. CASE latest = ver[c]
      <4>1. pc'[c] = "scan" /\ found'[c] = {} /\ ~ prefixed' /\ ver'[c] = latest'
        BY <3>4
      <4> QED
        BY <2>1, <3>3, <4>1 DEF Registering
    <3>5. CASE latest # ver[c]
      <4>1. pc'[c] = "idle"
        BY <3>5
      <4> QED
        BY <2>1, <4>1 DEF Writing, Registering
    <3> QED
      BY <3>4, <3>5
  <2>2. CASE d # c
    <3>1. pc'[d] = pc[d] /\ ver'[d] = ver[d] /\ alone'[d] = alone[d] /\ found'[d] = found[d]
      BY <2>2
    <3> QED
      BY <3>1 DEF CalmWrites
  <2> QED
    BY <2>1, <2>2
<1>7. CalmIndex'
  BY ZenonT(60) DEF AloneIsAlone, CalmWrites, CalmIndex, Writing, Registering, Deleting
<1> QED
  BY <1>1, <1>2, <1>3, <1>4, <1>5, <1>6, <1>7

\* What is found is stored at that moment, and stays stored while it is calm.
LEMMA Scans ==
  ASSUME IInv, NEW c \in Client, NEW v \in Version, ScanKey(c, v), UNCHANGED prefixed
  PROVE  IInv'
<1> USE VersionsArePositive, ForeverIsLonger, BoundAssumption
         DEF IInv, TypeOK, ScanKey, Goto, redisVars, boundVars
<1>1. TypeOK'
  BY DEF Location, Writing
<1>2. OnlyFaultsPersist'
  BY DEF OnlyFaultsPersist
<1>3. CallsHoldVersions'
  BY DEF CallsHoldVersions
<1>4. AloneIsAlone'
  BY DEF AloneIsAlone, Writing
<1>5. LoneDeletes'
  BY DEF AloneIsAlone, LoneDeletes, Writing, Deleting
<1>6. CalmWrites'
  BY DEF CalmWrites, Writing, Registering
<1>7. CalmIndex'
  BY DEF CalmIndex, Writing, Registering, Deleting
<1> QED
  BY <1>1, <1>2, <1>3, <1>4, <1>5, <1>6, <1>7

\* The index comes to name the largest version found.
LEMMA Recomputes ==
  ASSUME IInv, NEW c \in Client, Recompute(c), UNCHANGED prefixed
  PROVE  IInv'
<1> USE VersionsArePositive, ForeverIsLonger, BoundAssumption
         DEF IInv, TypeOK, Recompute, SetLatest, Goto, boundVars
<1>1. TypeOK'
  <2>1. found[c] \in SUBSET Version
    OBVIOUS
  <2>2. latest' \in Version \union {0}
    BY <2>1, LargestIs
  <2>3. latestLeft' \in 0..Ttl /\ (latest' = 0 <=> latestLeft' = 0)
    OBVIOUS
  <2> QED
    BY <2>2, <2>3 DEF Location, Writing
<1>2. OnlyFaultsPersist'
  BY DEF OnlyFaultsPersist
<1>3. CallsHoldVersions'
  BY DEF CallsHoldVersions
<1>4. AloneIsAlone'
  BY DEF AloneIsAlone, Writing
<1>5. LoneDeletes'
  BY DEF AloneIsAlone, LoneDeletes, Writing, Deleting
<1>6. CalmWrites'
  BY DEF AloneIsAlone, CalmWrites, Writing, Registering, Deleting
<1>7. CalmIndex'
  <2>1. found[c] \in SUBSET Version
    OBVIOUS
  <2> QED
    BY <2>1, LargestIs
    DEF AloneIsAlone, CallsHoldVersions, LoneDeletes, CalmWrites, CalmIndex, Writing,
        Registering, Deleting
<1> QED
  BY <1>1, <1>2, <1>3, <1>4, <1>5, <1>6, <1>7

\* What the index names is stored unless a delete is under way.
LEMMA Gets ==
  ASSUME IInv, NEW c \in Client, GetLatest(c), UNCHANGED prefixed
  PROVE  IInv'
<1> USE VersionsArePositive, ForeverIsLonger, BoundAssumption
         DEF IInv, TypeOK, GetLatest, Call, Deleters, At
<1>1. TypeOK'
  BY DEF Location, Writing
<1>2. OnlyFaultsPersist'
  BY DEF OnlyFaultsPersist
<1>3. CallsHoldVersions'
  BY DEF CallsHoldVersions
<1>4. AloneIsAlone'
  BY DEF AloneIsAlone, Writing
<1>5. LoneDeletes'
  BY DEF AloneIsAlone, LoneDeletes, Writing, Deleting
<1>6. CalmWrites'
  BY ZenonT(60) DEF CalmIndex, CalmWrites, Writing, Registering, Deleting
<1>7. CalmIndex'
  BY DEF CalmIndex, Writing, Registering, Deleting
<1> QED
  BY <1>1, <1>2, <1>3, <1>4, <1>5, <1>6, <1>7

\* A read ends and changes nothing.
LEMMA Fetches ==
  ASSUME IInv, NEW c \in Client, Fetch(c), UNCHANGED prefixed
  PROVE  IInv'
<1> USE VersionsArePositive, ForeverIsLonger, BoundAssumption
         DEF IInv, TypeOK, Fetch, Goto, redisVars, boundVars
<1>1. TypeOK'
  BY DEF Location, Writing
<1>2. OnlyFaultsPersist'
  BY DEF OnlyFaultsPersist
<1>3. CallsHoldVersions'
  BY DEF CallsHoldVersions
<1>4. AloneIsAlone'
  BY DEF AloneIsAlone, Writing
<1>5. LoneDeletes'
  BY DEF AloneIsAlone, LoneDeletes, Writing, Deleting
<1>6. CalmWrites'
  BY DEF CalmWrites, Writing, Registering
<1>7. CalmIndex'
  BY DEF CalmIndex, Writing, Registering, Deleting
<1> QED
  BY <1>1, <1>2, <1>3, <1>4, <1>5, <1>6, <1>7

\* A write that ends early ends the calm.
LEMMA Fails ==
  ASSUME IInv, NEW c \in Client, CommandFails(c), UNCHANGED prefixed
  PROVE  IInv'
<1> USE VersionsArePositive, ForeverIsLonger, BoundAssumption
         DEF IInv, TypeOK, CommandFails, Goto, redisVars
<1>1. TypeOK'
  BY DEF Location, Writing
<1>2. OnlyFaultsPersist'
  BY DEF OnlyFaultsPersist
<1>3. CallsHoldVersions'
  BY DEF CallsHoldVersions
<1>4. AloneIsAlone'
  BY DEF AloneIsAlone, Writing
<1>5. LoneDeletes'
  BY DEF AloneIsAlone, LoneDeletes, Writing, Deleting
<1>6. CalmWrites'
  BY DEF CalmWrites, Writing, Registering
<1>7. CalmIndex'
  BY DEF CalmIndex, Writing, Registering, Deleting
<1> QED
  BY <1>1, <1>2, <1>3, <1>4, <1>5, <1>6, <1>7

\* Time takes keys away and gives none; with the first that goes the calm ends.
LEMMA Ticks ==
  ASSUME IInv, Tick, UNCHANGED prefixed
  PROVE  IInv'
<1> USE VersionsArePositive, ForeverIsLonger, BoundAssumption
         DEF IInv, TypeOK, Tick, callVars
<1>1. left' \in [Version -> 0..Forever]
  OBVIOUS
<1>2. \A v \in Version :
        /\ left'[v] = Forever => left[v] = Forever
        /\ left'[v] > 0 => left[v] > 0
        /\ calm' /\ left[v] > 0 => left'[v] > 0
  <2> SUFFICES ASSUME NEW v \in Version
               PROVE  /\ left'[v] = Forever => left[v] = Forever
                      /\ left'[v] > 0 => left[v] > 0
                      /\ calm' /\ left[v] > 0 => left'[v] > 0
    OBVIOUS
  <2>1. left[v] \in 0..Forever /\ (calm' => left[v] # 1)
    OBVIOUS
  <2>2. left'[v] = IF left[v] \in {0, Forever} THEN left[v] ELSE left[v] - 1
    OBVIOUS
  <2> QED
    BY <2>1, <2>2
<1>3. calm' => calm /\ latest' = latest
  OBVIOUS
<1>4. TypeOK'
  <2>1. /\ latest' \in Version \union {0} /\ latestLeft' \in 0..Ttl
        /\ latest' = 0 <=> latestLeft' = 0
    OBVIOUS
  <2> QED
    BY <1>1, <2>1
<1>5. OnlyFaultsPersist'
  BY <1>2 DEF OnlyFaultsPersist
<1>6. CallsHoldVersions' /\ AloneIsAlone'
  BY DEF CallsHoldVersions, AloneIsAlone
<1>7. LoneDeletes'
  <2>1. \A c \in Client : pc[c] \in Deleting => ver[c] \in Version
    BY DEF CallsHoldVersions, Deleting
  <2>2. \A v \in Version : left[v] = 0 => left'[v] = 0
    BY <1>1, <1>2
  <2> QED
    BY <1>2, <2>1, <2>2 DEF LoneDeletes
<1>8. CalmWrites'
  <2>1. \A c \in Client : pc[c] # "idle" => ver[c] \in Version
    BY DEF CallsHoldVersions
  <2> QED
    BY <1>2, <1>3, <2>1 DEF CalmWrites, Registering
<1>9. CalmIndex'
  BY <1>2, <1>3 DEF CalmIndex
<1> QED
  BY <1>4, <1>5, <1>6, <1>7, <1>8, <1>9

LEMMA InitEstablishes == Init => IInv
BY VersionsArePositive, ForeverIsLonger, BoundAssumption
DEF Init, IInv, TypeOK, OnlyFaultsPersist, CallsHoldVersions, AloneIsAlone, LoneDeletes,
    CalmWrites, CalmIndex, Location, Writing, Registering, Deleting

-----------------------------------------------------------------------------
(***************************************************************************)
(* The theorems.                                                           *)
(***************************************************************************)

LEMMA StepPreserves == IInv /\ [Next]_vars => IInv'
<1> SUFFICES ASSUME IInv, [Next]_vars PROVE IInv'
  OBVIOUS
<1>1. CASE Tick /\ UNCHANGED prefixed
  BY <1>1, Ticks
<1>2. ASSUME NEW c \in Client, Step(c), UNCHANGED prefixed PROVE IInv'
  BY <1>2, Registers, Expires, Compares, Raises, Deletes, Checks, Scans, Recomputes,
     Gets, Fetches, Fails DEF Step
<1>3. CASE UNCHANGED vars
  BY <1>3 DEF IInv, TypeOK, OnlyFaultsPersist, CallsHoldVersions, AloneIsAlone, LoneDeletes,
     CalmWrites, CalmIndex, vars, redisVars, callVars, boundVars, historyVars
<1> QED
  BY <1>1, <1>2, <1>3 DEF Next

LEMMA IInvHolds == Spec => []IInv
BY InitEstablishes, StepPreserves, PTL DEF Spec

\* What Redis holds and the calls under way keep their types (schema-store.js).
THEOREM TypeCorrect == Spec => []TypeOK
BY IInvHolds, PTL DEF IInv

\* Without a rejected command, a key lacks its expiry only while the register
\* that wrote it is about to set it (schema-store.js:40-41), whatever overlaps.
THEOREM NothingPersists == Spec => []OnlyFaultsPersist
BY IInvHolds, PTL DEF IInv

\* The end of a call without a fault is one of these.
LEMMA Ends ==
  ASSUME NEW c \in Client, IInv, [Next]_vars,
         pc[c] # "idle", pc'[c] = "idle", faults' = faults
  PROVE  Compare(c) \/ Raise(c) \/ Check(c) \/ Recompute(c) \/ Fetch(c)
<1> USE DEF IInv, TypeOK
<1>1. PICK d \in Client : Step(d)
  BY DEF Next, Tick, vars, callVars
<1>2. ~ CommandFails(d)
  BY DEF CommandFails
<1>3. d = c
  BY <1>1 DEF Step, Register, Expire, Compare, Raise, Delete, Check, ScanKey, Recompute,
     GetLatest, Fetch, CommandFails, Call, Goto
<1>4. \/ pc[d] = "idle" \/ pc'[d] # "idle"
      \/ Compare(d) \/ Raise(d) \/ Check(d) \/ Recompute(d) \/ Fetch(d)
  BY <1>1, <1>2 DEF Step, Register, Expire, Delete, ScanKey, GetLatest, Call, Goto
<1> QED
  BY <1>3, <1>4

\* The end of a write that was alone, one case for each command that ends one.
LEMMA MendsTheIndex ==
  ASSUME NEW c \in Client, IInv, [Next]_vars,
         pc[c] \in Writing, pc'[c] = "idle", faults' = faults, alone[c]
  PROVE  /\ pc[c] \in {"compare", "raise"} => latest' >= ver[c]
         /\ pc[c] \in {"check", "recompute"} => latest' # ver[c]
         /\ pc[c] = "recompute" /\ ~ prefixed => \A v \in Stored : v <= latest'
<1> USE VersionsArePositive DEF IInv, TypeOK, CallsHoldVersions
<1>1. ver[c] \in Version
  BY DEF Writing
<1>2. Compare(c) \/ Raise(c) \/ Check(c) \/ Recompute(c) \/ Fetch(c)
  BY Ends DEF Writing
<1>3. CASE Compare(c)
  BY <1>1, <1>3 DEF Compare, Goto, redisVars
<1>4. CASE Raise(c)
  BY <1>1, <1>4 DEF Raise, SetLatest
<1>5. CASE Check(c)
  BY <1>5 DEF Check, Goto, redisVars
<1>6. CASE Recompute(c)
  <2>1. /\ pc[c] = "recompute" /\ latest' = Largest(found[c])
        /\ found[c] \in SUBSET Version /\ ver[c] \notin found[c]
        /\ ~ prefixed => \A v \in Version : left[v] > 0 => v \in found[c]
    BY <1>6 DEF Recompute, SetLatest, LoneDeletes, Deleting
  <2>2. latest' = 0 \/ latest' \in found[c]
    BY <2>1, LargestIs
  <2>3. \A v \in found[c] : v <= latest'
    BY <2>1, LargestIs
  <2> QED
    BY <1>1, <2>1, <2>2, <2>3 DEF Stored
<1>7. CASE Fetch(c)
  BY <1>7 DEF Fetch, Writing
<1> QED
  BY <1>2, <1>3, <1>4, <1>5, <1>6, <1>7

\* After a write that no other overlaps the index is right for its version, from
\* whatever state the write began in (schema-store.js:43-49, :125-134).
THEOREM WritesMend == Spec => WritesMendTheIndex
<1>1. IInv /\ [Next]_vars =>
        [\A c \in Client :
           pc[c] \in Writing /\ pc'[c] = "idle" /\ faults' = faults /\ alone[c] =>
             /\ pc[c] \in {"compare", "raise"} => latest' >= ver[c]
             /\ pc[c] \in {"check", "recompute"} => latest' # ver[c]
             /\ pc[c] = "recompute" /\ ~ prefixed => \A v \in Stored : v <= latest']_vars
  BY MendsTheIndex
<1> QED
  BY <1>1, IInvHolds, PTL DEF Spec, WritesMendTheIndex

\* In a calm registry getLatest finds the version that the index named when no
\* delete overlaps it (schema-store.js:78-83).
THEOREM GetsFind == Spec => LatestIsFound
<1>1. IInv =>
        \A c \in Client :
          pc[c] = "fetch" /\ pc'[c] = "idle" /\ faults' = faults /\ calm /\ alone[c]
            => left[ver[c]] > 0
  BY DEF IInv, CalmWrites
<1>2. IInv /\ [Next]_vars =>
        [\A c \in Client :
           pc[c] = "fetch" /\ pc'[c] = "idle" /\ faults' = faults /\ calm /\ alone[c]
             => left[ver[c]] > 0]_vars
  BY <1>1
<1> QED
  BY <1>2, IInvHolds, PTL DEF Spec, LatestIsFound

-----------------------------------------------------------------------------
\* The refinement mapping of KeepsLatest.
Registered == {v \in Version : v <= latest /\ (left[v] > 0 \/ v = latest)}

\* What a step of a calm registry is to a client that asks for the latest version.
LEMMA CalmSteps ==
  ASSUME IInv, [Next]_vars, calm'
  PROVE  \/ UNCHANGED <<Registered, latest, calm>>
         \/ calm /\ \E v \in Version :
              Registered' \in {Registered \union {v}, Registered \ {v}} /\ calm' = calm
<1> USE VersionsArePositive, ForeverIsLonger DEF IInv, TypeOK
<1> DEFINE Maps ==
      \/ UNCHANGED <<Registered, latest, calm>>
      \/ calm /\ \E v \in Version :
           Registered' \in {Registered \union {v}, Registered \ {v}} /\ calm' = calm
<1>1. CASE UNCHANGED vars
  BY <1>1 DEF Registered, vars, redisVars, historyVars
<1>2. CASE Tick
  <2>1. UNCHANGED <<latest, calm>>
    BY <1>2 DEF Tick
  <2>2. \A v \in Version : left[v] \in 0..Forever /\ left[v] # 1
    BY <1>2 DEF Tick
  <2>3. \A v \in Version :
          left'[v] = IF left[v] \in {0, Forever} THEN left[v] ELSE left[v] - 1
    BY <1>2 DEF Tick
  <2>4. \A v \in Version : left'[v] > 0 <=> left[v] > 0
    BY <2>2, <2>3
  <2> QED
    BY <2>1, <2>4 DEF Registered
<1>3. ASSUME NEW c \in Client, NEW v \in Version, Register(c, v) PROVE Maps
  <2>1. calm /\ UNCHANGED <<latest, calm>>
    BY <1>3 DEF Register, Call, Overlap
  <2>2. left'[v] > 0 /\ \A w \in Version \ {v} : left'[w] = left[w]
    BY <1>3 DEF Register
  <2>3. CASE v <= latest
    <3>1. Registered' = Registered \union {v}
      BY <2>1, <2>2, <2>3 DEF Registered
    <3> QED
      BY <2>1, <3>1
  <2>4. CASE ~ (v <= latest)
    BY <2>1, <2>2, <2>4 DEF Registered
  <2> QED
    BY <2>3, <2>4
<1>4. ASSUME NEW c \in Client, Expire(c) PROVE Maps
  <2>1. ver[c] \in Version
    BY <1>4 DEF Expire, CallsHoldVersions
  <2>2. \A v \in Version : left'[v] > 0 <=> left[v] > 0
    BY <1>4, <2>1 DEF Expire
  <2> QED
    BY <1>4, <2>2 DEF Expire, Registered
<1>5. ASSUME NEW c \in Client, Raise(c) PROVE Maps
  <2>1. /\ calm /\ UNCHANGED <<left, calm>>
        /\ ver[c] \in Version /\ latest' = ver[c] /\ pc[c] = "raise"
    BY <1>5 DEF Raise, SetLatest, CallsHoldVersions
  <2>2. left[ver[c]] > 0 /\ latest < ver[c]
    BY <2>1 DEF CalmWrites, Registering
  <2>3. \A d \in Client : pc[d] \in Writing => d = c
    BY <2>1 DEF AloneIsAlone, CalmWrites, Writing
  <2>4. latest # 0 => left[latest] > 0
    BY <2>1, <2>3 DEF CalmIndex, Deleting, Writing
  <2>5. \A v \in Version : left[v] > 0 /\ v > latest => v = ver[c]
    BY <2>1, <2>3 DEF CalmIndex, Registering, Writing
  <2>6. Registered' = Registered \union {ver[c]}
    BY <2>1, <2>2, <2>4, <2>5 DEF Registered
  <2> QED
    BY <2>1, <2>6
<1>6. ASSUME NEW c \in Client, NEW v \in Version, Delete(c, v) PROVE Maps
  <2>1. calm /\ UNCHANGED <<latest, calm>> /\ left' = [left EXCEPT ![v] = 0]
    BY <1>6 DEF Delete, Call, Overlap
  <2>2. CASE v = latest
    BY <2>1, <2>2 DEF Registered
  <2>3. CASE v # latest
    <3>1. Registered' = Registered \ {v}
      BY <2>1, <2>3 DEF Registered
    <3> QED
      BY <2>1, <3>1
  <2> QED
    BY <2>2, <2>3
<1>7. ASSUME NEW c \in Client, Recompute(c) PROVE Maps
  <2>1. /\ calm /\ UNCHANGED <<left, calm>> /\ pc[c] = "recompute"
        /\ ver[c] \in Version /\ found[c] \in SUBSET Version
        /\ latest' = Largest(found[c])
    BY <1>7 DEF Recompute, SetLatest, CallsHoldVersions
  <2>2. alone[c] /\ ~ prefixed /\ ver[c] = latest /\ \A v \in found[c] : left[v] > 0
    BY <2>1 DEF CalmWrites, Writing
  <2>3. /\ left[latest] = 0
        /\ \A v \in Version : left[v] > 0 <=> v \in found[c]
    BY <2>1, <2>2 DEF LoneDeletes, CallsHoldVersions, Deleting
  <2>4. \A d \in Client : pc[d] \in Writing => d = c
    BY <2>1, <2>2 DEF AloneIsAlone, Writing
  <2>5. \A v \in Version : left[v] > 0 => v <= latest
    BY <2>1, <2>4 DEF CalmIndex, Registering, Writing
  <2>6. Registered \ {latest} = found[c]
    BY <2>1, <2>3, <2>5 DEF Registered
  <2>7. Registered' = found[c]
    <3>1. CASE found[c] = {}
      <4>1. latest' = 0
        BY <2>1, <3>1, LargestIs
      <4> QED
        BY <2>1, <3>1, <4>1 DEF Registered
    <3>2. CASE found[c] # {}
      <4>1. latest' \in found[c] /\ \A v \in found[c] : v <= latest'
        BY <2>1, <3>2, LargestIs
      <4> QED
        BY <2>1, <2>3, <4>1 DEF Registered
    <3> QED
      BY <3>1, <3>2
  <2> QED
    BY <2>1, <2>2, <2>6, <2>7
<1>8. ASSUME NEW c \in Client,
             \/ Compare(c) \/ Check(c) \/ GetLatest(c) \/ Fetch(c) \/ CommandFails(c)
             \/ \E v \in Version : ScanKey(c, v)
      PROVE  Maps
  <2>1. UNCHANGED <<left, latest, calm>>
    BY <1>8 DEF Compare, Check, GetLatest, Fetch, CommandFails, ScanKey, Call, redisVars
  <2> QED
    BY <2>1 DEF Registered
<1> QED
  BY <1>1, <1>2, <1>3, <1>4, <1>5, <1>6, <1>7, <1>8 DEF Next, Step

\* What a step that ends the calm does is nobody's concern.
LEMMA IndexSteps == IInv /\ [Next]_vars => [Index!Next]_(Index!vars)
<1> SUFFICES ASSUME IInv, [Next]_vars PROVE [Index!Next]_(Index!vars)
  OBVIOUS
<1>1. IInv'
  BY StepPreserves
<1>2. Index!IsLatest(latest', Registered')
  BY <1>1, VersionsArePositive DEF IInv, TypeOK, Registered, Index!IsLatest
<1>3. CASE ~ calm'
  BY <1>1, <1>3 DEF IInv, TypeOK, Index!Next, Index!Disturb
<1>4. CASE calm'
  BY <1>2, <1>4, CalmSteps
  DEF Registered, Index!Next, Index!Register, Index!Delete, Index!vars
<1> QED
  BY <1>3, <1>4

\* A calm registry is an index of the largest registered version: each command
\* registers one version, deletes one, or changes nothing that a client can see.
THEOREM ImplementsIndex == Spec => KeepsLatest
<1>1. Init => Index!Init
  BY VersionsArePositive DEF Init, Index!Init
<1> QED
  BY <1>1, IndexSteps, IInvHolds, PTL DEF Spec, KeepsLatest, Index!Spec
=============================================================================
