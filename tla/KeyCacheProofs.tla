---------------------------- MODULE KeyCacheProofs ----------------------------
(***************************************************************************)
(* Theorems about KeyCache: for any requests, terms, time to live and      *)
(* number of failures, its variables keep their types and no answer stays  *)
(* in the cache longer than its time.                                      *)
(*                                                                         *)
(* The two need each other: age is bounded only because an answer that     *)
(* grows old is close to its expiry.                                       *)
(***************************************************************************)
EXTENDS KeyCache, TLAPS

IInv == TypeOK /\ StaleAnswersAreYoung

-----------------------------------------------------------------------------

LEMMA InitEstablishes == Init => IInv
BY NoneAssumption, BoundAssumption DEF Init, IInv, TypeOK, StaleAnswersAreYoung, Location

\* What a step of a request does to the types, the history left aside.
LEMMA StepTypes ==
  ASSUME TypeOK, NEW r \in Request, Step(r)
  PROVE  /\ row' = row
         /\ cached' \in Terms \union {None} /\ left' \in 0..Ttl
         /\ left' = 0 <=> cached' = None
         /\ pc' \in [Request -> Location]
         /\ org' \in [Request -> Terms \union {None}]
         /\ \A q \in Request : pc'[q] \in {"store", "precheck"} <=> org'[q] # None
         /\ faults' \in 0..MaxFaults
<1>1. CASE Arrive(r)
  BY <1>1, NoneAssumption DEF TypeOK, Arrive, Go, Location
<1>2. CASE LookUp(r)
  BY <1>2, NoneAssumption DEF TypeOK, LookUp, Go, Location
<1>3. CASE Store(r)
  <2>1. org[r] \in Terms
    BY <1>3 DEF TypeOK, Store
  <2> QED
    BY <1>3, <2>1, NoneAssumption, BoundAssumption DEF TypeOK, Store, Go, Location
<1>4. CASE Precheck(r)
  BY <1>4, NoneAssumption DEF TypeOK, Precheck, Go, Location
<1>5. CASE Fail(r)
  BY <1>5, NoneAssumption, BoundAssumption DEF TypeOK, Fail, Go, Location
<1> QED
  BY <1>1, <1>2, <1>3, <1>4, <1>5 DEF Step

\* A step that stores an answer makes it young; any other step of a request
\* leaves the cache alone.
LEMMA StepStaysYoung ==
  ASSUME IInv, NEW r \in Request, Step(r), Aged(0)
  PROVE  age' \in 0..Ttl /\ StaleAnswersAreYoung'
<1> USE BoundAssumption DEF IInv, TypeOK, StaleAnswersAreYoung, Aged
<1>1. CASE Store(r)
  BY <1>1 DEF Store
<1>2. CASE cached' = cached /\ left' = left
  BY <1>2
<1> QED
  BY <1>1, <1>2 DEF Step, Arrive, LookUp, Precheck, Fail

LEMMA StepPreserves == IInv /\ [Next]_vars => IInv'
<1> SUFFICES ASSUME IInv, [Next]_vars PROVE IInv'
  OBVIOUS
<1>1. ASSUME NEW r \in Request, Step(r), Aged(0) PROVE IInv'
  BY <1>1, StepTypes, StepStaysYoung DEF IInv, TypeOK
<1>2. CASE ChangeRow /\ Aged(0)
  BY <1>2, NoneAssumption, BoundAssumption
  DEF IInv, TypeOK, StaleAnswersAreYoung, ChangeRow, Aged
<1>3. CASE Tick /\ Aged(1)
  BY <1>3, NoneAssumption, BoundAssumption
  DEF IInv, TypeOK, StaleAnswersAreYoung, Tick, Aged
<1>4. CASE UNCHANGED vars
  BY <1>4 DEF IInv, TypeOK, StaleAnswersAreYoung, vars
<1> QED
  BY <1>1, <1>2, <1>3, <1>4 DEF Next

LEMMA IInvHolds == Spec => []IInv
BY InitEstablishes, StepPreserves, PTL DEF Spec

\* The row, the cache and the requests keep their types; in particular a
\* request holds terms exactly while it is between its verdict and its end.
THEOREM TypeCorrect == Spec => []TypeOK
BY IInvHolds, PTL DEF IInv

\* No answer is served longer than its time after it was last true, or on its
\* way to the cache, however many requests use and store it.
THEOREM AnswersStayYoung == Spec => []StaleAnswersAreYoung
BY IInvHolds, PTL DEF IInv
===============================================================================
