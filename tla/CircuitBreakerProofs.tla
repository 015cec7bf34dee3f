------------------------ MODULE CircuitBreakerProofs ------------------------
(***************************************************************************)
(* Proofs about CircuitBreaker and about Upstream, which refines it, for   *)
(* every chain of providers, every set of requests, every threshold, every *)
(* reset timeout and every number of retries.                              *)
(***************************************************************************)
EXTENDS Upstream, FiniteSetTheorems, TLAPS

\* A request that has called a provider names one of those it called, and
\* does so while a call or a body is under way.
CurrentWasCalled ==
  \A r \in Request :
    /\ tried[r] # {} => current[r] \in tried[r]
    /\ pc[r] \in {"call", "failed", "body"} => tried[r] # {}

\* A request can only be refused without any call when every circuit was
\* open, hence after every provider was called by some request.
RefusedAfterCalls ==
  \A r \in Request :
    pc[r] = "thrown" /\ tried[r] = {} =>
      \A p \in Provider : \E q \in Request : p \in tried[q]

IInv ==
  /\ TypeOK
  /\ CircuitsConsistent
  /\ CurrentWasCalled
  /\ RefusedAfterCalls
  /\ UncalledNeverBlamed

USE ThresholdAssumption, TimeAssumption DEF ThresholdAssumption, TimeAssumption

-----------------------------------------------------------------------------

LEMMA InitInv == Init => IInv
  BY DEF Init, IInv, TypeOK, CircuitsConsistent, CurrentWasCalled,
         RefusedAfterCalls, UncalledNeverBlamed, CircuitState, Location, Never

\* The circuit variables keep their types and stay consistent over each of
\* the three operations that write them.
CircuitTypeOK ==
  /\ state \in [Provider -> CircuitState]
  /\ failures \in [Provider -> Nat]
  /\ openedAt \in [Provider -> Nat \cup {Never}]

LEMMA SuccessKeepsCircuits ==
  ASSUME CircuitTypeOK, CircuitsConsistent, now \in Nat, now' = now,
         NEW p \in Provider, RecordSuccess(p)
  PROVE  CircuitTypeOK' /\ CircuitsConsistent'
<1>1. CircuitTypeOK'
  BY DEF CircuitTypeOK, RecordSuccess, CircuitState
<1>2. CircuitsConsistent'
  BY DEF CircuitTypeOK, CircuitsConsistent, RecordSuccess, CircuitState, Never
<1>3. QED BY <1>1, <1>2

LEMMA FailureKeepsCircuits ==
  ASSUME CircuitTypeOK, CircuitsConsistent, now \in Nat, now' = now,
         NEW p, RecordFailure(p)
  PROVE  CircuitTypeOK' /\ CircuitsConsistent'
<1>1. CASE p \notin Provider
  <2>1. UNCHANGED <<state, failures, openedAt>>
    BY <1>1 DEF RecordFailure, circuitVars
  <2>2. QED BY <2>1 DEF CircuitTypeOK, CircuitsConsistent
<1>2. CASE p \in Provider
  BY <1>2 DEF CircuitTypeOK, CircuitsConsistent, RecordFailure, Trips,
              CircuitState, Never
<1>3. QED BY <1>1, <1>2

LEMMA ProbeKeepsCircuits ==
  ASSUME CircuitTypeOK, CircuitsConsistent, now \in Nat, now' = now,
         NEW p \in Provider, MarkProbed(p), UNCHANGED <<failures, openedAt>>
  PROVE  CircuitTypeOK' /\ CircuitsConsistent'
<1>1. CircuitTypeOK'
  BY DEF CircuitTypeOK, MarkProbed, CircuitState
<1>2. CircuitsConsistent'
  BY DEF CircuitTypeOK, CircuitsConsistent, MarkProbed, CircuitState, Never
<1>3. QED BY <1>1, <1>2

\* No operation touches the circuit of a provider that nobody called: a
\* report names a called provider, and only an open circuit is probed.
LEMMA SuccessSparesUncalled ==
  ASSUME CircuitTypeOK, UncalledNeverBlamed, UNCHANGED tried,
         NEW p, RecordSuccess(p)
  PROVE  UncalledNeverBlamed'
  BY DEF CircuitTypeOK, UncalledNeverBlamed, RecordSuccess

LEMMA FailureSparesUncalled ==
  ASSUME CircuitTypeOK, UncalledNeverBlamed, UNCHANGED tried,
         NEW r \in Request, NEW p \in tried[r], RecordFailure(p)
  PROVE  UncalledNeverBlamed'
<1>1. CASE p \notin Provider
  <2>1. UNCHANGED <<state, failures, openedAt>>
    BY <1>1 DEF RecordFailure, circuitVars
  <2>2. QED BY <2>1 DEF UncalledNeverBlamed
<1>2. CASE p \in Provider
  BY <1>2 DEF CircuitTypeOK, UncalledNeverBlamed, RecordFailure
<1>3. QED BY <1>1, <1>2

LEMMA ProbeSparesUncalled ==
  ASSUME CircuitTypeOK, UncalledNeverBlamed, UNCHANGED failures,
         \A q \in Request : tried[q] \subseteq tried'[q],
         NEW p, MarkProbed(p)
  PROVE  UncalledNeverBlamed'
  BY DEF CircuitTypeOK, UncalledNeverBlamed, MarkProbed

-----------------------------------------------------------------------------

LEMMA StepInv == IInv /\ [Next]_vars => IInv'
<1> SUFFICES ASSUME IInv, [Next]_vars PROVE IInv'
  OBVIOUS
<1> USE DEF IInv
<1>0. CircuitTypeOK /\ now \in Nat
  BY DEF TypeOK, CircuitTypeOK
<1>1. ASSUME NEW r \in Request, Arrive(r) PROVE IInv'
  BY <1>1 DEF Arrive, Go, circuitVars, inputVars, TypeOK, Location,
       CircuitsConsistent, CurrentWasCalled, RefusedAfterCalls, UncalledNeverBlamed
<1>2. ASSUME NEW r \in Request, CallProvider(r) PROVE IInv'
  <2>1. PICK p \in Provider :
          /\ Go(r, "select", "call")
          /\ MarkProbed(p)
          /\ tried' = [tried EXCEPT ![r] = @ \cup {p}]
          /\ current' = [current EXCEPT ![r] = p]
          /\ UNCHANGED <<failures, openedAt, now, inputVars, copies, aborted>>
    BY <1>2 DEF CallProvider
  <2>2. CircuitTypeOK' /\ CircuitsConsistent'
    BY <1>0, <2>1, ProbeKeepsCircuits
  <2>3. TypeOK'
    BY <2>1, <2>2 DEF TypeOK, CircuitTypeOK, Go, inputVars, Location
  <2>4. \A q \in Request : tried[q] \subseteq tried'[q]
    BY <2>1 DEF TypeOK
  <2>5. UncalledNeverBlamed'
    BY <1>0, <2>1, <2>4, ProbeSparesUncalled
  <2>6. CurrentWasCalled'
    BY <2>1 DEF TypeOK, CurrentWasCalled, Go
  <2>7. RefusedAfterCalls'
    BY <2>1, <2>4 DEF TypeOK, RefusedAfterCalls, Go
  <2>8. QED BY <2>2, <2>3, <2>5, <2>6, <2>7
<1>3. ASSUME NEW r \in Request, GiveUp(r) PROVE IInv'
  <2>1. /\ Go(r, "select", "thrown")
        /\ UNCHANGED <<failures, openedAt, now, inputVars, current, copies, tried, aborted>>
    BY <1>3 DEF GiveUp
  <2>2. CASE NoneAvailable /\ UNCHANGED state
    <3>1. \A p \in Provider : state[p] = "OPEN"
      BY <2>2 DEF NoneAvailable, IsAvailable
    <3>2. \A p \in Provider : \E q \in Request : p \in tried[q]
      BY <3>1 DEF UncalledNeverBlamed
    <3>3. TypeOK' /\ CircuitsConsistent'
      BY <2>1, <2>2 DEF TypeOK, CircuitsConsistent, Go, inputVars, Location
    <3>4. CurrentWasCalled' /\ RefusedAfterCalls'
      BY <2>1, <3>2 DEF TypeOK, CurrentWasCalled, RefusedAfterCalls, Go
    <3>5. UncalledNeverBlamed'
      BY <2>1, <2>2 DEF UncalledNeverBlamed
    <3>6. QED BY <3>3, <3>4, <3>5
  <2>3. CASE \E p \in tried[r] : GetAvailable(p) /\ MarkProbed(p)
    <3>1. PICK p \in tried[r] : MarkProbed(p)
      BY <2>3
    <3>2. p \in Provider
      BY <3>1 DEF TypeOK
    <3>3. CircuitTypeOK' /\ CircuitsConsistent'
      BY <1>0, <2>1, <3>1, <3>2, ProbeKeepsCircuits
    <3>4. TypeOK'
      BY <2>1, <3>3 DEF TypeOK, CircuitTypeOK, Go, inputVars, Location
    <3>5. CurrentWasCalled' /\ RefusedAfterCalls'
      BY <2>1, <3>1 DEF TypeOK, CurrentWasCalled, RefusedAfterCalls, Go
    <3>6. UncalledNeverBlamed'
      BY <1>0, <2>1, <3>1, ProbeSparesUncalled
    <3>7. QED BY <3>3, <3>4, <3>5, <3>6
  <2>4. QED BY <1>3, <2>2, <2>3 DEF GiveUp
<1>4. ASSUME NEW r \in Request, pc[r] \in {"call", "body"},
             NEW to \in Location, to # "thrown", Go(r, pc[r], to),
             to \in {"call", "failed", "body"} => pc[r] = "call",
             RecordSuccess(current[r]) \/ RecordFailure(current[r]),
             UNCHANGED <<now, inputVars, current, copies, tried, aborted>>
      PROVE  IInv'
  <2>1. current[r] \in tried[r] /\ current[r] \in Provider
    BY <1>4 DEF CurrentWasCalled, TypeOK
  <2>2. CircuitTypeOK' /\ CircuitsConsistent'
    BY <1>0, <1>4, <2>1, SuccessKeepsCircuits, FailureKeepsCircuits
  <2>3. TypeOK'
    BY <1>4, <2>2 DEF TypeOK, CircuitTypeOK, Go, inputVars
  <2>4. CurrentWasCalled' /\ RefusedAfterCalls'
    BY <1>4 DEF TypeOK, CurrentWasCalled, RefusedAfterCalls, Go
  <2>5. UncalledNeverBlamed'
    BY <1>0, <1>4, <2>1, SuccessSparesUncalled, FailureSparesUncalled
  <2>6. QED BY <2>2, <2>3, <2>4, <2>5
<1>5. ASSUME NEW r \in Request, CallSucceeds(r) PROVE IInv'
  BY <1>4, <1>5 DEF CallSucceeds, Go, Location
<1>6. ASSUME NEW r \in Request, CallFails(r) PROVE IInv'
  BY <1>4, <1>6 DEF CallFails, Go, Location
<1>7. ASSUME NEW r \in Request, BodyEnds(r) PROVE IInv'
  BY <1>4, <1>7 DEF BodyEnds, Go, Location
<1>8. ASSUME NEW r \in Request, BodyFails(r) PROVE IInv'
  BY <1>4, <1>8 DEF BodyFails, Go, Location
<1>9. ASSUME NEW r \in Request, SignalFailover(r) PROVE IInv'
  <2>1. /\ Go(r, "failed", "select")
        /\ UNCHANGED <<failures, openedAt, now, inputVars, current, tried, aborted>>
        /\ copies' \in [Request -> 1 .. 2]
    BY <1>9 DEF SignalFailover, Reinject, TypeOK
  <2>2. CASE UNCHANGED state
    <3>1. TypeOK' /\ CircuitsConsistent'
      BY <2>1, <2>2 DEF TypeOK, CircuitsConsistent, Go, inputVars, Location
    <3>2. CurrentWasCalled' /\ RefusedAfterCalls'
      BY <2>1 DEF TypeOK, CurrentWasCalled, RefusedAfterCalls, Go
    <3>3. UncalledNeverBlamed'
      BY <2>1, <2>2 DEF UncalledNeverBlamed
    <3>4. QED BY <3>1, <3>2, <3>3
  <2>3. CASE \E p \in Provider : MarkProbed(p)
    <3>1. PICK p \in Provider : MarkProbed(p)
      BY <2>3
    <3>2. CircuitTypeOK' /\ CircuitsConsistent'
      BY <1>0, <2>1, <3>1, ProbeKeepsCircuits
    <3>3. TypeOK'
      BY <2>1, <3>2 DEF TypeOK, CircuitTypeOK, Go, inputVars, Location
    <3>4. CurrentWasCalled' /\ RefusedAfterCalls'
      BY <2>1 DEF TypeOK, CurrentWasCalled, RefusedAfterCalls, Go
    <3>5. UncalledNeverBlamed'
      BY <1>0, <2>1, <3>1, ProbeSparesUncalled
    <3>6. QED BY <3>2, <3>3, <3>4, <3>5
  <2>4. QED BY <1>9, <2>2, <2>3 DEF SignalFailover
<1>10. ASSUME NEW r \in Request, ClientDisconnects(r) PROVE IInv'
  BY <1>10 DEF ClientDisconnects, circuitVars, inputVars, TypeOK,
       CircuitsConsistent, CurrentWasCalled, RefusedAfterCalls, UncalledNeverBlamed
<1>11. ASSUME NEW r \in Request, RouteCatches(r) PROVE IInv'
  <2>1. /\ Go(r, "thrown", "done")
        /\ UNCHANGED <<now, inputVars, current, copies, tried, aborted>>
        /\ UNCHANGED circuitVars \/ RecordFailure(current[r])
    BY <1>11 DEF RouteCatches
  <2>2. CircuitTypeOK' /\ CircuitsConsistent'
    <3>1. CASE UNCHANGED circuitVars
      BY <1>0, <2>1, <3>1 DEF circuitVars, CircuitTypeOK, CircuitsConsistent
    <3>2. CASE RecordFailure(current[r])
      BY <1>0, <2>1, <3>2, FailureKeepsCircuits
    <3>3. QED BY <2>1, <3>1, <3>2
  <2>3. TypeOK'
    BY <2>1, <2>2 DEF TypeOK, CircuitTypeOK, Go, inputVars, Location
  <2>4. CurrentWasCalled' /\ RefusedAfterCalls'
    BY <2>1 DEF TypeOK, CurrentWasCalled, RefusedAfterCalls, Go
  <2>5. UncalledNeverBlamed'
    <3>1. CASE UNCHANGED circuitVars
      BY <2>1, <3>1 DEF circuitVars, UncalledNeverBlamed
    <3>2. CASE RecordFailure(current[r]) /\ tried[r] # {}
      BY <1>0, <2>1, <3>2, FailureSparesUncalled DEF CurrentWasCalled
    <3>3. CASE tried[r] = {}
      BY <2>1, <3>3 DEF Go, RefusedAfterCalls, UncalledNeverBlamed
    <3>4. QED BY <2>1, <3>1, <3>2, <3>3
  <2>6. QED BY <2>2, <2>3, <2>4, <2>5
<1>12. CASE Tick
  BY <1>12 DEF Tick, circuitVars, requestVars, inputVars, TypeOK, Never,
       CircuitsConsistent, CurrentWasCalled, RefusedAfterCalls, UncalledNeverBlamed
<1>13. CASE UNCHANGED vars
  BY <1>13 DEF vars, circuitVars, requestVars, inputVars, TypeOK,
       CircuitsConsistent, CurrentWasCalled, RefusedAfterCalls, UncalledNeverBlamed
<1>14. QED
  BY <1>1, <1>2, <1>3, <1>5, <1>6, <1>7, <1>8, <1>9, <1>10, <1>11, <1>12, <1>13
     DEF Next, Serve

-----------------------------------------------------------------------------

LEMMA Invariance == Spec => []IInv
  BY InitInv, StepInv, PTL DEF Spec

\* Every variable keeps its type in every execution.
THEOREM TypeCorrect == Spec => []TypeOK
  BY Invariance, PTL DEF IInv

\* A closed circuit is always below its threshold and an open one always
\* knows since when it rests (recordFailure, lines 54-67).
THEOREM CircuitsStayConsistent == Spec => []CircuitsConsistent
  BY Invariance, PTL DEF IInv

\* A provider that no request called is never charged with a failure, though
\* the route reports the provider that the model's name suggests
\* (completions.js:104, 207 and 266).
THEOREM BlameIsEarned == Spec => []UncalledNeverBlamed
  BY Invariance, PTL DEF IInv

-----------------------------------------------------------------------------
(***************************************************************************)
(* The refinement: every step of the breaker is a step of the circuits'    *)
(* life cycle, or leaves the circuits and the clock alone.                 *)
(***************************************************************************)

CircuitStep == [Circuits!Next]_(Circuits!vars)

LEMMA SuccessRefines ==
  ASSUME CircuitTypeOK, UNCHANGED now, NEW p \in Provider, RecordSuccess(p)
  PROVE  CircuitStep
<1>1. CASE state[p] = "HALF_OPEN"
  <2>1. Circuits!Recover(p)
    BY <1>1 DEF RecordSuccess, CircuitTypeOK, Circuits!Recover
  <2>2. QED BY <2>1 DEF CircuitStep, Circuits!Next
<1>2. CASE state[p] # "HALF_OPEN"
  <2>1. UNCHANGED <<state, openedAt, now>>
    BY <1>2 DEF RecordSuccess, CircuitTypeOK
  <2>2. QED BY <2>1 DEF CircuitStep, Circuits!vars
<1>3. QED BY <1>1, <1>2

LEMMA FailureRefines ==
  ASSUME CircuitTypeOK, UNCHANGED now, NEW p, RecordFailure(p)
  PROVE  CircuitStep
<1>1. CASE p \in Provider /\ Trips(p)
  <2>1. Circuits!Trip(p)
    BY <1>1 DEF RecordFailure, Trips, CircuitTypeOK, Circuits!Trip
  <2>2. QED BY <1>1, <2>1 DEF CircuitStep, Circuits!Next
<1>2. CASE ~ (p \in Provider /\ Trips(p))
  <2>1. UNCHANGED <<state, openedAt, now>>
    BY <1>2 DEF RecordFailure, CircuitTypeOK, circuitVars
  <2>2. QED BY <2>1 DEF CircuitStep, Circuits!vars
<1>3. QED BY <1>1, <1>2

LEMMA ProbeRefines ==
  ASSUME CircuitTypeOK, now \in Nat, UNCHANGED <<openedAt, now>>,
         NEW p \in Provider, GetAvailable(p), MarkProbed(p)
  PROVE  CircuitStep
<1>1. IsAvailable(p)
  BY DEF GetAvailable
<1>2. CASE state[p] = "OPEN"
  <2>1. now >= openedAt[p] + ResetTimeoutMs
    BY <1>1, <1>2 DEF IsAvailable, Rested, CircuitTypeOK, Never
  <2>2. Circuits!Probe(p)
    BY <1>2, <2>1 DEF MarkProbed, CircuitTypeOK, Circuits!Probe
  <2>3. QED BY <2>2 DEF CircuitStep, Circuits!Next
<1>3. CASE state[p] # "OPEN"
  <2>1. UNCHANGED <<state, openedAt, now>>
    BY <1>3 DEF MarkProbed, CircuitTypeOK
  <2>2. QED BY <2>1 DEF CircuitStep, Circuits!vars
<1>4. QED BY <1>2, <1>3

LEMMA StepRefines == IInv /\ [Next]_vars => CircuitStep
<1> SUFFICES ASSUME IInv, [Next]_vars PROVE CircuitStep
  OBVIOUS
<1>0. CircuitTypeOK /\ now \in Nat
  BY DEF IInv, TypeOK, CircuitTypeOK
<1>1. CASE UNCHANGED <<state, openedAt, now>>
  BY <1>1 DEF CircuitStep, Circuits!vars
<1>2. ASSUME NEW r \in Request, CallProvider(r) PROVE CircuitStep
  BY <1>0, <1>2, ProbeRefines DEF CallProvider
<1>3. ASSUME NEW r \in Request, GiveUp(r) PROVE CircuitStep
  <2>1. CASE \E p \in tried[r] : GetAvailable(p) /\ MarkProbed(p)
    <3>1. PICK p \in Provider : GetAvailable(p) /\ MarkProbed(p)
      BY <2>1 DEF IInv, TypeOK
    <3>2. QED BY <1>0, <1>3, <3>1, ProbeRefines DEF GiveUp
  <2>2. QED BY <1>1, <1>3, <2>1 DEF GiveUp
<1>4. ASSUME NEW r \in Request, CallSucceeds(r) \/ BodyEnds(r) PROVE CircuitStep
  <2>1. current[r] \in Provider
    BY <1>4 DEF IInv, CurrentWasCalled, TypeOK, CallSucceeds, BodyEnds, Go
  <2>2. QED BY <1>0, <1>4, <2>1, SuccessRefines DEF CallSucceeds, BodyEnds
<1>5. ASSUME NEW r \in Request, CallFails(r) \/ BodyFails(r) PROVE CircuitStep
  BY <1>0, <1>5, FailureRefines DEF CallFails, BodyFails
<1>6. ASSUME NEW r \in Request, SignalFailover(r) PROVE CircuitStep
  BY <1>0, <1>1, <1>6, ProbeRefines DEF SignalFailover
<1>7. ASSUME NEW r \in Request, RouteCatches(r) PROVE CircuitStep
  BY <1>0, <1>1, <1>7, FailureRefines DEF RouteCatches, circuitVars
<1>8. ASSUME NEW r \in Request, Arrive(r) \/ ClientDisconnects(r) PROVE CircuitStep
  BY <1>1, <1>8 DEF Arrive, ClientDisconnects, circuitVars
<1>9. CASE Tick
  BY <1>9 DEF Tick, circuitVars, CircuitStep, Circuits!Next, Circuits!Tick
<1>10. CASE UNCHANGED vars
  BY <1>1, <1>10 DEF vars, circuitVars
<1>11. QED
  BY <1>2, <1>3, <1>4, <1>5, <1>6, <1>7, <1>8, <1>9, <1>10 DEF Next, Serve

\* The breaker driven by any number of concurrent requests implements the
\* life cycle that the head of circuit-breaker.js states.
THEOREM BreakerImplementsCircuits == Spec => KeepsCircuitPromise
<1>1. Init => Circuits!Init
  BY DEF Init, Circuits!Init, Never
<1>2. QED
  BY <1>1, Invariance, StepRefines, PTL
     DEF Spec, KeepsCircuitPromise, Circuits!Spec, CircuitStep

-----------------------------------------------------------------------------
(***************************************************************************)
(* The account of reports: who may have charged a circuit, and how often.  *)
(* A step adds at most one request to one of the two sets of one provider, *)
(* and it is a step that reports to that provider's circuit.               *)
(***************************************************************************)

ReportsInv ==
  /\ \A p \in Provider : IsFiniteSet(Answered(p)) /\ IsFiniteSet(Ended(p))
  /\ FailuresAreReported

\* The number of reports is a number.
LEMMA ReportsType ==
  ASSUME ReportsInv, NEW p \in Provider
  PROVE  Reports(p) \in Nat
BY FS_CardinalityType DEF ReportsInv, Reports

\* Reports are only added.
MoreReports(p) ==
  /\ IsFiniteSet(Answered(p)') /\ IsFiniteSet(Ended(p)')
  /\ Reports(p)' \in {Reports(p), Reports(p) + 1}

\* No report: the two sets stay, and so does what is CLOSED.
LEMMA NothingReported ==
  ASSUME CircuitTypeOK, ReportsInv,
         \A p \in Provider : Answered(p)' = Answered(p) /\ Ended(p)' = Ended(p),
         failures' = failures,
         \A p \in Provider : state[p] = "CLOSED" => state'[p] = "CLOSED"
  PROVE  ReportsInv'
<1>1. ASSUME NEW p \in Provider  PROVE Reports(p)' = Reports(p)
  BY DEF Reports
<1>2. QED BY <1>1 DEF ReportsInv, FailuresAreReported

\* One report to the circuit of q.
LEMMA OneReported ==
  ASSUME CircuitTypeOK, ReportsInv, \A p \in Provider : MoreReports(p),
         NEW q, q \in Provider => Reports(q)' = Reports(q) + 1,
         RecordSuccess(q) \/ RecordFailure(q) \/ UNCHANGED circuitVars
  PROVE  ReportsInv'
<1> SUFFICES ASSUME NEW p \in Provider
             PROVE  /\ failures'[p] <= Reports(p)'
                    /\ state'[p] # "CLOSED" => FailureThreshold <= Reports(p)'
  BY DEF ReportsInv, FailuresAreReported, MoreReports
<1> DEFINE n == Reports(p)  m == Reports(p)'
<1>1. n \in Nat /\ failures[p] <= n /\ (state[p] # "CLOSED" => FailureThreshold <= n)
  BY ReportsType DEF ReportsInv, FailuresAreReported
<1>2. m \in {n, n + 1} /\ (p = q => m = n + 1)
  BY DEF MoreReports
<1> HIDE DEF n, m
<1>3. failures[p] \in Nat /\ failures'[p] <= m /\ (state'[p] # "CLOSED" => FailureThreshold <= m)
  <2>1. failures[p] \in Nat  BY DEF CircuitTypeOK
  <2>2. CASE RecordSuccess(q)
    <3>1. failures'[p] \in {0, failures[p]} /\ (state'[p] # "CLOSED" => state[p] # "CLOSED")
      BY <2>2 DEF RecordSuccess, CircuitTypeOK
    <3> QED BY <1>1, <1>2, <2>1, <3>1
  <2>3. CASE RecordFailure(q) /\ p = q
    <3>1. /\ failures'[p] = failures[p] + 1
          /\ state'[p] # "CLOSED" => state[p] # "CLOSED" \/ failures[p] + 1 >= FailureThreshold
      BY <2>3 DEF RecordFailure, Trips, CircuitTypeOK
    <3> QED BY <1>1, <1>2, <2>1, <2>3, <3>1
  <2>4. CASE (RecordFailure(q) /\ p # q) \/ UNCHANGED circuitVars
    <3>1. failures'[p] = failures[p] /\ state'[p] = state[p]
      BY <2>4 DEF RecordFailure, CircuitTypeOK, circuitVars
    <3> QED BY <1>1, <1>2, <2>1, <3>1
  <2> QED BY <2>2, <2>3, <2>4
<1> QED BY <1>3 DEF m

\* The first report of a request: its call has come back.
LEMMA AnswerIsReported ==
  ASSUME IInv, ReportsInv, NEW r \in Request, NEW to \in {"body", "failed"},
         Go(r, "call", to), UNCHANGED <<current, tried>>
  PROVE  /\ \A p \in Provider : MoreReports(p)
         /\ Reports(current[r])' = Reports(current[r]) + 1
<1>1. current[r] \in tried[r] /\ current[r] \in Provider /\ pc[r] = "call"
  BY DEF IInv, CurrentWasCalled, TypeOK, Go
<1>2. ASSUME NEW p \in Provider
      PROVE  /\ Answered(p)' = IF p = current[r] THEN Answered(p) \union {r} ELSE Answered(p)
             /\ Ended(p)' = Ended(p)
  BY <1>1 DEF Answered, Ended, Go, IInv, TypeOK
<1>3. r \notin Answered(current[r])
  BY <1>1 DEF Answered
<1>4. ASSUME NEW p \in Provider
      PROVE  /\ MoreReports(p)
             /\ p = current[r] => Reports(p)' = Reports(p) + 1
  <2>1. IsFiniteSet(Answered(p)) /\ IsFiniteSet(Ended(p))  BY DEF ReportsInv
  <2>2. Cardinality(Answered(p)) \in Nat /\ Cardinality(Ended(p)) \in Nat
    BY <2>1, FS_CardinalityType
  <2>3. CASE p = current[r]
    <3>1. /\ IsFiniteSet(Answered(p) \union {r})
          /\ Cardinality(Answered(p) \union {r}) = Cardinality(Answered(p)) + 1
      BY <1>3, <2>1, <2>3, FS_AddElement
    <3>2. Cardinality(Answered(p)') = Cardinality(Answered(p)) + 1
      BY <1>2, <2>3, <3>1
    <3>3. Cardinality(Ended(p)') = Cardinality(Ended(p))
      BY <1>2
    <3>4. Reports(p)' = Reports(p) + 1
      BY <2>2, <3>2, <3>3 DEF Reports
    <3> QED BY <1>2, <2>1, <2>3, <3>1, <3>4 DEF MoreReports
  <2>4. CASE p # current[r]
    BY <1>2, <2>1, <2>4 DEF MoreReports, Reports
  <2> QED BY <2>3, <2>4
<1> QED BY <1>1, <1>4

\* The second report of a request: its route is done.
LEMMA EndIsReported ==
  ASSUME IInv, ReportsInv, NEW r \in Request, NEW from \in {"body", "thrown"},
         Go(r, from, "done"), UNCHANGED <<current, tried>>
  PROVE  /\ \A p \in Provider : MoreReports(p)
         /\ current[r] \in Provider => Reports(current[r])' = Reports(current[r]) + 1
<1>1. ASSUME NEW p \in Provider
      PROVE  /\ Ended(p)' = IF p = current[r] THEN Ended(p) \union {r} ELSE Ended(p)
             /\ Answered(p)' = Answered(p)
  BY DEF Answered, Ended, Go, IInv, TypeOK
<1>2. r \notin Ended(current[r])
  BY DEF Ended, Go
<1>3. ASSUME NEW p \in Provider
      PROVE  /\ MoreReports(p)
             /\ p = current[r] => Reports(p)' = Reports(p) + 1
  <2>1. IsFiniteSet(Answered(p)) /\ IsFiniteSet(Ended(p))  BY DEF ReportsInv
  <2>2. Cardinality(Answered(p)) \in Nat /\ Cardinality(Ended(p)) \in Nat
    BY <2>1, FS_CardinalityType
  <2>3. CASE p = current[r]
    <3>1. /\ IsFiniteSet(Ended(p) \union {r})
          /\ Cardinality(Ended(p) \union {r}) = Cardinality(Ended(p)) + 1
      BY <1>2, <2>1, <2>3, FS_AddElement
    <3> QED BY <1>1, <2>1, <2>2, <2>3, <3>1 DEF MoreReports, Reports
  <2>4. CASE p # current[r]
    BY <1>1, <2>1, <2>4 DEF MoreReports, Reports
  <2> QED BY <2>3, <2>4
<1> QED BY <1>3

\* A step of a request that neither comes back from a call nor ends.
LEMMA MoveReportsNothing ==
  ASSUME IInv, NEW r \in Request, pc[r] \notin {"call", "done"},
         NEW to \in Location \ {"call", "done"}, pc' = [pc EXCEPT ![r] = to],
         UNCHANGED <<current, tried>>
  PROVE  \A p \in Provider : Answered(p)' = Answered(p) /\ Ended(p)' = Ended(p)
BY DEF Answered, Ended, IInv, TypeOK

LEMMA ReportsInit == Init => ReportsInv
<1> SUFFICES ASSUME Init  PROVE ReportsInv
  OBVIOUS
<1>1. ASSUME NEW p \in Provider
      PROVE  /\ Answered(p) = {} /\ Ended(p) = {}
             /\ failures[p] = 0 /\ state[p] = "CLOSED"
  BY DEF Init, Answered, Ended
<1>2. \A p \in Provider : Reports(p) = 0
  BY <1>1, FS_EmptySet DEF Reports
<1> QED BY <1>1, <1>2, FS_EmptySet DEF ReportsInv, FailuresAreReported

LEMMA ReportsStep == IInv /\ ReportsInv /\ [Next]_vars => ReportsInv'
<1> SUFFICES ASSUME IInv, ReportsInv, [Next]_vars  PROVE ReportsInv'
  OBVIOUS
<1>0. CircuitTypeOK
  BY DEF IInv, TypeOK, CircuitTypeOK
<1>1. ASSUME NEW p \in Provider, MarkProbed(p), NEW q \in Provider, state[q] = "CLOSED"
      PROVE  state'[q] = "CLOSED"
  BY <1>0, <1>1 DEF MarkProbed, CircuitTypeOK
<1>2. ASSUME NEW r \in Request, CallProvider(r)  PROVE ReportsInv'
  <2>1. PICK p \in Provider :
          /\ p \notin tried[r] /\ Go(r, "select", "call") /\ MarkProbed(p)
          /\ tried' = [tried EXCEPT ![r] = @ \cup {p}]
          /\ current' = [current EXCEPT ![r] = p]
          /\ UNCHANGED failures
    BY <1>2 DEF CallProvider
  <2>2. \A q \in Provider : Answered(q)' = Answered(q) /\ Ended(q)' = Ended(q)
    BY <2>1 DEF Answered, Ended, Go, IInv, TypeOK
  <2> QED BY <1>0, <1>1, <2>1, <2>2, NothingReported
<1>3. ASSUME NEW r \in Request, Arrive(r) \/ GiveUp(r) \/ SignalFailover(r)
      PROVE  ReportsInv'
  <2>1. PICK to \in Location \ {"call", "done"} :
          pc[r] \notin {"call", "done"} /\ pc' = [pc EXCEPT ![r] = to]
    BY <1>3 DEF Arrive, GiveUp, SignalFailover, Go, Location
  <2>2. UNCHANGED <<current, tried, failures>>
    BY <1>3 DEF Arrive, GiveUp, SignalFailover, circuitVars
  <2>3. UNCHANGED state \/ \E p \in Provider : MarkProbed(p)
    BY <1>3 DEF Arrive, GiveUp, SignalFailover, circuitVars, IInv, TypeOK
  <2>4. \A p \in Provider : Answered(p)' = Answered(p) /\ Ended(p)' = Ended(p)
    BY <2>1, <2>2, MoveReportsNothing
  <2> QED BY <1>0, <1>1, <2>2, <2>3, <2>4, NothingReported
<1>4. ASSUME NEW r \in Request, CallSucceeds(r) \/ CallFails(r)  PROVE ReportsInv'
  <2>1. PICK to \in {"body", "failed"} : Go(r, "call", to)
    BY <1>4 DEF CallSucceeds, CallFails
  <2>2. UNCHANGED <<current, tried>> /\ (RecordSuccess(current[r]) \/ RecordFailure(current[r]))
    BY <1>4 DEF CallSucceeds, CallFails
  <2> QED BY <1>0, <2>1, <2>2, AnswerIsReported, OneReported
<1>5. ASSUME NEW r \in Request, BodyEnds(r) \/ BodyFails(r) \/ RouteCatches(r)  PROVE ReportsInv'
  <2>1. PICK from \in {"body", "thrown"} : Go(r, from, "done")
    BY <1>5 DEF BodyEnds, BodyFails, RouteCatches
  <2>2. /\ UNCHANGED <<current, tried>>
        /\ RecordSuccess(current[r]) \/ RecordFailure(current[r]) \/ UNCHANGED circuitVars
    BY <1>5 DEF BodyEnds, BodyFails, RouteCatches
  <2> QED BY <1>0, <2>1, <2>2, EndIsReported, OneReported
<1>6. ASSUME UNCHANGED <<pc, current, tried, failures, state>>  PROVE ReportsInv'
  <2>1. \A p \in Provider : Answered(p)' = Answered(p) /\ Ended(p)' = Ended(p)
    BY <1>6 DEF Answered, Ended
  <2> QED BY <1>0, <1>6, <2>1, NothingReported
<1>7. ASSUME NEW r \in Request, ClientDisconnects(r)  PROVE ReportsInv'
  BY <1>6, <1>7 DEF ClientDisconnects, circuitVars
<1>8. CASE Tick
  BY <1>6, <1>8 DEF Tick, circuitVars, requestVars
<1>9. CASE UNCHANGED vars
  BY <1>6, <1>9 DEF vars, circuitVars, requestVars
<1>10. QED
  BY <1>2, <1>3, <1>4, <1>5, <1>7, <1>8, <1>9 DEF Next, Serve

\* Of every circuit: its count is no higher than the calls and the requests
\* that reported to it, and it has opened only after as many of them as the
\* threshold says (executeWithFailover, lines 146-148, and completions.js:190,
\* 207 and 266).
THEOREM ReportsAreShared == Spec => []FailuresAreReported
<1>1. ReportsInv => FailuresAreReported
  BY DEF ReportsInv
<1>2. QED
  BY <1>1, ReportsInit, ReportsStep, Invariance, PTL DEF Spec

-----------------------------------------------------------------------------
(***************************************************************************)
(* The upstream client: with its fetches and sleeps it is a finer view of  *)
(* the calls of CircuitBreaker, so all of the above is true of it.         *)
(***************************************************************************)

LEMMA UpstreamStep == [NextUpstream]_allVars => [Next]_vars
<1> SUFFICES ASSUME [NextUpstream]_allVars  PROVE [Next]_vars
  OBVIOUS
<1>1. ASSUME NEW r \in Request, Proceed(r)  PROVE [Next]_vars
  <2>1. CASE StartCall(r)
    BY <2>1 DEF StartCall, Next, Serve
  <2>2. CASE FetchSucceeds(r)
    BY <2>2 DEF FetchSucceeds, Next, Serve
  <2>3. CASE FetchFails(r)
    BY <2>3 DEF FetchFails, Next, Serve
  <2>4. CASE Wake(r)
    BY <2>4 DEF Wake
  <2>5. CASE GiveUp(r) \/ SignalFailover(r) \/ BodyEnds(r) \/ BodyFails(r) \/ RouteCatches(r)
    BY <2>5 DEF Next, Serve
  <2>6. QED
    BY <1>1, <2>1, <2>2, <2>3, <2>4, <2>5 DEF Proceed
<1>2. ASSUME NEW r \in Request, Arrive(r) \/ ClientDisconnects(r)  PROVE [Next]_vars
  BY <1>2 DEF Next
<1>3. CASE Tick
  BY <1>3 DEF Next
<1>4. CASE UNCHANGED allVars
  BY <1>4 DEF allVars
<1>5. QED
  BY <1>1, <1>2, <1>3, <1>4 DEF NextUpstream

\* The upstream client under the breaker implements the breaker: a call with
\* its retries is to the circuits one call, which they hear of once.
THEOREM UpstreamImplementsBreaker == FairUpstream => Spec
<1>1. InitUpstream => Init
  BY DEF InitUpstream
<1>2. QED
  BY <1>1, UpstreamStep, PTL DEF FairUpstream, Spec

\* So its calls, with all their retries, keep the promise of the circuits.
THEOREM UpstreamKeepsPromise == FairUpstream => KeepsCircuitPromise
  BY UpstreamImplementsBreaker, BreakerImplementsCircuits, PTL

\* Only a sync call is tried again, while it is under way, and no call is made
\* up of more than Retries + 1 fetches (fetchSync).
RetriesBounded ==
  \A r \in Request :
    /\ attempt[r] \in 0 .. Retries
    /\ asleep[r] => pc[r] = "call" /\ sync[r] /\ attempt[r] < Retries

UpstreamInv ==
  /\ IInv
  /\ attempt \in [Request -> Nat]
  /\ asleep \in [Request -> BOOLEAN]
  /\ RetriesBounded

LEMMA RetriesInit == InitUpstream => UpstreamInv
<1> SUFFICES ASSUME InitUpstream  PROVE UpstreamInv
  OBVIOUS
<1>1. IInv
  BY InitInv DEF InitUpstream
<1>2. QED
  BY <1>1, RetriesAssumption DEF InitUpstream, UpstreamInv, RetriesBounded, RetriesAssumption

\* A step of a request that moves it, or leaves it where it sleeps.
LEMMA RetriesOfMove ==
  ASSUME UpstreamInv, IInv', NEW r \in Request, ~ asleep[r],
         NEW from, NEW to, Go(r, from, to), UNCHANGED <<sync, upstreamVars>>
  PROVE  UpstreamInv'
BY DEF UpstreamInv, RetriesBounded, Go, IInv, TypeOK, upstreamVars

LEMMA RetriesStep == UpstreamInv /\ [NextUpstream]_allVars => UpstreamInv'
<1> SUFFICES ASSUME UpstreamInv, [NextUpstream]_allVars  PROVE UpstreamInv'
  OBVIOUS
<1>1. IInv'
  BY UpstreamStep, StepInv DEF UpstreamInv
<1>2. /\ pc \in [Request -> Location] /\ attempt \in [Request -> Nat]
      /\ asleep \in [Request -> BOOLEAN] /\ Retries \in Nat /\ RetriesBounded
  BY RetriesAssumption DEF UpstreamInv, IInv, TypeOK, RetriesAssumption
<1>3. \A r \in Request : pc[r] # "call" => ~ asleep[r]
  BY <1>2 DEF RetriesBounded
<1>4. ASSUME NEW r \in Request, StartCall(r)  PROVE UpstreamInv'
  <2>1. /\ pc[r] = "select" /\ pc' = [pc EXCEPT ![r] = "call"] /\ sync' = sync
        /\ attempt' = [attempt EXCEPT ![r] = 0] /\ asleep' = asleep
    BY <1>4 DEF StartCall, CallProvider, Go, inputVars
  <2>2. QED
    BY <1>1, <1>2, <1>3, <2>1 DEF UpstreamInv, RetriesBounded
<1>5. ASSUME NEW r \in Request, FetchSucceeds(r)  PROVE UpstreamInv'
  BY <1>1, <1>5, RetriesOfMove DEF FetchSucceeds, Fetching, CallSucceeds, inputVars
<1>6. ASSUME NEW r \in Request, FetchFails(r)  PROVE UpstreamInv'
  <2>1. CASE CallFails(r) /\ UNCHANGED upstreamVars
    BY <1>1, <1>6, <2>1, RetriesOfMove DEF FetchFails, Fetching, CallFails, inputVars
  <2>2. ASSUME NEW status, MayRetry(r, status), asleep' = [asleep EXCEPT ![r] = TRUE],
               UNCHANGED <<vars, attempt>>
        PROVE  UpstreamInv'
    <3>1. pc[r] = "call" /\ sync[r] /\ attempt[r] < Retries
      BY <1>6, <2>2 DEF FetchFails, Fetching, MayRetry
    <3>2. UNCHANGED <<pc, sync, attempt>>
      BY <2>2 DEF vars, requestVars, inputVars
    <3>3. asleep' \in [Request -> BOOLEAN] /\ \A q \in Request : q # r => asleep'[q] = asleep[q]
      BY <1>2, <2>2
    <3>4. RetriesBounded'
      BY <1>2, <3>1, <3>2, <3>3 DEF RetriesBounded
    <3>5. QED
      BY <1>1, <1>2, <3>2, <3>3, <3>4 DEF UpstreamInv
  <2>3. QED
    BY <1>6, <2>1, <2>2 DEF FetchFails
<1>7. ASSUME NEW r \in Request, Wake(r)  PROVE UpstreamInv'
  <2>1. asleep[r] /\ asleep' = [asleep EXCEPT ![r] = FALSE]
        /\ attempt' = [attempt EXCEPT ![r] = @ + 1] /\ UNCHANGED <<pc, sync>>
    BY <1>7 DEF Wake, vars, requestVars, inputVars
  <2>2. attempt[r] < Retries
    BY <1>2, <2>1 DEF RetriesBounded
  <2>3. attempt'[r] = attempt[r] + 1 /\ attempt' \in [Request -> Nat]
        /\ \A q \in Request : q # r => attempt'[q] = attempt[q]
    BY <1>2, <2>1
  <2>4. asleep' \in [Request -> BOOLEAN] /\ ~ asleep'[r]
        /\ \A q \in Request : q # r => asleep'[q] = asleep[q]
    BY <1>2, <2>1
  <2>5. RetriesBounded'
    BY <1>2, <2>1, <2>2, <2>3, <2>4 DEF RetriesBounded
  <2>6. QED
    BY <1>1, <2>3, <2>4, <2>5 DEF UpstreamInv
<1>8. ASSUME NEW r \in Request,
             \/ GiveUp(r) \/ SignalFailover(r) \/ BodyEnds(r) \/ BodyFails(r)
             \/ RouteCatches(r) \/ Arrive(r),
             UNCHANGED upstreamVars
      PROVE  UpstreamInv'
  <2>1. PICK from \in Location \ {"call"}, to \in Location : Go(r, from, to)
    BY <1>8 DEF GiveUp, SignalFailover, BodyEnds, BodyFails, RouteCatches, Arrive, Location
  <2>2. ~ asleep[r]
    BY <1>3, <2>1 DEF Go
  <2>3. sync' = sync
    BY <1>8 DEF GiveUp, SignalFailover, BodyEnds, BodyFails, RouteCatches, Arrive, inputVars
  <2>4. QED
    BY <1>1, <1>8, <2>1, <2>2, <2>3, RetriesOfMove
<1>9. ASSUME UNCHANGED <<pc, sync, upstreamVars>>  PROVE UpstreamInv'
  BY <1>1, <1>9 DEF UpstreamInv, RetriesBounded, upstreamVars
<1>10. ASSUME NEW r \in Request, ClientDisconnects(r), UNCHANGED upstreamVars  PROVE UpstreamInv'
  BY <1>9, <1>10 DEF ClientDisconnects, inputVars
<1>11. CASE Tick /\ UNCHANGED upstreamVars
  BY <1>9, <1>11 DEF Tick, requestVars, inputVars
<1>12. CASE UNCHANGED allVars
  BY <1>9, <1>12 DEF allVars, vars, requestVars, inputVars
<1>13. QED
  BY <1>4, <1>5, <1>6, <1>7, <1>8, <1>10, <1>11, <1>12 DEF NextUpstream, Proceed

\* fetchSync: however its fetches fail, a call ends after Retries + 1 of them,
\* and a stream is fetched once.
THEOREM RetriesAreBounded == FairUpstream => []RetriesBounded
<1>1. UpstreamInv => RetriesBounded
  BY DEF UpstreamInv
<1>2. QED
  BY <1>1, RetriesInit, RetriesStep, PTL DEF FairUpstream
=============================================================================
