--------------------------- MODULE CircuitBreaker ---------------------------
(***************************************************************************)
(* The provider circuit breaker of the gateway                             *)
(* (apps/gateway/src/services/circuit-breaker.js) together with the part   *)
(* of the completions route that drives it                                 *)
(* (apps/gateway/src/routes/completions.js): many requests run             *)
(* executeWithFailover concurrently over one shared manager, and the route *)
(* reports the outcome of a request to the manager a second time.          *)
(*                                                                         *)
(* One action is one run-to-completion segment of JavaScript: the code     *)
(* between two awaits.  The two synchronous steps that follow a failed     *)
(* call (the look at the next provider, then the next turn of the loop)    *)
(* are separate actions only because each reads Date.now(), which may      *)
(* move between them; no other request runs in between (EventLoopIdle).    *)
(***************************************************************************)
EXTENDS Integers, Sequences, FiniteSets

CONSTANTS
  Chain,             \* provider names in priority order (CB_PROVIDER_CHAIN)
  ModelProvider,     \* the values of detectProviderName(model)
  Anthropic,         \* the one it gives for a claude model
  Request,           \* requests, each served once
  FailureThreshold,  \* CB_FAILURE_THRESHOLD
  ResetTimeoutMs,    \* CB_RESET_TIMEOUT_MS, in clock ticks
  MaxTime            \* bound on the clock

Provider == {Chain[i] : i \in DOMAIN Chain}

ASSUME ChainAssumption == Chain \in Seq(Provider)
ASSUME ThresholdAssumption == FailureThreshold \in Nat \ {0}
ASSUME TimeAssumption == ResetTimeoutMs \in Nat /\ MaxTime \in Nat

Never == -1   \* openedAt = null

VARIABLES
  state,      \* ProviderCircuit.state
  failures,   \* ProviderCircuit.failures
  openedAt,   \* ProviderCircuit.openedAt
  now,        \* Date.now()
  pc,         \* where a request is suspended or running
  sync,       \* the request is served by handleSync
  current,    \* the route's currentProvider
  blocks,     \* the model is a claude model: its prompt goes in content blocks
  copies,     \* copies of the PASH prompt in currentBody.messages
  tried,      \* the set tried of executeWithFailover
  aborted     \* abortController.signal.aborted

circuitVars == <<state, failures, openedAt>>
inputVars == <<sync, blocks>>
requestVars == <<pc, inputVars, current, copies, tried, aborted>>
vars == <<circuitVars, now, requestVars>>

CircuitState == {"CLOSED", "OPEN", "HALF_OPEN"}

\* "select" and "failed" are inside a synchronous segment, "call" awaits the
\* upstream, "body" is the route after executeWithFailover resolved, "thrown"
\* the route after it rejected.
Location == {"idle", "select", "call", "failed", "body", "thrown", "done"}

TypeOK ==
  /\ state \in [Provider -> CircuitState]
  /\ failures \in [Provider -> Nat]
  /\ openedAt \in [Provider -> Nat \cup {Never}]
  /\ now \in Nat
  /\ pc \in [Request -> Location]
  /\ sync \in [Request -> BOOLEAN]
  /\ current \in [Request -> Provider \cup ModelProvider]
  /\ blocks \in [Request -> BOOLEAN]
  /\ copies \in [Request -> 1 .. 2]
  /\ tried \in [Request -> SUBSET Provider]
  /\ aborted \in [Request -> BOOLEAN]

Init ==
  /\ state = [p \in Provider |-> "CLOSED"]
  /\ failures = [p \in Provider |-> 0]
  /\ openedAt = [p \in Provider |-> Never]
  /\ now = 0
  /\ pc = [r \in Request |-> "idle"]
  /\ sync \in [Request -> BOOLEAN]
  /\ current \in [Request -> ModelProvider]
  /\ blocks = [r \in Request |-> current[r] = Anthropic]
  /\ copies = [r \in Request |-> 1]
  /\ tried = [r \in Request |-> {}]
  /\ aborted = [r \in Request |-> FALSE]

-----------------------------------------------------------------------------
(***************************************************************************)
(* The manager's operations.                                               *)
(***************************************************************************)

Rested(p) == now - openedAt[p] >= ResetTimeoutMs

\* isAvailable, as a predicate; its effect is MarkProbed.
IsAvailable(p) == state[p] # "OPEN" \/ Rested(p)

\* isAvailable moves a rested OPEN circuit to HALF_OPEN as it answers.
MarkProbed(p) ==
  state' = [state EXCEPT ![p] = IF @ = "OPEN" THEN "HALF_OPEN" ELSE @]

\* p is what getAvailable() returns: the first available provider.  The
\* circuits before it answered FALSE, so only p's own circuit may change.
GetAvailable(p) ==
  \E i \in DOMAIN Chain :
    /\ p = Chain[i]
    /\ IsAvailable(Chain[i])
    /\ \A j \in 1 .. i - 1 : ~ IsAvailable(Chain[j])

\* getAvailable() returns null.
NoneAvailable == \A p \in Provider : ~ IsAvailable(p)

\* A slip: a success takes one failure back instead of all of them.
RecordSuccess_Decays(p) ==
  /\ failures' = [failures EXCEPT ![p] = @ - 1]
  /\ state' = [state EXCEPT ![p] = IF @ = "HALF_OPEN" THEN "CLOSED" ELSE @]
  /\ UNCHANGED openedAt

\* A name that is in no circuit (the model's provider may not be in the
\* chain) is ignored: the EXCEPT then changes nothing.
RecordSuccess(p) ==
  /\ failures' = [failures EXCEPT ![p] = 0]
  /\ state' = [state EXCEPT ![p] = IF @ = "HALF_OPEN" THEN "CLOSED" ELSE @]
  /\ UNCHANGED openedAt

\* A slip: the circuit opens one failure late.
Trips_Late(p) ==
  \/ state[p] = "CLOSED" /\ failures[p] + 1 > FailureThreshold
  \/ state[p] = "HALF_OPEN"

Trips(p) ==
  \/ state[p] = "CLOSED" /\ failures[p] + 1 >= FailureThreshold
  \/ state[p] = "HALF_OPEN"

\* A slip: every failure restarts the rest of an open circuit.
RecordFailure_Restarts(p) ==
  IF p \in Provider
  THEN /\ failures' = [failures EXCEPT ![p] = @ + 1]
       /\ state' = [state EXCEPT ![p] = IF Trips(p) THEN "OPEN" ELSE @]
       /\ openedAt' = [openedAt EXCEPT ![p] =
                         IF Trips(p) \/ state[p] = "OPEN" THEN now ELSE @]
  ELSE UNCHANGED circuitVars

RecordFailure(p) ==
  IF p \in Provider
  THEN /\ failures' = [failures EXCEPT ![p] = @ + 1]
       /\ state' = [state EXCEPT ![p] = IF Trips(p) THEN "OPEN" ELSE @]
       /\ openedAt' = [openedAt EXCEPT ![p] = IF Trips(p) THEN now ELSE @]
  ELSE UNCHANGED circuitVars

-----------------------------------------------------------------------------
(***************************************************************************)
(* The requests.                                                           *)
(***************************************************************************)

EventLoopIdle == \A r \in Request : pc[r] \notin {"select", "failed"}

Go(r, from, to) == pc[r] = from /\ pc' = [pc EXCEPT ![r] = to]

\* The route reaches executeWithFailover.
Arrive(r) ==
  /\ EventLoopIdle
  /\ Go(r, "idle", "select")
  /\ UNCHANGED <<circuitVars, now, inputVars, current, copies, tried, aborted>>

\* The loop takes a provider and calls fn(provider).
CallProvider(r) ==
  \E p \in Provider :
    /\ GetAvailable(p)
    /\ p \notin tried[r]
    /\ Go(r, "select", "call")
    /\ MarkProbed(p)
    /\ tried' = [tried EXCEPT ![r] = @ \cup {p}]
    /\ current' = [current EXCEPT ![r] = p]
    /\ UNCHANGED <<failures, openedAt, now, inputVars, copies, aborted>>

\* A slip: the loop waits for a provider that was tried to go away.
GiveUp_WhenNone(r) ==
  /\ NoneAvailable
  /\ Go(r, "select", "thrown")
  /\ UNCHANGED <<circuitVars, now, inputVars, current, copies, tried, aborted>>

\* The loop throws: no provider is available, or the available one was tried.
GiveUp(r) ==
  /\ \/ NoneAvailable /\ UNCHANGED state
     \/ \E p \in tried[r] : GetAvailable(p) /\ MarkProbed(p)
  /\ Go(r, "select", "thrown")
  /\ UNCHANGED <<failures, openedAt, now, inputVars, current, copies, tried, aborted>>

\* fn(provider) resolved: response headers of a stream, a body of a sync call.
CallSucceeds(r) ==
  /\ EventLoopIdle
  /\ Go(r, "call", "body")
  /\ RecordSuccess(current[r])
  /\ UNCHANGED <<now, inputVars, current, copies, tried, aborted>>

\* fn(provider) rejected: an upstream error, a timeout or the client's abort.
CallFails(r) ==
  /\ EventLoopIdle
  /\ Go(r, "call", "failed")
  /\ RecordFailure(current[r])
  /\ UNCHANGED <<now, inputVars, current, copies, tried, aborted>>

\* injector.inject(upstreamBody.messages, newProvider): the messages were
\* injected on arrival.  The guard of inject finds the signature in a string,
\* but not in the list of content blocks a claude model's prompt went into.
Reinject(r) == copies' = [copies EXCEPT ![r] = IF blocks[r] THEN 2 ELSE @]

\* Still in the catch block: if another provider is available, onFailover
\* injects the prompt again.
SignalFailover(r) ==
  /\ Go(r, "failed", "select")
  /\ \/ NoneAvailable /\ UNCHANGED <<state, copies>>
     \/ \E p \in Provider :
          /\ GetAvailable(p)
          /\ MarkProbed(p)
          /\ IF p # current[r] THEN Reinject(r) ELSE UNCHANGED copies
  /\ UNCHANGED <<failures, openedAt, now, inputVars, current, tried, aborted>>

\* The client closes the connection of a stream that is being served.
ClientDisconnects(r) ==
  /\ EventLoopIdle
  /\ ~ sync[r] /\ ~ aborted[r]
  /\ pc[r] \in {"call", "body", "thrown"}
  /\ aborted' = [aborted EXCEPT ![r] = TRUE]
  /\ UNCHANGED <<circuitVars, now, pc, inputVars, current, copies, tried>>

\* The route finishes: the whole body, the line limit or the client's abort
\* ends the read loop, and the route records the success once more.
BodyEnds(r) ==
  /\ EventLoopIdle
  /\ Go(r, "body", "done")
  /\ RecordSuccess(current[r])
  /\ UNCHANGED <<now, inputVars, current, copies, tried, aborted>>

\* A slip: the route charges providerName instead of currentProvider.
BodyFails_ByModel(r) ==
  /\ EventLoopIdle
  /\ ~ aborted[r]
  /\ Go(r, "body", "done")
  /\ \E p \in ModelProvider : RecordFailure(p)
  /\ UNCHANGED <<now, inputVars, current, copies, tried, aborted>>

\* Reading the body throws.  (An abort leaves the loop by break instead.)
BodyFails(r) ==
  /\ EventLoopIdle
  /\ ~ aborted[r]
  /\ Go(r, "body", "done")
  /\ RecordFailure(current[r])
  /\ UNCHANGED <<now, inputVars, current, copies, tried, aborted>>

\* A slip: the route charges every provider that the request has tried.
RouteCatches_All(r) ==
  /\ EventLoopIdle
  /\ Go(r, "thrown", "done")
  /\ failures' = [p \in Provider |-> failures[p] + IF p \in tried[r] THEN 1 ELSE 0]
  /\ state' = [p \in Provider |-> IF p \in tried[r] /\ Trips(p) THEN "OPEN" ELSE state[p]]
  /\ openedAt' = [p \in Provider |-> IF p \in tried[r] /\ Trips(p) THEN now ELSE openedAt[p]]
  /\ UNCHANGED <<now, inputVars, current, copies, tried, aborted>>

\* The route's catch block after executeWithFailover threw.
RouteCatches(r) ==
  /\ EventLoopIdle
  /\ Go(r, "thrown", "done")
  /\ IF aborted[r] THEN UNCHANGED circuitVars ELSE RecordFailure(current[r])
  /\ UNCHANGED <<now, inputVars, current, copies, tried, aborted>>

Tick ==
  /\ now < MaxTime
  /\ now' = now + 1
  /\ UNCHANGED <<circuitVars, requestVars>>

Serve(r) ==
  \/ CallProvider(r) \/ GiveUp(r)
  \/ CallSucceeds(r) \/ CallFails(r) \/ SignalFailover(r)
  \/ BodyEnds(r) \/ BodyFails(r) \/ RouteCatches(r)

Next ==
  \/ \E r \in Request : Arrive(r) \/ Serve(r) \/ ClientDisconnects(r)
  \/ Tick

Spec == Init /\ [][Next]_vars

\* A request that is being served moves on: every upstream call and every
\* body ends within UPSTREAM_TIMEOUT_MS.  Arrivals, disconnects and the clock
\* are owed nothing.
FairSpec == Spec /\ \A r \in Request : WF_vars(Serve(r))

-----------------------------------------------------------------------------
(***************************************************************************)
(* Properties.                                                             *)
(***************************************************************************)

\* The circuits alone, with the requests hidden.
Circuits == INSTANCE CircuitBreakerSpec

\* The breaker keeps the promise of CircuitBreakerSpec: no interleaving of
\* early, late and repeated reports of the requests makes a circuit skip or
\* prolong its rest, or recover without having been probed.
KeepsCircuitPromise == Circuits!Spec

\* A closed circuit has not used up its threshold, whatever mix of first and
\* second reports the concurrent requests made (recordFailure, line 58), and
\* an open one knows since when it rests (isAvailable, line 38).
CircuitsConsistent ==
  \A p \in Provider :
    /\ state[p] = "CLOSED" => failures[p] < FailureThreshold
    /\ state[p] = "OPEN" => openedAt[p] \in 0 .. now

\* A provider that no request ever called is never blamed: its circuit stays
\* closed with no failure, although the route charges the provider that the
\* model's name suggests when no call was made at all (completions.js:266).
UncalledNeverBlamed ==
  \A p \in Provider :
    (\A r \in Request : p \notin tried[r]) => state[p] = "CLOSED" /\ failures[p] = 0

\* The requests that called p and heard of it, and those that ended with p as
\* their currentProvider: each may have reported to p's circuit once as the one
\* and once as the other.
Answered(p) == {r \in Request : p \in tried[r] /\ ~ (pc[r] = "call" /\ current[r] = p)}
Ended(p) == {r \in Request : pc[r] = "done" /\ current[r] = p}
Reports(p) == Cardinality(Answered(p)) + Cardinality(Ended(p))

\* A circuit is charged once for a call and once for a request, in spite of the
\* two who report a failure (executeWithFailover, line 148, and the route,
\* completions.js:207 and 266): its count is no higher, and it has not left
\* CLOSED before that came to the threshold.  So it takes half as many requests
\* as the threshold says to open it, and never fewer.
FailuresAreReported ==
  \A p \in Provider :
    /\ failures[p] <= Reports(p)
    /\ state[p] # "CLOSED" => FailureThreshold <= Reports(p)

\* Every request that arrives is answered: the loop of executeWithFailover
\* cannot go round for ever, however circuits flip under it.
RequestsAreAnswered ==
  \A r \in Request : pc[r] = "select" ~> pc[r] = "done"

\* Claimed by the error message (circuit-breaker.js:139) and by the comment
\* "Continue loop to try next provider" (circuit-breaker.js:157): a request
\* is refused only when each provider was tried or is resting.
GivesUpOnlyWhenExhausted ==
  [][\A r \in Request :
       pc[r] = "select" /\ pc'[r] = "thrown" =>
         \A p \in Provider : p \in tried[r] \/ ~ IsAvailable(p)]_vars

\* Claimed by the header of the injector ("Double-injection prevention",
\* prompt-injector.js:13): no provider is sent the PASH prompt twice.
PromptInjectedOnce == \A r \in Request : pc[r] = "call" => copies[r] = 1
=============================================================================
