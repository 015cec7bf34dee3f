------------------------------- MODULE Upstream -------------------------------
(***************************************************************************)
(* The upstream client (apps/gateway/src/services/upstream.js) under the   *)
(* circuit breaker: what CircuitBreaker shows as one call of a provider is *)
(* here the fetches that make it up.  A stream is fetched once.  A sync    *)
(* call is fetched up to retries + 1 times, with a sleep in between, and   *)
(* the breaker hears of the last fetch only.                               *)
(***************************************************************************)
EXTENDS CircuitBreaker

CONSTANT Retries  \* the default of fetchSync's parameter, 3

ASSUME RetriesAssumption == Retries \in Nat

VARIABLES
  attempt,  \* the loop variable of fetchSync
  asleep    \* it waits for sleep() instead of fetch()

upstreamVars == <<attempt, asleep>>
allVars == <<vars, upstreamVars>>

InitUpstream ==
  /\ Init
  /\ attempt = [r \in Request |-> 0]
  /\ asleep = [r \in Request |-> FALSE]

Fetching(r) == pc[r] = "call" /\ ~ asleep[r]

\* fn(provider) makes a new client and starts its first fetch.
StartCall(r) ==
  /\ CallProvider(r)
  /\ attempt' = [attempt EXCEPT ![r] = 0]
  /\ UNCHANGED asleep

\* response.ok, and for a sync call a body that response.json() can read.
FetchSucceeds(r) ==
  /\ Fetching(r)
  /\ CallSucceeds(r)
  /\ UNCHANGED upstreamVars

\* Another attempt follows: of a sync call, after an answer with a status of
\* 500 or more, a network error, a timeout or a body that is no JSON.  An
\* answer with another status is an UpstreamError, which is final.
MayRetry(r, status) == sync[r] /\ status # "refused" /\ attempt[r] < Retries

\* An outcome other than success.  The client's abort ends a stream's fetch;
\* a sync call is not told of it.
FetchFails(r) ==
  /\ EventLoopIdle
  /\ Fetching(r)
  /\ \E status \in {"refused", "5xx", "error"} :
       IF MayRetry(r, status)
       THEN /\ asleep' = [asleep EXCEPT ![r] = TRUE]
            /\ UNCHANGED <<vars, attempt>>
       ELSE CallFails(r) /\ UNCHANGED upstreamVars

\* A slip: the attempts are not counted.
Wake_Uncounted(r) ==
  /\ EventLoopIdle
  /\ asleep[r]
  /\ asleep' = [asleep EXCEPT ![r] = FALSE]
  /\ UNCHANGED <<vars, attempt>>

\* sleep(200 * 2^attempt) is over, and the next attempt starts.
Wake(r) ==
  /\ EventLoopIdle
  /\ asleep[r]
  /\ asleep' = [asleep EXCEPT ![r] = FALSE]
  /\ attempt' = [attempt EXCEPT ![r] = @ + 1]
  /\ UNCHANGED vars

Proceed(r) ==
  \/ StartCall(r) \/ FetchSucceeds(r) \/ FetchFails(r) \/ Wake(r)
  \/ /\ GiveUp(r) \/ SignalFailover(r) \/ BodyEnds(r) \/ BodyFails(r) \/ RouteCatches(r)
     /\ UNCHANGED upstreamVars

NextUpstream ==
  \/ \E r \in Request :
       \/ Proceed(r)
       \/ (Arrive(r) \/ ClientDisconnects(r)) /\ UNCHANGED upstreamVars
  \/ Tick /\ UNCHANGED upstreamVars

\* Each fetch ends: AbortSignal.timeout sees to it.  So does each sleep.
\* RequestsAreAnswered of CircuitBreaker is what this finer view still owes.
FairUpstream ==
  /\ InitUpstream /\ [][NextUpstream]_allVars
  /\ \A r \in Request : WF_allVars(Proceed(r))
===============================================================================
