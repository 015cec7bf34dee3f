------------------------------ MODULE KeyCache ------------------------------
(***************************************************************************)
(* How a request is authenticated: the preHandler authMiddleware           *)
(* (apps/gateway/src/middleware/auth.js) and the AuthService behind it     *)
(* (apps/gateway/src/services/auth.js), which caches in Redis, for five    *)
(* minutes, what it read of a key in the database.                         *)
(*                                                                         *)
(* One key, whose row in the database changes while requests that carry it *)
(* are served, by one gateway process or by many.  Each action is a        *)
(* request's work from one await to the next.  A request that carries no   *)
(* key, or no provider key to go on with, is refused before it touches     *)
(* anything, and is left out.                                              *)
(***************************************************************************)
EXTENDS Integers

CONSTANTS
  Request,    \* slots for requests: each serves one after another
  Terms,      \* what an active row may say: plan, line limit, governance
  None,       \* no row, or a revoked one; no answer in the cache
  Ttl,        \* KEY_TTL_SECONDS, in ticks
  MaxFaults   \* bound on failed commands and queries

ASSUME NoneAssumption == None \notin Terms
ASSUME BoundAssumption == Ttl \in Nat \ {0} /\ MaxFaults \in Nat

VARIABLES
  row,     \* what the database says of the key
  cached,  \* pash:keycheck:<hash> in Redis
  left,    \* ticks until the cached answer expires
  pc,      \* what a request does next
  org,     \* what its verify has found
  faults,  \* failed commands and queries so far
  age      \* history: ticks since the cached answer was last the row, or
           \* what some request had read of the row and not yet stored

vars == <<row, cached, left, pc, org, faults, age>>

Location == {"idle", "lookup", "store", "precheck"}

TypeOK ==
  /\ row \in Terms \union {None}
  /\ cached \in Terms \union {None}
  /\ left \in 0..Ttl
  /\ left = 0 <=> cached = None
  /\ pc \in [Request -> Location]
  /\ org \in [Request -> Terms \union {None}]
  /\ \A r \in Request : pc[r] \in {"store", "precheck"} <=> org[r] # None
  /\ faults \in 0..MaxFaults
  /\ age \in 0..Ttl

Init ==
  /\ row \in Terms \union {None}
  /\ cached = None
  /\ left = 0
  /\ pc = [r \in Request |-> "idle"]
  /\ org = [r \in Request |-> None]
  /\ faults = 0
  /\ age = 0

\* A request goes on with what verify has found, or is over.
Go(r, l, found) ==
  /\ pc' = [pc EXCEPT ![r] = l]
  /\ org' = [org EXCEPT ![r] = found]
-----------------------------------------------------------------------------
(* verify: GET of the cache, the query, and SETEX of a valid answer. *)

\* A slip: an answer that is used begins its time in the cache again.
Arrive_Slides(r) ==
  /\ pc[r] = "idle"
  /\ IF cached # None THEN Go(r, "precheck", cached) ELSE Go(r, "lookup", None)
  /\ left' = IF cached # None THEN Ttl ELSE left
  /\ UNCHANGED <<row, cached, faults>>

\* A slip: what the cache answers is stored like what the database answers.
Arrive_Stores(r) ==
  /\ pc[r] = "idle"
  /\ IF cached # None THEN Go(r, "store", cached) ELSE Go(r, "lookup", None)
  /\ UNCHANGED <<row, cached, left, faults>>

Arrive(r) ==
  /\ pc[r] = "idle"
  /\ IF cached # None THEN Go(r, "precheck", cached) ELSE Go(r, "lookup", None)
  /\ UNCHANGED <<row, cached, left, faults>>

\* The row of an active key, or "Key not found or revoked": 401.
LookUp(r) ==
  /\ pc[r] = "lookup"
  /\ IF row # None THEN Go(r, "store", row) ELSE Go(r, "idle", None)
  /\ UNCHANGED <<row, cached, left, faults>>

Store(r) ==
  /\ pc[r] = "store"
  /\ cached' = org[r] /\ left' = Ttl
  /\ Go(r, "precheck", org[r])
  /\ UNCHANGED <<row, faults>>
-----------------------------------------------------------------------------
(* authMiddleware goes on: the count of lines, read from Redis, decides. *)

\* The count is compared with the limit of org: 402, or pashContext is set from
\* org and the route begins.  StreamBilling models the count.
Precheck(r) ==
  /\ pc[r] = "precheck"
  /\ Go(r, "idle", None)
  /\ UNCHANGED <<row, cached, left, faults>>

\* A command is rejected: verify or checkLimit throws and the request ends.
\* A query that fails ends in "Auth service unavailable": 401.
Fail(r) ==
  /\ pc[r] # "idle" /\ faults < MaxFaults
  /\ faults' = faults + 1
  /\ Go(r, "idle", None)
  /\ UNCHANGED <<row, cached, left>>
-----------------------------------------------------------------------------
\* The row is written: the key revoked, or issued with other terms.
ChangeRow ==
  /\ row' \in (Terms \union {None}) \ {row}
  /\ UNCHANGED <<cached, left, pc, org, faults>>

\* A slip: the time in the cache ends, but the answer stays.
Tick_Keeps ==
  /\ left > 0
  /\ left' = left - 1
  /\ UNCHANGED <<row, cached, pc, org, faults>>

Tick ==
  /\ left > 0
  /\ left' = left - 1
  /\ cached' = IF left = 1 THEN None ELSE cached
  /\ UNCHANGED <<row, pc, org, faults>>

Step(r) == Arrive(r) \/ LookUp(r) \/ Store(r) \/ Precheck(r) \/ Fail(r)

\* The age of the cached answer after a step that lasts so many ticks.
Aged(ticks) ==
  age' = IF \/ cached' \in {None, row'}
            \/ \E r \in Request : pc[r] = "store" /\ org[r] = cached'
         THEN 0 ELSE age + ticks

Next ==
  \/ Tick /\ Aged(1)
  \/ (ChangeRow \/ \E r \in Request : Step(r)) /\ Aged(0)

Spec == Init /\ [][Next]_vars

\* Redis and the database answer or fail, and time passes.
FairSpec ==
  /\ Spec
  /\ WF_vars(Tick /\ Aged(1))
  /\ \A r \in Request : WF_vars(pc[r] # "idle" /\ Step(r) /\ Aged(0))
-----------------------------------------------------------------------------
(* Properties. *)

\* An answer is served from the cache no longer than Ttl after it was last
\* true, or last on its way from the database to the cache: using it does not
\* prolong its life, and neither do the other requests that store theirs.
StaleAnswersAreYoung == cached # None => age + left <= Ttl

\* Once a row does not change any more, a time comes after which no request
\* goes on with anything else: a revoked key stops working and new terms take
\* effect, although lookups from before the change may fill the cache after it
\* and every answer it gives is accepted.
RowTakesHold ==
  \A x \in Terms \union {None} :
    <>[](row = x) => <>[][\A r \in Request : Precheck(r) => org[r] = x]_vars
=============================================================================
