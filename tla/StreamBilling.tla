---------------------------- MODULE StreamBilling ----------------------------
(***************************************************************************)
(* How the completions of one organisation are metered: the pre-check of   *)
(* the authentication middleware (apps/gateway/src/middleware/auth.js),    *)
(* the StreamGuard that counts the lines of a stream while it is forwarded *)
(* (packages/billing/src/counter.js), and the one increment of the shared  *)
(* Redis counter with which the route ends                                 *)
(* (apps/gateway/src/routes/completions.js).                               *)
(*                                                                         *)
(* Requests overlap freely, in one gateway process or in several: all they *)
(* share is the counter.  A request works with the count it read at its    *)
(* pre-check.  Whether a provider answers at all is CircuitBreaker's       *)
(* matter: here a call fails or succeeds.                                  *)
(*                                                                         *)
(* Text is abstracted to the lines that the guard counts, those that begin *)
(* with +, ~ or -.  A chunk completes some of them, the one that was       *)
(* pending included, and may leave the beginning of another one.           *)
(***************************************************************************)
EXTENDS Integers

CONSTANTS
  Request,    \* completions requests, each served once
  LineLimit,  \* the organisation's monthly limit
  MaxLines,   \* governance.maxLines, or 0 when there is none
  MaxChunk,   \* bound on the lines a chunk completes
  MaxText     \* bound on the lines of one response

ASSUME LimitAssumption == LineLimit \in Nat /\ MaxLines \in Nat
ASSUME BoundAssumption == MaxChunk \in Nat /\ MaxText \in Nat

VARIABLES
  count,      \* the counter of the organisation in Redis
  pc,         \* where a request awaits something
  sync,       \* it is served by handleSync
  linesUsed,  \* pashContext.linesUsed: the count its pre-check read
  counted,    \* lines the guard has counted (_sessionLines)
  partial,    \* the guard's buffer holds the beginning of a line
  started,    \* lines of which the guard was given at least the beginning
  forwarded,  \* complete lines written to the client
  aborted,    \* abortController.signal.aborted, by the client
  outcome,    \* how the request left the route's read loop
  billed      \* lines its increment added to the counter

guardVars == <<counted, partial, started>>
requestVars == <<pc, sync, linesUsed, guardVars, forwarded, aborted, outcome, billed>>
vars == <<count, requestVars>>

\* "call" awaits the rate limiter and the upstream, "read" the next chunk,
\* "bill" the increment.
Location == {"idle", "call", "read", "bill", "done"}

\* "ended": the response was over; "limit": the guard stopped it; "cut": the
\* community limiter or the client's abort did.
Outcome == {"none", "refused", "failed", "ended", "limit", "cut"}

TypeOK ==
  /\ count \in Nat
  /\ pc \in [Request -> Location]
  /\ sync \in [Request -> BOOLEAN]
  /\ linesUsed \in [Request -> Nat]
  /\ counted \in [Request -> Nat]
  /\ partial \in [Request -> BOOLEAN]
  /\ started \in [Request -> Nat]
  /\ forwarded \in [Request -> Nat]
  /\ aborted \in [Request -> BOOLEAN]
  /\ outcome \in [Request -> Outcome]
  /\ billed \in [Request -> Nat]

Init ==
  /\ count = 0
  /\ pc = [r \in Request |-> "idle"]
  /\ sync \in [Request -> BOOLEAN]
  /\ linesUsed = [r \in Request |-> 0]
  /\ counted = [r \in Request |-> 0]
  /\ partial = [r \in Request |-> FALSE]
  /\ started = [r \in Request |-> 0]
  /\ forwarded = [r \in Request |-> 0]
  /\ aborted = [r \in Request |-> FALSE]
  /\ outcome = [r \in Request |-> "none"]
  /\ billed = [r \in Request |-> 0]

-----------------------------------------------------------------------------

\* effectiveLimit (completions.js:61): the limit of the guard.
EffectiveLimit ==
  IF MaxLines # 0 /\ MaxLines < LineLimit THEN MaxLines ELSE LineLimit

Go(r, from, to) == pc[r] = from /\ pc' = [pc EXCEPT ![r] = to]

Leaves(r, how) == outcome' = [outcome EXCEPT ![r] = how]

\* 1 for the beginning of a line, 0 without one.
Pending(p) == IF p THEN 1 ELSE 0

\* checkLimit: a request passes only under the monthly limit.
Check(r) ==
  /\ Go(r, "idle", IF count < LineLimit THEN "call" ELSE "done")
  /\ linesUsed' = [linesUsed EXCEPT ![r] = count]
  /\ IF count < LineLimit THEN UNCHANGED outcome ELSE Leaves(r, "refused")
  /\ UNCHANGED <<count, sync, guardVars, forwarded, aborted, billed>>

\* The rate limiter refuses the request or every upstream call failed.
CallFails(r) ==
  /\ Go(r, "call", "done")
  /\ Leaves(r, "failed")
  /\ UNCHANGED <<count, sync, linesUsed, guardVars, forwarded, aborted, billed>>

\* The headers of a stream arrived.
StreamOpens(r) ==
  /\ ~ sync[r]
  /\ Go(r, "call", "read")
  /\ UNCHANGED <<count, sync, linesUsed, guardVars, forwarded, aborted, outcome, billed>>

\* handleSync: no guard, all lines of the whole content are counted.
SyncAnswer(r) ==
  /\ sync[r]
  /\ \E n \in 0 .. MaxText :
       /\ Go(r, "call", IF n > 0 THEN "bill" ELSE "done")
       /\ counted' = [counted EXCEPT ![r] = n]
       /\ started' = [started EXCEPT ![r] = n]
       /\ forwarded' = [forwarded EXCEPT ![r] = n]
  /\ Leaves(r, "ended")
  /\ UNCHANGED <<count, sync, linesUsed, partial, aborted, billed>>

\* A slip: what is left in the buffer is thrown away.
Flush_DropsRest(r, lines, rest) ==
  /\ counted' = [counted EXCEPT ![r] = lines]
  /\ partial' = [partial EXCEPT ![r] = FALSE]
  /\ pc' = [pc EXCEPT ![r] = IF lines > 0 THEN "bill" ELSE "done"]

\* A slip: the loop is not left as long as nothing was counted.
Flush_Waits(r, lines, rest) ==
  LET total == lines + Pending(rest)
  IN /\ counted' = [counted EXCEPT ![r] = total]
     /\ partial' = [partial EXCEPT ![r] = FALSE]
     /\ pc' = [pc EXCEPT ![r] = IF total > 0 THEN "bill" ELSE @]

\* After the read loop: what is left in the buffer counts as a line, and the
\* total of the guard is sent to the counter, if there is any.
Flush(r, lines, rest) ==
  LET total == lines + Pending(rest)
  IN /\ counted' = [counted EXCEPT ![r] = total]
     /\ partial' = [partial EXCEPT ![r] = FALSE]
     /\ pc' = [pc EXCEPT ![r] = IF total > 0 THEN "bill" ELSE "done"]

\* push: with n more lines the organisation's count, as far as this request
\* knows it, is at the limit.
LimitReached(r, n) == linesUsed[r] + counted[r] + n >= EffectiveLimit

\* A slip: the count of a stopped stream is cut down to the limit.
Chunk_Clamps(r) ==
  /\ pc[r] = "read"
  /\ \E n \in 0 .. MaxChunk :
       /\ LimitReached(r, n)
       /\ started' = [started EXCEPT ![r] = @ + n]
       /\ Flush(r, EffectiveLimit - linesUsed[r], FALSE)
       /\ Leaves(r, "limit")
  /\ UNCHANGED <<count, sync, linesUsed, forwarded, aborted, billed>>

\* A slip: a chunk is written before the guard has looked at it.
Chunk_WritesFirst(r) ==
  /\ pc[r] = "read"
  /\ \E n \in 0 .. MaxChunk :
       /\ started[r] + n <= MaxText
       /\ started' = [started EXCEPT ![r] = @ + n]
       /\ forwarded' = [forwarded EXCEPT ![r] = @ + n]
       /\ IF LimitReached(r, n)
          THEN Flush(r, counted[r] + n, FALSE) /\ Leaves(r, "limit")
          ELSE /\ counted' = [counted EXCEPT ![r] = @ + n]
               /\ UNCHANGED <<pc, outcome, partial>>
  /\ UNCHANGED <<count, sync, linesUsed, aborted, billed>>

\* A slip: the guard starts from zero instead of the organisation's count.
Chunk_OwnLinesOnly(r) ==
  /\ pc[r] = "read"
  /\ \E n \in 0 .. MaxChunk :
       /\ started[r] + n <= MaxText
       /\ started' = [started EXCEPT ![r] = @ + n]
       /\ IF counted[r] + n >= EffectiveLimit
          THEN /\ Flush(r, counted[r] + n, FALSE)
               /\ Leaves(r, "limit")
               /\ UNCHANGED forwarded
          ELSE /\ counted' = [counted EXCEPT ![r] = @ + n]
               /\ forwarded' = [forwarded EXCEPT ![r] = @ + n]
               /\ UNCHANGED <<pc, outcome, partial>>
  /\ UNCHANGED <<count, sync, linesUsed, aborted, billed>>

\* A chunk: the guard's push, then the write or, at the limit, the stop.  The
\* chunk with which the limit is reached is counted but not written.
Chunk(r) ==
  /\ pc[r] = "read"
  /\ \E n \in 0 .. MaxChunk, rest \in BOOLEAN :
       /\ n = 0 /\ partial[r] => rest
       /\ started[r] + n + Pending(rest) - Pending(partial[r]) <= MaxText
       /\ started' = [started EXCEPT ![r] = @ + n + Pending(rest) - Pending(partial[r])]
       /\ IF LimitReached(r, n)
          THEN /\ Flush(r, counted[r] + n, rest)
               /\ Leaves(r, "limit")
               /\ UNCHANGED forwarded
          ELSE /\ counted' = [counted EXCEPT ![r] = @ + n]
               /\ partial' = [partial EXCEPT ![r] = rest]
               /\ forwarded' = [forwarded EXCEPT ![r] = @ + n]
               /\ UNCHANGED <<pc, outcome>>
  /\ UNCHANGED <<count, sync, linesUsed, aborted, billed>>

\* The response is over.
StreamEnds(r) ==
  /\ pc[r] = "read"
  /\ Flush(r, counted[r], partial[r])
  /\ Leaves(r, "ended")
  /\ UNCHANGED <<count, sync, linesUsed, started, forwarded, aborted, billed>>

\* The community limiter puts its marker in the place of a chunk; the loop
\* ends before the guard sees it.
CommunityLimit(r) ==
  /\ pc[r] = "read"
  /\ Flush(r, counted[r], partial[r])
  /\ Leaves(r, "cut")
  /\ UNCHANGED <<count, sync, linesUsed, started, forwarded, aborted, billed>>

ClientDisconnects(r) ==
  /\ ~ sync[r] /\ ~ aborted[r]
  /\ pc[r] \in {"call", "read"}
  /\ aborted' = [aborted EXCEPT ![r] = TRUE]
  /\ UNCHANGED <<count, pc, sync, linesUsed, guardVars, forwarded, outcome, billed>>

\* read() rejects: an abort only leaves the loop, any other error goes to the
\* catch block, which counts nothing.
ReadFails(r) ==
  /\ pc[r] = "read"
  /\ IF aborted[r]
     THEN Flush(r, counted[r], partial[r]) /\ Leaves(r, "cut")
     ELSE Go(r, "read", "done") /\ Leaves(r, "failed") /\ UNCHANGED <<counted, partial>>
  /\ UNCHANGED <<count, sync, linesUsed, started, forwarded, aborted, billed>>

\* increment: INCRBY takes effect, at once for all who share the counter; a
\* failure of the EXPIRE after it is swallowed by the route.
Increment(r) ==
  /\ Go(r, "bill", "done")
  /\ count' = count + counted[r]
  /\ billed' = [billed EXCEPT ![r] = counted[r]]
  /\ UNCHANGED <<sync, linesUsed, guardVars, forwarded, aborted, outcome>>

\* INCRBY is rejected; the route swallows that, too.
IncrementLost(r) ==
  /\ Go(r, "bill", "done")
  /\ Leaves(r, "failed")
  /\ UNCHANGED <<count, sync, linesUsed, guardVars, forwarded, aborted, billed>>

Serve(r) ==
  \/ CallFails(r) \/ StreamOpens(r) \/ SyncAnswer(r)
  \/ Chunk(r) \/ StreamEnds(r) \/ CommunityLimit(r) \/ ReadFails(r)
  \/ Increment(r) \/ IncrementLost(r)

Next == \E r \in Request : Check(r) \/ ClientDisconnects(r) \/ Serve(r)

Spec == Init /\ [][Next]_vars

\* UPSTREAM_TIMEOUT_MS bounds the calls and the bodies, and Redis answers.
FairSpec == Spec /\ \A r \in Request : WF_vars(Serve(r))

-----------------------------------------------------------------------------
(***************************************************************************)
(* Properties.                                                             *)
(***************************************************************************)

\* Each line of a response is billed exactly once, however the chunks cut it
\* and whoever ended the stream, unless the stream or the increment failed:
\* the lines of push (line 128) and of flush (line 154) never overlap.
LinesBilledExactly ==
  \A r \in Request :
    pc[r] = "done" =>
      billed[r] = IF outcome[r] \in {"refused", "failed"} THEN 0 ELSE started[r]

\* A client gets lines only below the effective limit, in the view of its own
\* request ("hard limit", completions.js:60), and pays for all it got
\* when the stream did not fail.
ForwardedUnderLimit ==
  \A r \in Request :
    /\ ~ sync[r] /\ forwarded[r] > 0 => linesUsed[r] + forwarded[r] < EffectiveLimit
    /\ pc[r] = "done" /\ outcome[r] # "failed" => forwarded[r] <= billed[r]

\* However requests overlap, what a stream takes its organisation past the
\* monthly limit is at most one chunk and what others billed since its
\* pre-check: the guard goes by the count that the pre-check read (auth.js,
\* counter.js push) and never reads it again.
QuotaKept ==
  [][\A r \in Request :
       billed'[r] # billed[r] /\ ~ sync[r] =>
         count' <= LineLimit + MaxChunk + (count - linesUsed[r])]_vars

\* An admitted request is over some day, whoever ends it.
RequestsEnd == \A r \in Request : pc[r] = "call" ~> pc[r] = "done"

\* Claimed by the comment "hard limit for max lines per session/stream"
\* (completions.js:60): governance stops a stream that has maxLines lines
\* itself.  The guard adds them to what the organisation used before.
MaxLinesIsPerStream ==
  \A r \in Request :
    outcome[r] = "limit" =>
      \/ MaxLines # 0 /\ counted[r] >= MaxLines
      \/ linesUsed[r] + counted[r] >= LineLimit
=============================================================================
