------------------------- MODULE StreamBillingProofs -------------------------
(***************************************************************************)
(* Proofs about StreamBilling, for any number of requests and any limits.  *)
(*                                                                         *)
(* The inductive invariant says, for each request by itself, how far the   *)
(* three counts of a response (started, counted, forwarded) have come at   *)
(* the place where the request waits.  A step of one request never touches *)
(* what the invariant says of another: only the shared counter links them, *)
(* and it is read at the pre-check alone.                                  *)
(***************************************************************************)
EXTENDS StreamBilling, TLAPS

\* Nothing has arrived.
Fresh(r) ==
  /\ outcome[r] = "none"
  /\ counted[r] = 0 /\ started[r] = 0 /\ forwarded[r] = 0 /\ billed[r] = 0
  /\ partial[r] = FALSE

\* The guard has counted what it has forwarded, and holds the rest.
Reading(r) ==
  /\ ~ sync[r]
  /\ outcome[r] = "none" /\ billed[r] = 0
  /\ started[r] = counted[r] + Pending(partial[r])
  /\ forwarded[r] = counted[r]
  /\ counted[r] = 0 \/ linesUsed[r] + counted[r] < EffectiveLimit

\* All that arrived is counted, and not billed yet.
Settling(r) ==
  /\ outcome[r] \in {"ended", "limit", "cut"} /\ billed[r] = 0
  /\ started[r] = counted[r]
  /\ forwarded[r] <= counted[r]
  /\ ~ sync[r] =>
       /\ forwarded[r] > 0 => linesUsed[r] + forwarded[r] < EffectiveLimit
       /\ linesUsed[r] + counted[r] <= LineLimit + MaxChunk

Over(r) ==
  /\ billed[r] = IF outcome[r] \in {"refused", "failed"} THEN 0 ELSE started[r]
  /\ ~ sync[r] /\ forwarded[r] > 0 => linesUsed[r] + forwarded[r] < EffectiveLimit
  /\ outcome[r] # "failed" => forwarded[r] <= billed[r]

RequestInv(r) ==
  /\ pc[r] \in {"idle", "call"} => Fresh(r)
  /\ pc[r] = "read" => Reading(r)
  /\ pc[r] = "bill" => Settling(r)
  /\ pc[r] = "done" => Over(r)
  /\ pc[r] \in {"call", "read"} => linesUsed[r] < LineLimit

IInv == TypeOK /\ \A r \in Request : RequestInv(r)

\* The effective limit never exceeds the organisation's.
LEMMA LimitFact == EffectiveLimit \in Nat /\ EffectiveLimit <= LineLimit
BY LimitAssumption DEF LimitAssumption, EffectiveLimit

LEMMA InitInv == Init => IInv
<1> SUFFICES ASSUME Init PROVE IInv
  OBVIOUS
<1>1. TypeOK
  BY DEF Init, TypeOK, Location, Outcome
<1>2. \A r \in Request : RequestInv(r)
  BY DEF Init, RequestInv, Fresh
<1> QED
  BY <1>1, <1>2 DEF IInv

\* What RequestInv says of a request depends on that request's row alone.
Row(q) == <<pc[q], sync[q], linesUsed[q], counted[q], partial[q], started[q],
            forwarded[q], outcome[q], billed[q]>>

LEMMA RowFact ==
  ASSUME NEW q \in Request, RequestInv(q), Row(q)' = Row(q)
  PROVE  RequestInv(q)'
<1>1. /\ pc'[q] = pc[q] /\ sync'[q] = sync[q] /\ linesUsed'[q] = linesUsed[q]
      /\ counted'[q] = counted[q] /\ partial'[q] = partial[q] /\ started'[q] = started[q]
      /\ forwarded'[q] = forwarded[q] /\ outcome'[q] = outcome[q] /\ billed'[q] = billed[q]
  BY DEF Row
<1> QED
  BY <1>1 DEF RequestInv, Fresh, Reading, Settling, Over

\* A step of r that leaves the other rows alone keeps the invariant when it
\* keeps the types and what is said of r.
LEMMA OneRequest ==
  ASSUME NEW r \in Request, IInv, TypeOK', RequestInv(r)',
         \A q \in Request \ {r} : Row(q)' = Row(q)
  PROVE  IInv'
<1>1. ASSUME NEW q \in Request PROVE RequestInv(q)'
  <2>1. CASE q = r
    BY <2>1
  <2>2. CASE q # r
    BY <2>2, RowFact DEF IInv
  <2> QED
    BY <2>1, <2>2
<1> QED
  BY <1>1 DEF IInv

LEMMA StepInv == IInv /\ [Next]_vars => IInv'
<1> SUFFICES ASSUME IInv, [Next]_vars PROVE IInv'
  OBVIOUS
<1> USE LimitAssumption, BoundAssumption DEF LimitAssumption, BoundAssumption
<1> USE DEF Location, Outcome
<1>t. TypeOK /\ \A q \in Request : RequestInv(q)
  BY DEF IInv
<1>1. ASSUME NEW r \in Request, Check(r) PROVE IInv'
  <2>1. TypeOK'
    BY <1>t, <1>1 DEF TypeOK, Check, Go, Leaves, guardVars
  <2>2. RequestInv(r)'
    BY <1>t, <1>1 DEF TypeOK, Check, Go, Leaves, guardVars, RequestInv, Fresh, Over
  <2>3. \A q \in Request \ {r} : Row(q)' = Row(q)
    BY <1>t, <1>1 DEF TypeOK, Check, Go, Leaves, guardVars, Row
  <2> QED
    BY <2>1, <2>2, <2>3, OneRequest
<1>2. ASSUME NEW r \in Request, CallFails(r) PROVE IInv'
  <2>1. TypeOK'
    BY <1>t, <1>2 DEF TypeOK, CallFails, Go, Leaves, guardVars
  <2>2. RequestInv(r)'
    BY <1>t, <1>2 DEF TypeOK, CallFails, Go, Leaves, guardVars, RequestInv, Fresh, Over
  <2>3. \A q \in Request \ {r} : Row(q)' = Row(q)
    BY <1>t, <1>2 DEF TypeOK, CallFails, Go, Leaves, guardVars, Row
  <2> QED
    BY <2>1, <2>2, <2>3, OneRequest
<1>3. ASSUME NEW r \in Request, StreamOpens(r) PROVE IInv'
  <2>1. TypeOK'
    BY <1>t, <1>3 DEF TypeOK, StreamOpens, Go, guardVars
  <2>2. RequestInv(r)'
    BY <1>t, <1>3 DEF TypeOK, StreamOpens, Go, guardVars, RequestInv, Fresh, Reading, Pending
  <2>3. \A q \in Request \ {r} : Row(q)' = Row(q)
    BY <1>t, <1>3 DEF TypeOK, StreamOpens, Go, guardVars, Row
  <2> QED
    BY <2>1, <2>2, <2>3, OneRequest
<1>4. ASSUME NEW r \in Request, SyncAnswer(r) PROVE IInv'
  <2>0. PICK n \in 0 .. MaxText :
          /\ Go(r, "call", IF n > 0 THEN "bill" ELSE "done")
          /\ counted' = [counted EXCEPT ![r] = n]
          /\ started' = [started EXCEPT ![r] = n]
          /\ forwarded' = [forwarded EXCEPT ![r] = n]
    BY <1>4 DEF SyncAnswer
  <2>1. TypeOK'
    BY <1>t, <1>4, <2>0 DEF TypeOK, SyncAnswer, Go, Leaves
  <2>2. RequestInv(r)'
    BY <1>t, <1>4, <2>0
    DEF TypeOK, SyncAnswer, Go, Leaves, RequestInv, Fresh, Settling, Over
  <2>3. \A q \in Request \ {r} : Row(q)' = Row(q)
    BY <1>t, <1>4, <2>0 DEF TypeOK, SyncAnswer, Go, Leaves, Row
  <2> QED
    BY <2>1, <2>2, <2>3, OneRequest
<1>5. ASSUME NEW r \in Request, Chunk(r) PROVE IInv'
  <2>0. PICK n \in 0 .. MaxChunk, rest \in BOOLEAN :
          /\ n = 0 /\ partial[r] => rest
          /\ started' = [started EXCEPT ![r] = @ + n + Pending(rest) - Pending(partial[r])]
          /\ IF linesUsed[r] + counted[r] + n >= EffectiveLimit
             THEN /\ Flush(r, counted[r] + n, rest)
                  /\ Leaves(r, "limit")
                  /\ UNCHANGED forwarded
             ELSE /\ counted' = [counted EXCEPT ![r] = @ + n]
                  /\ partial' = [partial EXCEPT ![r] = rest]
                  /\ forwarded' = [forwarded EXCEPT ![r] = @ + n]
                  /\ UNCHANGED <<pc, outcome>>
    BY <1>5 DEF Chunk, LimitReached
  <2>r. /\ pc[r] = "read" /\ Reading(r) /\ linesUsed[r] < LineLimit
        /\ UNCHANGED <<count, sync, linesUsed, aborted, billed>>
    BY <1>t, <1>5 DEF Chunk, RequestInv
  <2>a. started[r] + n + Pending(rest) - Pending(partial[r]) \in Nat
    <3>1. counted[r] \in Nat /\ n \in Nat /\ started[r] = counted[r] + Pending(partial[r])
      BY <1>t, <2>r DEF TypeOK, Reading
    <3>2. Pending(rest) \in Nat /\ Pending(partial[r]) \in Nat
      BY DEF Pending
    <3> QED
      BY <3>1, <3>2
  <2>4. CASE linesUsed[r] + counted[r] + n >= EffectiveLimit
    <3> DEFINE total == counted[r] + n + Pending(rest)
    <3>a. /\ counted' = [counted EXCEPT ![r] = total]
          /\ partial' = [partial EXCEPT ![r] = FALSE]
          /\ pc' = [pc EXCEPT ![r] = IF total > 0 THEN "bill" ELSE "done"]
          /\ outcome' = [outcome EXCEPT ![r] = "limit"]
          /\ forwarded' = forwarded
      BY <2>0, <2>4 DEF Flush, Leaves
    <3>b. total \in Nat /\ total <= counted[r] + n + 1 /\ n <= MaxChunk
      BY <1>t DEF TypeOK, Pending
    <3>c. started'[r] = total
      <4>1. Pending(rest) \in Nat /\ Pending(partial[r]) \in Nat /\ counted[r] \in Nat
        BY <1>t DEF TypeOK, Pending
      <4> QED
        BY <1>t, <2>0, <2>r, <4>1 DEF TypeOK, Reading
    <3> HIDE DEF total
    <3>1. TypeOK'
      BY <1>t, <2>0, <2>r, <2>a, <3>a, <3>b DEF TypeOK
    <3>2. RequestInv(r)'
      <4>1. /\ counted'[r] = total /\ pc'[r] = IF total > 0 THEN "bill" ELSE "done"
            /\ outcome'[r] = "limit" /\ forwarded'[r] = counted[r] /\ billed'[r] = 0
            /\ linesUsed'[r] = linesUsed[r] /\ sync'[r] = sync[r]
            /\ counted[r] \in Nat /\ linesUsed[r] \in Nat /\ counted[r] <= total
        BY <1>t, <2>r, <3>a, <3>b DEF TypeOK, Reading, total, Pending
      <4>2. linesUsed[r] + total <= LineLimit + MaxChunk
        BY <1>t, <2>r, <3>b, <4>1, LimitFact DEF Reading
      <4>3. counted[r] > 0 => linesUsed[r] + counted[r] < EffectiveLimit
        BY <2>r DEF Reading
      <4> QED
        BY <3>b, <3>c, <4>1, <4>2, <4>3 DEF RequestInv, Settling, Over
    <3>3. \A q \in Request \ {r} : Row(q)' = Row(q)
      BY <1>t, <2>0, <2>r, <3>a DEF TypeOK, Row
    <3> QED
      BY <3>1, <3>2, <3>3, OneRequest
  <2>5. CASE ~ (linesUsed[r] + counted[r] + n >= EffectiveLimit)
    <3>1. TypeOK'
      BY <1>t, <2>0, <2>r, <2>a, <2>5 DEF TypeOK
    <3>2. RequestInv(r)'
      BY <1>t, <2>0, <2>r, <2>5, LimitFact DEF TypeOK, Pending, RequestInv, Reading
    <3>3. \A q \in Request \ {r} : Row(q)' = Row(q)
      BY <1>t, <2>0, <2>r, <2>5 DEF TypeOK, Row
    <3> QED
      BY <3>1, <3>2, <3>3, OneRequest
  <2> QED
    BY <2>4, <2>5
<1>6. ASSUME NEW r \in Request, NEW how \in {"ended", "cut"},
             pc[r] = "read", Flush(r, counted[r], partial[r]), Leaves(r, how),
             UNCHANGED <<count, sync, linesUsed, started, forwarded, aborted, billed>>
      PROVE  IInv'
  <2>r. Reading(r) /\ linesUsed[r] < LineLimit
    BY <1>t, <1>6 DEF RequestInv
  <2>1. TypeOK'
    BY <1>t, <1>6 DEF TypeOK, Flush, Leaves, Pending
  <2>2. RequestInv(r)'
    BY <1>t, <1>6, <2>r, LimitFact
    DEF TypeOK, Flush, Leaves, Pending, RequestInv, Reading, Settling, Over
  <2>3. \A q \in Request \ {r} : Row(q)' = Row(q)
    BY <1>t, <1>6 DEF TypeOK, Flush, Leaves, Row
  <2> QED
    BY <2>1, <2>2, <2>3, OneRequest
<1>7. ASSUME NEW r \in Request, ClientDisconnects(r) PROVE IInv'
  <2>1. TypeOK'
    BY <1>t, <1>7 DEF TypeOK, ClientDisconnects, guardVars
  <2>3. \A q \in Request : Row(q)' = Row(q)
    BY <1>t, <1>7 DEF TypeOK, ClientDisconnects, guardVars, Row
  <2> QED
    BY <1>t, <2>1, <2>3, RowFact, OneRequest
<1>8. ASSUME NEW r \in Request, ReadFails(r) PROVE IInv'
  <2>1. CASE aborted[r]
    BY <1>6, <1>8, <2>1 DEF ReadFails
  <2>2. CASE ~ aborted[r]
    <3>r. Reading(r)
      BY <1>t, <1>8 DEF ReadFails, RequestInv
    <3>1. TypeOK'
      BY <1>t, <1>8, <2>2 DEF TypeOK, ReadFails, Go, Leaves
    <3>2. RequestInv(r)'
      BY <1>t, <1>8, <2>2, <3>r
      DEF TypeOK, ReadFails, Go, Leaves, RequestInv, Reading, Over
    <3>3. \A q \in Request \ {r} : Row(q)' = Row(q)
      BY <1>t, <1>8, <2>2 DEF TypeOK, ReadFails, Go, Leaves, Row
    <3> QED
      BY <3>1, <3>2, <3>3, OneRequest
  <2> QED
    BY <2>1, <2>2
<1>9. ASSUME NEW r \in Request, Increment(r) PROVE IInv'
  <2>1. TypeOK'
    BY <1>t, <1>9 DEF TypeOK, Increment, Go, guardVars
  <2>2. RequestInv(r)'
    BY <1>t, <1>9 DEF TypeOK, Increment, Go, guardVars, RequestInv, Settling, Over
  <2>3. \A q \in Request \ {r} : Row(q)' = Row(q)
    BY <1>t, <1>9 DEF TypeOK, Increment, Go, guardVars, Row
  <2> QED
    BY <2>1, <2>2, <2>3, OneRequest
<1>10. ASSUME NEW r \in Request, IncrementLost(r) PROVE IInv'
  <2>1. TypeOK'
    BY <1>t, <1>10 DEF TypeOK, IncrementLost, Go, Leaves, guardVars
  <2>2. RequestInv(r)'
    BY <1>t, <1>10 DEF TypeOK, IncrementLost, Go, Leaves, guardVars, RequestInv, Settling, Over
  <2>3. \A q \in Request \ {r} : Row(q)' = Row(q)
    BY <1>t, <1>10 DEF TypeOK, IncrementLost, Go, Leaves, guardVars, Row
  <2> QED
    BY <2>1, <2>2, <2>3, OneRequest
<1>11. CASE UNCHANGED vars
  <2>1. TypeOK'
    BY <1>t, <1>11 DEF TypeOK, vars, requestVars, guardVars
  <2>2. \A q \in Request : Row(q)' = Row(q)
    BY <1>11 DEF vars, requestVars, guardVars, Row
  <2> QED
    BY <1>t, <2>1, <2>2, RowFact DEF IInv
<1>12. ASSUME NEW r \in Request, StreamEnds(r) PROVE IInv'
  BY <1>6, <1>12 DEF StreamEnds
<1>13. ASSUME NEW r \in Request, CommunityLimit(r) PROVE IInv'
  BY <1>6, <1>13 DEF CommunityLimit
<1> QED
  BY <1>1, <1>2, <1>3, <1>4, <1>5, <1>7, <1>8, <1>9, <1>10, <1>11, <1>12, <1>13
  DEF Next, Serve

LEMMA Invariance == Spec => []IInv
BY InitInv, StepInv, PTL DEF Spec

-----------------------------------------------------------------------------

\* The types of TypeOK hold in every reachable state.
THEOREM TypeCorrect == Spec => []TypeOK
BY Invariance, PTL DEF IInv

\* A response that was not lost is billed line by line, neither twice nor
\* short, whatever the chunks cut and whoever ended it.
THEOREM BilledExactly == Spec => []LinesBilledExactly
<1>1. IInv => LinesBilledExactly
  BY DEF IInv, RequestInv, Over, LinesBilledExactly
<1> QED
  BY <1>1, Invariance, PTL

\* No stream forwards up to the limit, and what is forwarded is paid for.
THEOREM ForwardingIsBounded == Spec => []ForwardedUnderLimit
<1>1. IInv => ForwardedUnderLimit
  <2> SUFFICES ASSUME IInv, NEW r \in Request
               PROVE  /\ ~ sync[r] /\ forwarded[r] > 0 =>
                           linesUsed[r] + forwarded[r] < EffectiveLimit
                      /\ pc[r] = "done" /\ outcome[r] # "failed" =>
                           forwarded[r] <= billed[r]
    BY DEF ForwardedUnderLimit
  <2>1. RequestInv(r) /\ pc[r] \in Location /\ forwarded[r] \in Nat
    BY DEF IInv, TypeOK
  <2> QED
    BY <2>1 DEF RequestInv, Fresh, Reading, Settling, Over, Location
<1> QED
  BY <1>1, Invariance, PTL

\* However many requests overlap, in one process or several, each stream adds
\* to the overrun one chunk of its own at most.
THEOREM QuotaShared == Spec => QuotaKept
<1> DEFINE Kept ==
      \A r \in Request :
        billed'[r] # billed[r] /\ ~ sync[r] =>
          count' <= LineLimit + MaxChunk + (count - linesUsed[r])
<1>1. IInv /\ [Next]_vars => [Kept]_vars
  <2> SUFFICES ASSUME IInv, Next PROVE Kept
    OBVIOUS
  <2> SUFFICES ASSUME NEW r \in Request, billed'[r] # billed[r], ~ sync[r]
               PROVE  count' <= LineLimit + MaxChunk + (count - linesUsed[r])
    OBVIOUS
  <2>1. Increment(r)
    <3>1. PICK q \in Request : Check(q) \/ ClientDisconnects(q) \/ Serve(q)
      BY DEF Next
    <3>2. Increment(q)
      BY <3>1 DEF Check, ClientDisconnects, Serve, CallFails, StreamOpens, SyncAnswer, Chunk,
                  StreamEnds, CommunityLimit, ReadFails, IncrementLost
    <3>3. q = r
      BY <3>2 DEF IInv, TypeOK, Increment
    <3> QED
      BY <3>2, <3>3
  <2>2. Settling(r) /\ count' = count + counted[r]
    BY <2>1 DEF IInv, RequestInv, Increment, Go
  <2>3. count \in Nat /\ counted[r] \in Nat /\ linesUsed[r] \in Nat
    BY DEF IInv, TypeOK
  <2>4. linesUsed[r] + counted[r] <= LineLimit + MaxChunk
    BY <2>2 DEF Settling
  <2> QED
    BY <2>2, <2>3, <2>4, LimitAssumption, BoundAssumption DEF LimitAssumption, BoundAssumption
<1> QED
  BY <1>1, Invariance, PTL DEF Spec, QuotaKept
=============================================================================
