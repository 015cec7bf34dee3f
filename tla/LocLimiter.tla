------------------------------ MODULE LocLimiter ------------------------------
(***************************************************************************)
(* The limiter in front of the completions route and inside its streams    *)
(* (apps/gateway/src/middleware/loc-limiter.js): which models a tier may   *)
(* use (ModelRegistry), how many requests it may make in a minute and in   *)
(* an hour, and how many weighted lines of text it may be sent.            *)
(*                                                                         *)
(* One organisation and one gateway process: both Maps of the limiter live *)
(* in the process.  The tier is always 'community', as authMiddleware      *)
(* hands none on.  Code between two awaits is one action: the preHandler,  *)
(* and the transform of one chunk.                                         *)
(***************************************************************************)
EXTENDS ModelRegistry, FiniteSets, FiniteSetsExt

CONSTANTS
  Request,       \* slots for requests: each serves one after another
  LocLimit,      \* locLimit: weighted lines
  Rpm, Rph,      \* rpm and rph
  Minute, Hour,  \* 60000 ms and 3600000 ms, in ticks
  LineSize,      \* 256 characters
  Digits,        \* characters that a byte becomes in the text of a byte array
  MaxPart,       \* bound on the characters of one chunk on each side of its
                 \* last newline
  MaxBuffer      \* bound on the characters of an unfinished line

ASSUME LimiterAssumption ==
  /\ IsFiniteSet(Request)
  /\ LocLimit \in Nat \ {0} /\ Rpm \in Nat /\ Rph \in Nat
  /\ MaxPart \in Nat /\ MaxBuffer \in Nat
  /\ Minute \in Nat \ {0} /\ Hour \in Nat /\ Minute <= Hour
  /\ LineSize \in Nat \ {0} /\ Digits \in Nat \ {0}

VARIABLES
  bytes,         \* chunks are byte arrays, of which toString makes numbers
  minuteTokens,  \* the bucket of the organisation
  hourTokens,
  minuteAge,     \* ticks since lastMinuteReset, no more than Minute
  hourAge,
  usage,         \* userUsageStore: weighted lines charged so far
  pc,            \* where a request is
  model,         \* pashLocContext.modelName
  buffered,      \* characters in the charBuffer of its stream; of a stream that
                 \* was abandoned, those that were in it
  admitted,      \* history: requests let through in each of the last ticks
  unpaid         \* history: characters that its stream passed on and that no
                 \* charge of that stream has covered

bucketVars == <<minuteTokens, hourTokens, minuteAge, hourAge>>
requestVars == <<pc, model, buffered>>
historyVars == <<admitted, unpaid>>
vars == <<registryVars, bytes, bucketVars, usage, requestVars, historyVars>>

Client == {"browser", "cicd"}

\* rpmLimit and rphLimit: a CI client gets half as much again.
PerClient(limit, client) == IF client = "cicd" THEN (limit * 3) \div 2 ELSE limit
Most(limit) == PerClient(limit, "cicd")

TypeOK ==
  /\ RegistryTypeOK
  /\ bytes \in BOOLEAN
  /\ minuteTokens \in 0..Most(Rpm) /\ hourTokens \in 0..Most(Rph)
  /\ minuteAge \in 0..Minute /\ hourAge \in 0..Hour
  /\ usage \in Nat
  /\ pc \in [Request -> {"idle", "admitted", "stream"}]
  /\ model \in [Request -> Model]
  /\ buffered \in [Request -> 0..MaxBuffer]
  /\ admitted \in [1..Hour -> Nat]
  /\ unpaid \in [Request -> Nat]

\* A bucket is made at the first request, as full as a reset makes it: a
\* bucket that is due for both resets stands for none.
Fresh ==
  /\ minuteTokens = 0 /\ hourTokens = 0
  /\ minuteAge = Minute /\ hourAge = Hour

Init ==
  /\ file \in [Model -> {Curated(p) : p \in Price}]
  /\ models = file
  /\ changes = 0
  /\ bytes \in BOOLEAN
  /\ Fresh
  /\ usage = 0
  /\ pc = [r \in Request |-> "idle"]
  /\ model \in [Request -> Model]
  /\ buffered = [r \in Request |-> 0]
  /\ admitted = [i \in 1..Hour |-> 0]
  /\ unpaid = [r \in Request |-> 0]
-----------------------------------------------------------------------------
Ceiling(n, d) == (n + d - 1) \div d

\* calculateWeightedLoc
Weight(chars, half) == Ceiling(Ceiling(chars, LineSize) * half, 2)

Positive(n) == IF n > 0 THEN n ELSE 0

\* getLocRemaining
Remaining == Positive(LocLimit - usage)

\* A slip: lastMinuteReset is not moved on.
Take_KeepsAge(client) ==
  LET minute == IF minuteAge >= Minute THEN PerClient(Rpm, client) ELSE minuteTokens
      hour   == IF hourAge >= Hour THEN PerClient(Rph, client) ELSE hourTokens
  IN /\ minuteTokens' = IF minute > 0 /\ hour > 0 THEN minute - 1 ELSE minute
     /\ hourTokens'   = IF minute > 0 /\ hour > 0 THEN hour - 1 ELSE hour
     /\ minuteAge' = minuteAge /\ hourAge' = hourAge % Hour

\* A slip: the hour's token is spent without a look at it.
Take_HourUnchecked(client) ==
  LET minute == IF minuteAge >= Minute THEN PerClient(Rpm, client) ELSE minuteTokens
      hour   == IF hourAge >= Hour THEN PerClient(Rph, client) ELSE hourTokens
  IN /\ minuteTokens' = IF minute > 0 THEN minute - 1 ELSE minute
     /\ hourTokens'   = IF minute > 0 THEN hour - 1 ELSE hour
     /\ minuteAge' = minuteAge % Minute /\ hourAge' = hourAge % Hour

\* checkRateLimit: due resets, then one token of each kind.
Take(client) ==
  LET minute == IF minuteAge >= Minute THEN PerClient(Rpm, client) ELSE minuteTokens
      hour   == IF hourAge >= Hour THEN PerClient(Rph, client) ELSE hourTokens
  IN /\ minuteTokens' = IF minute > 0 /\ hour > 0 THEN minute - 1 ELSE minute
     /\ hourTokens'   = IF minute > 0 /\ hour > 0 THEN hour - 1 ELSE hour
     /\ minuteAge' = minuteAge % Minute /\ hourAge' = hourAge % Hour

\* allowed: whether that took a token.
Taken(client) ==
  /\ (minuteAge >= Minute /\ PerClient(Rpm, client) > 0) \/ (minuteAge < Minute /\ minuteTokens > 0)
  /\ (hourAge >= Hour /\ PerClient(Rph, client) > 0) \/ (hourAge < Hour /\ hourTokens > 0)
-----------------------------------------------------------------------------
(* preRequestLocLimit. *)

\* 403 before any token is spent; what getModelConfig loaded stays loaded.
RefuseModel(r, m) ==
  /\ pc[r] = "idle" /\ ~ Allowed(m)
  /\ models' = Registry(m)
  /\ UNCHANGED <<file, changes, bytes, bucketVars, usage, requestVars, historyVars>>

\* 429: no lines remain (the token is spent all the same) or no token is left.
RefuseRate(r, m, client) ==
  /\ pc[r] = "idle" /\ Allowed(m)
  /\ Remaining = 0 \/ ~ Taken(client)
  /\ models' = Registry(m)
  /\ Take(client)
  /\ UNCHANGED <<file, changes, bytes, usage, requestVars, historyVars>>

Admit(r, m, client) ==
  /\ pc[r] = "idle" /\ Allowed(m)
  /\ Remaining > 0 /\ Taken(client)
  /\ models' = Registry(m)
  /\ Take(client)
  /\ pc' = [pc EXCEPT ![r] = "admitted"]
  /\ model' = [model EXCEPT ![r] = m]
  /\ admitted' = [admitted EXCEPT ![1] = @ + 1]
  /\ UNCHANGED <<file, changes, bytes, usage, buffered, unpaid>>
-----------------------------------------------------------------------------
(* createLocTrackingStream, while handleStream reads from it. *)

\* The provider answers, and a new tracker is put into the pipe.
Open(r) ==
  /\ pc[r] = "admitted"
  /\ pc' = [pc EXCEPT ![r] = "stream"]
  /\ buffered' = [buffered EXCEPT ![r] = 0]
  /\ unpaid' = [unpaid EXCEPT ![r] = 0]
  /\ UNCHANGED <<registryVars, bytes, bucketVars, usage, model, admitted>>

\* A chunk: done characters up to its last newline, rest after it.  Only text
\* has newlines in it.
NewChars(r, done, rest) ==
  IF bytes \/ done = 0 THEN 0 ELSE buffered[r] + done

\* A slip: a chunk without a newline does not join the buffer.
NewBuffer_Restarts(r, done, rest) ==
  IF bytes THEN buffered[r] + Digits * (done + rest) ELSE rest

NewBuffer(r, done, rest) ==
  IF bytes THEN buffered[r] + Digits * (done + rest)
  ELSE IF done = 0 THEN buffered[r] + rest ELSE rest

\* So many characters go out on a stream and so many lines are charged for it.
Settle(r, chars, lines) ==
  unpaid' = [unpaid EXCEPT ![r] = Positive(@ + chars - LineSize * lines)]

\* transform, when the chunk is passed on.
Forward(r, done, rest) ==
  /\ pc[r] = "stream" /\ done + rest > 0
  /\ LET charged == Weight(NewChars(r, done, rest), Half(model[r]))
     IN /\ charged > 0 => usage + charged < LocLimit
        /\ usage' = usage + charged
  /\ NewBuffer(r, done, rest) <= MaxBuffer
  /\ buffered' = [buffered EXCEPT ![r] = NewBuffer(r, done, rest)]
  /\ Settle(r, done + rest, usage' - usage)
  /\ UNCHANGED <<registryVars, bytes, bucketVars, pc, model, admitted>>

\* The stream is over and its buffer was dealt with.
Leave(r) ==
  /\ pc' = [pc EXCEPT ![r] = "idle"]
  /\ buffered' = [buffered EXCEPT ![r] = 0]
  /\ UNCHANGED <<registryVars, bytes, bucketVars, model, admitted>>

\* A slip: the stream goes on.
Terminate_Continues(r, done, rest) ==
  /\ pc[r] = "stream"
  /\ LET charged == Weight(NewChars(r, done, rest), Half(model[r]))
     IN /\ charged > 0 /\ usage + charged >= LocLimit
        /\ usage' = usage + charged
  /\ NewBuffer(r, done, rest) <= MaxBuffer
  /\ buffered' = [buffered EXCEPT ![r] = NewBuffer(r, done, rest)]
  /\ UNCHANGED <<registryVars, bytes, bucketVars, pc, model, historyVars>>

\* transform, when the limit is reached: the marker goes out in the place of
\* the chunk, and the stream is terminated.
Terminate(r, done, rest) ==
  /\ pc[r] = "stream"
  /\ LET charged == Weight(NewChars(r, done, rest), Half(model[r]))
     IN /\ charged > 0 /\ usage + charged >= LocLimit
        /\ usage' = usage + charged
  /\ Settle(r, 0, usage' - usage)
  /\ Leave(r)

\* flush: the provider's stream has ended.
Flush(r) ==
  /\ pc[r] = "stream"
  /\ usage' = usage + Weight(buffered[r], Half(model[r]))
  /\ Settle(r, 0, usage' - usage)
  /\ Leave(r)

\* A request that is not a stream, a failed call, a client that goes away, a
\* guard that stops the stream: flush does not run, and what the buffer holds
\* is never charged.
Abandon(r) ==
  /\ pc[r] # "idle"
  /\ pc' = [pc EXCEPT ![r] = "idle"]
  /\ UNCHANGED <<registryVars, bytes, bucketVars, usage, model, buffered, historyVars>>
-----------------------------------------------------------------------------
Tick ==
  /\ minuteAge' = IF minuteAge < Minute THEN minuteAge + 1 ELSE Minute
  /\ hourAge' = IF hourAge < Hour THEN hourAge + 1 ELSE Hour
  /\ admitted' = [i \in 1..Hour |-> IF i = 1 THEN 0 ELSE admitted[i - 1]]
  /\ UNCHANGED <<registryVars, bytes, minuteTokens, hourTokens, usage, requestVars, unpaid>>

\* The process starts again: its Maps are gone and the registry is loaded.
Restart ==
  /\ models' = IF file = Corrupt THEN NoModels ELSE file
  /\ minuteTokens' = 0 /\ hourTokens' = 0
  /\ minuteAge' = Minute /\ hourAge' = Hour
  /\ usage' = 0
  /\ pc' = [r \in Request |-> "idle"]
  /\ buffered' = [r \in Request |-> 0]
  /\ admitted' = [i \in 1..Hour |-> 0]
  /\ unpaid' = [r \in Request |-> 0]
  /\ UNCHANGED <<file, changes, bytes, model>>

Environment == UNCHANGED <<bytes, bucketVars, usage, requestVars, historyVars>>

Next ==
  \/ \E r \in Request, m \in Model :
       \/ RefuseModel(r, m)
       \/ \E client \in Client : RefuseRate(r, m, client) \/ Admit(r, m, client)
  \/ \E r \in Request :
       \/ Open(r) \/ Flush(r) \/ Abandon(r)
       \/ \E done, rest \in 0..MaxPart : Forward(r, done, rest) \/ Terminate(r, done, rest)
  \/ (Curate \/ Edit) /\ Environment
  \/ Tick \/ Restart

Spec == Init /\ [][Next]_vars
-----------------------------------------------------------------------------
(* Properties. *)

\* However the minutes and hours of the bucket lie, and whatever mix of clients
\* draws from it, any window of a minute or an hour lets through no more
\* requests than two resets fill in.  That many do get through: a reset of the
\* minute is not put off until a token is there to be taken, so that the next
\* one may follow a full bucket at once.
BurstsAreBounded ==
  LET In(n) == MapThenSumSet(LAMBDA i : admitted[i], 1..n)
  IN In(Minute) <= 2 * Most(Rpm) /\ In(Hour) <= 2 * Most(Rph)

\* The largest charge: for one line of a text, or for all the numbers of a
\* stream of byte arrays, which has no lines before its end.
MaxWeight == Weight(MaxBuffer + MaxPart, 4)

\* Streams of one organisation overlap, and each is let in while lines remain:
\* together they take the organisation past its limit by no more than one
\* charge each.  For byte arrays that charge is the whole stream.
OvershootIsBounded ==
  usage < LocLimit + Cardinality(Request) * MaxWeight

\* Whatever way the text of a stream is cut into chunks, the characters that
\* went out on it and that its charges, of LineSize characters a line, do not
\* cover are no more than its buffer holds: none at all once the stream was
\* flushed or terminated.  What an abandoned stream had in its buffer is never
\* paid for: the unfinished line of a text, but of byte arrays all that it sent.
UnpaidIsBuffered ==
  \A r \in Request : unpaid[r] <= buffered[r]

=============================================================================
