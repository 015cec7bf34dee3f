# TLA+ models of the PASH gateway

This directory holds the formal models of the gateway in this repository: TLA+
modules translated from the JavaScript source, TLC configurations that check
them on small instances, and TLAPS proofs of what matters most. Paths below are
relative to the root of the repository; line numbers are those of the sources
the models were translated from (`PROJECT.json`, `map`, names them for every
definition).

## 1. Inventory

PASH Gateway is a monorepo of Node packages. A Fastify process
(`apps/gateway`) authenticates a client, meters it, forwards its completion to
an LLM provider over a chain of circuit breakers, and keeps presentation
sessions: trees of UI components that the PASH line protocol builds. Redis
holds what processes share (counters, snapshots, cached keys, schemas); a SQL
database holds keys. `node_modules` is vendored code and is left aside.

| component | state it keeps | operations | how it interacts |
|---|---|---|---|
| circuit breaker (`services/circuit-breaker.js`) | per provider: state, failures, openedAt | isAvailable, recordSuccess, recordFailure, getAvailable, executeWithFailover | shared by all requests of a process; called by the completions route, which reports outcomes a second time |
| completions route (`routes/completions.js`) | per request: current provider, body, abort signal | handleStream, handleSync | breaker, injector, limiter, guard, counter, webhooks |
| prompt injector (`services/prompt-injector.js`) | the static prompt | inject | called on arrival and by onFailover |
| upstream client (`services/upstream.js`) | none | fetchStream, fetchSync with retries | HTTP to providers, abort and timeout signals |
| billing counter, stream guard (`packages/billing/src/counter.js`) | monthly count in Redis; lines and buffer of a stream | checkLimit, increment, push, flush | middleware reads, route and session manager write |
| authentication (`middleware/auth.js`, `services/auth.js`) | answers about keys in Redis, for 5 minutes | verify, checkLimit | reads the database; hands the terms and `linesUsed` to the route |
| community limiter (`middleware/loc-limiter.js`) | buckets and usage in memory | preRequestLocLimit, tracking stream | before and inside the route's stream |
| component tree (`packages/state-engine/src/tree.js`) | nodes, index of children, sequence, governance | mount, update, unmount, applyOp, snapshot, restoreFromSnapshot | one per session |
| session manager (`packages/state-engine/src/session.js`) | sessions in memory, snapshots in Redis, logs in memory | create, close, resume, incrementLines, saveSnapshot, logEvent, replay | presentation routes, billing counter, snapshot store |
| schema registry (`packages/registry/src/schema-store.js`) | schemas and the latest version in Redis | register, get, getLatest, listVersions, delete | schema routes |
| model registry (`services/model-registry.js`), `scripts/auto-curate-models.js` | a file and its copy in memory | load, lookups; rewrite | limiter |
| protocol (`packages/protocol/src`) | none | tokenizeLine, parseLine, serializeOp, validate | session engine, outside the repository |
| schema resolver (`packages/state-engine/src/schema-resolver.js`) | registry of schemas, filled at the start | resolve, negotiateCapabilities | parser and validator ask it for schemas |
| security pipeline (`packages/security/src`) | global regular expressions | inspect | called by the tree |
| webhooks, metrics, health, savings, CLI, React hooks, migrations, scripts | little or none | | at the edge of the system |

**Processes and scheduling.** A gateway process is one JavaScript event loop. A
handler runs without interruption from one `await` to the next; between two
awaits anything may have happened. A process has one Redis connection
(`services/redis.js`), so its commands take effect in the order in which they
were sent. Several processes may serve one organisation.

**What is hard.** Requests that overlap at their awaits over one breaker; answers
that arrive after the circuit moved on; a loop that must end while its input
changes; line counting across arbitrary chunk boundaries and five exits of one
read loop; decisions made with a count read long before; saves, closes and
resumes that overlap; crashes between a save and a bill; a tree held in two Maps
that must agree through cascades, re-used ids and rebuilds; an index over keys
that several clients write in several commands; a cached answer that outlives
what it says; a usage counter that many streams charge from their own buffers; a
serializer and a parser that each handle escapes in their own way; a log that
forgets its beginning. `PROJECT.json`, `hazards`, lists them one by one with the line where each bites.

**What makes each part correct.**

* breaker: a tripped circuit rests its full time and recovers only by a probe;
  only called providers are blamed, and no more often than calls and requests
  ended with them; every request ends.
* metering: each line is billed exactly once; nothing is forwarded at or over
  the limit; a stream passes the quota by a chunk and by what others billed
  since it began, at most.
* tree: index and parents agree, cascades are exact, a snapshot restores to the
  tree it was taken from.
* session: Redis never goes back to an older tree; a resume builds what Redis
  holds; a close leaves its tree or a newer one there; lines are billed at most
  once; a close ends; governance holds.
* schema registry: undisturbed, the index names the largest registered version;
  a write that nobody overlaps mends it for the version it writes; what it names
  can be read; nothing stays in Redis for good.
* keys: no answer is used after its time, and in the end the database decides.
* limiter: bursts are bounded, streams overshoot by a charge each, and what a
  stream has sent and not been charged for is in its buffer.
* protocol and replay: an operation arrives as it was meant; a fresh verdict
  holds; a replay never shows what was not there.

## 2. Modules

| module | what it is |
|---|---|
| `CircuitBreaker` | breaker, executeWithFailover and the route around it |
| `CircuitBreakerSpec` | abstract: the life cycle of a set of circuits, without requests |
| `Upstream` | extends `CircuitBreaker`: the fetches and sleeps that make up one call |
| `ComponentTree` | the tree with its snapshots |
| `SessionManager` | one session, its tasks, its Redis connection, faults |
| `StreamBilling` | metering of completions |
| `SchemaStore` | the schema registry as commands of overlapping clients |
| `SchemaIndexSpec` | abstract: an index of the largest registered version |
| `KeyCache` | one key, its row, its cached answer, the requests that carry it |
| `ModelRegistry` | the models' file, its copy in memory, the curation script |
| `LocLimiter` | extends `ModelRegistry`: buckets, usage, tracking of streams |
| `SchemaResolver` | resolution of a schema's version (operators only) |
| `Protocol` | extends `SchemaResolver`: tokenizer, serializer, parser, validator (operators only) |
| `Pipeline` | extends `Protocol`: engines over one tree and its log, replay |
| `CircuitBreakerProofs` | theorems about `CircuitBreaker` and `Upstream` |
| `ComponentTreeProofs`, `SessionManagerProofs`, `StreamBillingProofs`, `SchemaStoreProofs`, `KeyCacheProofs`, `LocLimiterProofs`, `PipelineProofs` | theorems about the module in the name |
| `MC*` | model values, the chain of two providers, schemas and texts, symmetry sets |

Definitions named `X_Something` directly before a definition `X` are *slips*: a
plausible bug in the code `X` stands for. No action uses them; each shows that a
property notices when `X` is replaced by it (`PROJECT.json`, `mutants`).

### CircuitBreaker

One action is one segment between awaits. A request goes `idle -> select`
(`Arrive`: the route up to executeWithFailover), `select -> call`
(`CallProvider`: getAvailable, `tried.add`, `fn(provider)`) or `select ->
thrown` (`GiveUp`), `call -> body` (`CallSucceeds`) or `call -> failed`
(`CallFails`), `failed -> select` (`SignalFailover`: the look at the next
provider and onFailover), and leaves by `BodyEnds`, `BodyFails` or
`RouteCatches`, the route's second report. `failed` and `select` lie inside a
synchronous segment: they are separate because each reads the clock, which may
tick between them, and `EventLoopIdle` keeps every other request out.
getAvailable changes the circuit it returns (OPEN to HALF_OPEN), also when its
answer is thrown away; `GetAvailable` is the choice and `MarkProbed` the effect.
The route listens to `close` of the request object, which Node versions raise
at different moments, so `ClientDisconnects` may come at any time. `copies` and
`blocks` keep what of the messages matters: how often the prompt is in them, and
whether it sits in content blocks, where the guard of inject does not see it.
The model's provider need not be in the chain; its reports are then ignored, as
`Map.get(...)?.` does.

`CircuitBreakerSpec` hides the requests: `Trip`, `Probe` after the rest,
`Recover`, `Tick`. `KeepsCircuitPromise` is that `CircuitBreaker` implements it,
with `state`, `openedAt` and `now` mapped to themselves.

`Upstream` opens up the one step that `CircuitBreaker` calls a call. A stream is
one fetch; a sync call is up to `Retries + 1` fetches with a sleep between two,
and `MayRetry` is the look at the status (`upstream.js:85-99`). The breaker hears
of the last fetch only, so a provider that fails four times and one that fails
once are blamed alike. All other steps are those of `CircuitBreaker`.

### ComponentTree

`nodes` and `children` are the two Maps, as functions on their keys. Insertion
and `seq` are those of `mount`; `Descendants` states what the breadth-first
search over the index returns, without its queue: the least set with the root
that is closed under the index. `saved` is the array of the last snapshot, each
entry with a position. A restore is `BeginRestore`, one `RestoreNode` per turn
of its loop (whose `mount` may be refused by governance and whose result the
code ignores) and `EndRestore`, which may come early since the security pipeline
can throw. `rules` is the governance of the current tree: the method works on
any tree, the session manager calls it on one without governance. Operations
that return an error leave the tree alone and are stuttering steps.

### SessionManager

One session. A *client* task makes the calls of the presentation routes one
after the other; *engine* tasks are whoever drives the session: incrementLines
and saveSnapshot. (In this repository the routes call create, resume,
saveSnapshot, close and replay; incrementLines and applyOp are the library's
interface for an engine.) Each await is one Redis command: `Send` puts a task on
the connection, `Reply` serves the one at its head. What a call captured before
the await is in `snap`, `held` and `amount`; what it reads after it, it reads
then (`CloseSaved` reads the line count of its object, `CloseBilled` removes
whatever is in the index). A tree is the set of operations it has absorbed:
`ComponentTree` is the module that shows a rebuilt tree to be the saved one.
`incrby` and the `expire` after it are one command here; the second changes no
count. `CommandFails` rejects a command before or after it took effect.

### StreamBilling

The requests of one organisation, in any number of processes. `Check` is the
pre-check; `linesUsed` is the count it read, which the guard starts from. Text is
the number of lines that the guard counts (those that begin with `+`, `~` or
`-`): a chunk completes `n` of them and may leave the beginning of another one.
`started` is a history variable: lines of which the guard saw at least the
beginning. The five exits of the read loop are `StreamEnds`, `Chunk` at the
limit, `CommunityLimit` (the limiter's marker in the place of a chunk), and
`ReadFails` with or without an abort; all but the last flush the guard and bill.

### SchemaStore

One component of one organisation. An action is one Redis command with what the
code does with its reply: register is `Register` (HSET), `Expire`, `Compare` (GET
of the index) and `Raise` (SETEX); delete is `Delete` (DEL), `Check` (GET),
`ScanKey` for each key that the SCAN comes to, at a moment of its own, and
`Recompute` (SETEX or DEL); getLatest is `GetLatest` and `Fetch`. `CommandFails`
ends a call anywhere, `Tick` lets keys expire. `prefixed` says whether the
gateway's client puts a prefix before its keys, as it does by default: SCAN does
not apply it to its pattern, so a delete then finds no version (section 5).

`alone` and `calm` are history: no write overlapped this one; nothing at all has
disturbed the registry. `KeepsLatest` is that `SchemaStore` implements
`SchemaIndexSpec` while it is calm, where a version counts as registered once the
index covers it. The other properties say what remains when it is not calm.

### KeyCache

`row` is what the database says of one key, `cached` and `left` the answer in
Redis with its time. A request goes `idle -> lookup -> store -> precheck`, or
straight to `precheck` when the cache answers; each arrow is an await. The row
changes at any time. `age` is history: how long the cached answer has been
neither the row nor on its way to the cache. Slots for requests are used again,
so any number of requests follow each other.

### ModelRegistry and LocLimiter

`Registry` is the lazy reload of getModelConfig, `Curate` the script (its filters
are the choice of the models offered), `Edit` an operator who turns a model off
or damages the file. In `LocLimiter`, `Admit`, `RefuseModel` and `RefuseRate` are
the three ways through preRequestLocLimit; `Forward`, `Terminate` and `Flush` are
the transform of a chunk and its end. Lengths count characters; a chunk is what
stands before and after its last newline. `bytes` says whether the chunks are
byte arrays, whose `toString` gives numbers with commas and no newline, so that
nothing is charged before the end. A fresh bucket is one that is due for both
resets. `unpaid` is history: for each stream, the characters that went out on it
and are not covered by its charges. `Abandon` leaves them as they are: a stream
whose flush does not run never pays for its buffer.

### SchemaResolver, Protocol and Pipeline

A text is a sequence of characters of which five are special; a line is the record
of the groups of the regular expression it matches. `Serialize` and `ParseLine`
are translated separately and composed in `Pipeline`, whose property
`RoundTripIfClean` states exactly which values survive (`Clean`), as far as they
have a label of their own (`Labelled`); a value without one is dropped by the parser,
whatever became of it. `Tokens` states the result
of the tokenizer's loop: cuts at the pipes that no backslash escapes. `Pick` is
every `filter` of the code (tokens, log entries, remaining nodes): what stands at
a set of positions, in their order. `Below`, like `Descendants` of
`ComponentTree`, is the least set that is closed under the parents, which the
search in `tree.js:59-69` computes.

`Pipeline` takes a line through `Receive` (serializer at the other end, parser
here), `Validate` (against the index of this moment) and `ApplyAndLog` (the tree
and memoryObsStore), for two engines of one session; a line with an odd value is
the last of its behaviour, which keeps the number of states in bounds. The tree
is the list of its nodes in the order of their mounts. `base` is history: the
tree that the oldest operation still in the log was applied to.

## 3. Runs

| run | instance | what it shows |
|---|---|---|
| `cb_safety` | 3 requests, 2 providers, threshold 2, reset 2, clock to 3 | type, consistency, blame, how often a circuit is charged, and the implementation of `CircuitBreakerSpec` |
| `upstream` | 2 requests, 2 providers, 2 retries, clock to 2 | every request that enters the loop is answered, through all attempts of its calls |
| `tree` | 3 ids, 2 components (one blocked), 2 values, 3 mounts in the life of a tree | all tree properties; deadlock is checked |
| `session_billing` | 1 client, 2 engines, 3 objects, 3 lines, 1 crash, no flush, no rejected command | at most one bill per line, and that a close ends |
| `session_snapshot` | 1 client, 2 engines, 2 operations, 2 faults (crashes or rejected commands), a flush at every line | snapshots never regress, a resume is fresh, what a close removes is in Redis |
| `stream_meter` | 2 requests, limit 5, maxLines 3, chunks of up to 2 lines, texts of up to 4 | exact billing, bounded forwarding, what overlapping requests cost the quota, end |
| `schema` | 2 clients, 3 versions, 4 calls, 1 rejected command, 3 ticks, time to live 2, with and without a prefix | the index while calm, what mends it, what can be read, that nothing stays for good |
| `keycache` | 2 slots, 2 sets of terms, time to live 2, 2 failures | no answer outlives its time; in the end the row decides; deadlock is checked |
| `limiter` | 2 slots, 1 model, limit 2, 1 request a minute, 2 an hour (`Most` is half as much again, for CI clients), lines of 2 characters, a minute of 2 ticks in an hour of 6, 1 write of the file | bursts, overshoot, unpaid text; deadlock is checked |
| `pipeline` | 2 engines, 2 ids, 2 components (one without schema), 2 versions, 3 lines, a log of 2, every value of up to 2 characters and some longer | values that survive, verdicts that hold, what a replay shows |
| `cb_giveup`, `session_flush` | the smallest that shows it | disagreements between code and comments, section 5 |

**Why the bounds suffice.** Three requests are what a late answer needs: one call
that started early, one that trips the circuit, one that probes it; threshold 2
separates the first failure from the tripping one, and two providers give every
position in the chain. The clock goes past one reset period, so that a circuit
rests, is probed and rests again. Three elements make a chain, a fork and an id
that is used again; three mounts bound the sequence of one tree, and a restore
starts a new count. Three objects of a session allow two resumes, so an object
can be replaced by one that is replaced itself. The texts are longer than the
effective limit, which is more than one chunk away, and `maxLines` lies below the
monthly limit, so that both bounds are met by streams that end before, at and
after them. Three versions give a largest, a next and one that is neither; four
calls give two versions, a delete and a call that overlaps it; the clock passes
one time to live. Two slots are what a stale lookup or an overlapping stream
needs, and they are used again without bound; in `limiter` three minutes make an
hour, so that the windows straddle each other's resets and `2 * Most` requests in
one minute do happen (in an hour they do not: there the minute rate is the
tighter one, and the hour's bound is met exactly only by hours too long for a
run, which the theorem covers), and a chunk may be shorter than a line, a line, or
end inside one. The history of `BurstsAreBounded` begins anew with a restart, as
the buckets do: the bound is that of one life of the process. Two lines before the last give a
tree of a parent and a child and let a log of two entries drop its first. Bounds
are constants whose names begin with `Max` (but `MaxLines` of
`StreamBilling` is the governance limit of the code); each stands in
the guard of the action it bounds.

**Symmetry** is used for safety runs only: requests, engine tasks, ids and values
are interchangeable in every property of those runs; so are clients and engines.

**Deadlock** is not checked where the system really may stop: requests of the breaker and of metering are
served once each and then nothing is left to do, a session may have been closed for
good, and the calls of `schema` and the lines of `pipeline` are bounded. Tree, key
cache and limiter can always go on.

**Fairness.** `upstream` and `stream_meter` assume weak fairness of the steps of a
request that is being served: `AbortSignal.timeout(upstreamTimeoutMs)` ends every
upstream fetch and body (`upstream.js:46`, `:75`), a sleep ends, and Redis answers
or rejects. `session_billing` assumes that Redis answers and the event loop runs
what was answered. `keycache` assumes that of the steps of a request after its
arrival, and that time passes. No arrival, disconnect, report, fault or change of
a row is ever assumed to happen, and time only in `keycache`.

## 4. Proofs

`tlapm` proves, for every value of the constants (assumptions: a chain is a
sequence, a threshold is positive, bounds are natural numbers, `null` is no id, a
minute is positive and at most an hour, ids and component names match the
expressions of `grammar.js`):

| module | theorems |
|---|---|
| `CircuitBreakerProofs` | `TypeCorrect`, `CircuitsStayConsistent`, `BlameIsEarned`, `BreakerImplementsCircuits`, `ReportsAreShared`; of `Upstream`: `UpstreamImplementsBreaker`, `UpstreamKeepsPromise`, `RetriesAreBounded` |
| `ComponentTreeProofs` | `TypeCorrect`, `NoOrphans`, `IndexStaysInverse`, `OrderIsTotal`, `SnapshotsCanBeRestored`, `RestoreIsFaithful`, `UnmountCascades` |
| `SessionManagerProofs` | `TypeCorrect`; for one client `SnapshotsNeverRegress`, `ResumesAreFresh`, `ClosesAreSaved`, `OverbillingBounded`, `BilledOnce` |
| `StreamBillingProofs` | `TypeCorrect`, `BilledExactly`, `ForwardingIsBounded`, `QuotaShared` |
| `SchemaStoreProofs` | `TypeCorrect`, `NothingPersists`, `WritesMend`, `GetsFind`, `ImplementsIndex` |
| `KeyCacheProofs` | `TypeCorrect`, `AnswersStayYoung` |
| `LocLimiterProofs` | `TypeCorrect`, `BurstsBounded`, `OvershootBounded`, `OnlyTheBufferIsUnpaid` |
| `PipelineProofs` | `TypeCorrect`, `VerdictsAreKept`, `ReplayIsPast`, `LineArrives`, `RoundTrips`; of `SchemaResolver`: `ResolvesToTheHighest`, `LaterClaimsGetNoLess` |

* **Breaker.** The inductive invariant adds two facts to the stated ones: a
  request that is past its call has that provider in its set `tried`
  (`CurrentWasCalled`), and one that threw either called somebody or was refused
  when every circuit was open (`RefusedAfterCalls`). The second is why the route
  may charge a provider it never called: that circuit is open already, hence
  some request called it, and an open circuit's state does not change by a
  failure. The refinement follows step by step from it. `ReportsAreShared` counts
  reports instead of reading circuits: the requests that heard of a call of p and
  those that ended with p as their provider are two sets, finite because each step
  adds one request at most, and a failure is recorded only in a step that adds
  one to either.
* **Upstream.** `UpstreamImplementsBreaker`: a fetch that will be tried again and
  the sleep after it leave the breaker's variables alone, the last fetch of a call
  is the end of that call, and everything else is a step of `CircuitBreaker`. What
  is proved of the breaker therefore holds with all its retries.
  `RetriesAreBounded` bounds the attempts by `maxRetries` and places every sleep
  inside a sync call that has an attempt left.
* **Tree.** The index being the inverse of the parents is inductive only
  together with the order of the sequence numbers (a parent is older than its
  child), which also makes snapshots restorable; the restore is proved with an
  invariant about the entries the loop has passed and those that are left
  (`PendingIsTheRest`). `Descendants` is a least set, so the cascade is proved
  from its two halves: it is closed, and it lies in every closed set with the root.
* **Session.** What Redis holds, the snapshots on the connection from its head to
  its tail, and the tree in memory only grow along that line (`SnapshotOrder`):
  a reply moves Redis one step along it, a send adds the tree of memory at its
  end. A resume replaces the tree in memory, and the order survives it because
  a load is the last command on the connection (`LoadIsLast`): it is sent when
  nothing is in memory, so that no save can start behind it. These theorems assume
  one client (`OneClient`), as the runs do: with two, one may resume while the
  close of the other is on its way. `ClosesAreSaved` follows what a close saved:
  until it deletes the session, Redis and every snapshot behind its own on the
  connection contain that tree (`CloseInv`), because a snapshot sent later is taken
  of a tree in memory that has only grown (`Above`). The types hold for any number of clients
  (`BaseInv`): what they need is that each call that loads or rebuilds has an
  object left to build (`RoomLeft`), and that a call knows the object it bills.
* **The bill of a session** (`OverbillingBounded`). What is billed and what is `Due`
  (the flushes on the connection and the lines of the object in the index) is
  compared with the lines reported. `Account` says that it exceeds them by one for
  each full interval of an object's lines, and by all lines so far once for each
  rejected command. It is kept because a close bills the object made last, which
  leaves the index in the same step, claims no more lines than it has, and only when
  a command is rejected stays in the index after its bill (`ClosesTheLast`). The
  theorem bounds the bill by
  `(1 + rejected) * reported + flushes`, where `flushes * FlushEvery <= reported`:
  there is no third way to bill a line twice, whatever closes, resumes, crashes and
  late reports a session goes through. `BilledOnce` is the case without flushes and
  rejected commands (`ClosesBill`): without the first it is false (`session_flush`,
  section 5), without the second as well, since a close may be repeated after its
  bill was made and the reply lost.
* **Metering.** The invariant says for each phase of a request how `counted`,
  `partial`, `started` and `forwarded` relate; the limit enters where a chunk is
  forwarded. `QuotaShared` says what overlapping requests cost: a stream takes the
  organisation past its limit by one chunk and by what others billed since its
  pre-check.
* **Schema registry.** The invariant has two layers. A write that is alone knows
  what it did itself (`LoneDeletes`: its version is gone, and what is stored it has
  found or will find), whatever state it began in; this gives `WritesMend`. In a
  calm registry all writes are alone, and the index can be relied on as well
  (`CalmWrites`, `CalmIndex`): it names a stored version unless a delete is about
  to change it, and no stored version is above it unless a register is about to
  raise it. From that each command is a step of `SchemaIndexSpec` or none. The mapping takes
  what the index covers for what is registered, so `IsLatest` of `SchemaIndexSpec`
  holds by the mapping; what is checked and proved is that each step is allowed: a
  raise covers one version more, a delete uncovers one, and nothing else moves the
  index. That a register does raise it is `WritesMendTheIndex`. That a
  set of versions has a largest element follows from the well-foundedness of `<`.
* **Key cache.** Types and age are inductive together: a cached answer ages by one
  tick for each that it loses.
* **Limiter.** The bound of a burst is not inductive. `Window` adds what was let in
  since the bucket was last filled: that and the tokens left make one full bucket
  at most, and the whole window and the tokens left two. A reset turns the second
  fact into the first, a tick moves the window, and the two together are inductive.
  `OvershootInv` counts the requests that are over now, instead of all slots: each
  of them may have added one charge since the usage was below its limit. Of byte arrays a
  charge is the whole stream, so that `MaxBuffer` stands for the text of a stream there,
  not of a chunk. Sums over
  a window are counted as sets of units (`TotalIsCardinality`), so that the
  library's facts about cardinality apply; how a sum changes with one entry, and
  with a shift of the window, follows from that. `OnlyTheBufferIsUnpaid` is inductive
  as it stands: a charge rounds up and no model weighs less than one, so what leaves
  the buffer is paid for.
* **Pipeline.** The past of a session is a chain of trees from `base` to `tree`, one
  for each operation in the log, each accepted by the tree before it
  (`LogLeadsHere`). An applied operation makes the chain longer; an entry that falls
  out of the ring moves `base` along it. `Run` is a fold, and a fold over positions
  is a function of their sets that is proved to exist and to follow any such chain
  (`TreesAreRuns`). A replay starts from an empty tree, so it is a second chain,
  and `StepKeepsPart` shows that a step keeps the one tree a part of the other
  (every element of it is there, with the same values): an operation that the part
  refuses names an element or a parent it lacks, and what an unmount removes from
  the whole it removes from the part. Hence `ReplayIsPast`, and equality while
  `base` is empty. For `VerdictsAreKept` the component of an operation must be
  the same for the validator and for the tree, so its name is followed over the
  wire: the serializer writes it first, with no special character in it
  (`SerializeBegins`), trimming and the tokenizer leave it whole (`TrimBegins`,
  `TokensBegin`), and the parser finds no parameter before it (`MountKeepsName`).
* **Round trip** (`LineArrives`, for any text; `RoundTrips`, in every state). A line is
  its parts with pipes between them, and a list of offsets says where each part
  stands (`Joined`). The tokenizer cuts at the pipe behind a part exactly if the part
  does not end in a backslash (`Closed`), so the tokens are runs of parts (`Ends`),
  and clean values give one token each. What escapeValue does to a value is an
  injection of positions (`Spread`), which unescapeValue reverses unless the value
  has a backslash before an @. The trim takes something only from the part that
  stands last. For the other direction (`UncleanIsSeen`) suppose that the fields are
  right. Then no value looks like a parameter, since the parser would have put it
  elsewhere. Of the values that are not clean take the first: the parts before it
  are tokens of their own, so its token begins where it should, and it reads as
  another text, a backslash or the trimmed blank being gone (`MarredIsLost`). What
  its label shows is then another text, too, unless the token became a parameter,
  and then all that follow have moved up (`ListSkips`) and the
  last value that is not empty is not shown at all (`EmptyAfter`).
* **Schema resolver.** `resolve` answers the highest version that is not above the
  one asked for, so a later claim gets no earlier schema. The theorems name the
  exception: 0 is falsy, so a version 0 is found only by asking for it.
* **Induction over data**, for folds and sums, is done without the library's
  induction theorems: the set of counterexamples is a set of natural numbers, and
  `<` being well founded it would have a least member.

**Only model-checked.** Liveness (`RequestsAreAnswered`, `ClosedIsRemoved`,
`RequestsEnd`, `RowTakesHold`): fairness and ENABLED are beyond the prover.
That the breadth-first search of `tree.js:59-69` computes the least sets `Descendants`
and `Below` is a translation, not a theorem: the models state its result. Two
clients of one session are in no run; of them the types alone are proved.

## 5. Where code and documentation disagree

Two are runs that TLC ends with a counterexample (`PROJECT.json`, `findings`).

* `cb_giveup`: after one failure below the threshold the loop selects the same
  provider again, finds it in `tried` and throws "All providers unavailable",
  although the next provider is closed and untried. Failover happens only when
  the failure opens the circuit. `README.md:53` promises immediate failover, and
  `circuit-breaker.js:157` says that the loop goes on to the next provider.
* `session_flush`: the flush at every N lines bills lines that close bills again
  (and bills the count of the last call, not of the last N lines).

Three more are stated in the modules as properties that are false of the code; no
run is spent on them.

* `PromptInjectedOnce` (`CircuitBreaker`): a claude request that fails over carries
  the prompt twice, because the guard looks for the signature in a string and the
  prompt is in a list (`prompt-injector.js:13` promises prevention).
* `GovernanceHolds` (`SessionManager`): a resumed session has a tree without
  governance, against `README.md:16`. It has also lost its orgId, so its lines are
  billed to 'unknown'.
* `MaxLinesIsPerStream` (`StreamBilling`): `governance.maxLines` is compared with the
  organisation's lines of the month, not with those of the stream
  (`completions.js:60`).

The rest follows from the models or was met while they were written.

* Schema registry: under the default `REDIS_PREFIX` a delete of the latest version
  drops the index although older versions remain, against the comment
  `schema-store.js:124` and the test of that name, whose Redis has no prefix. The
  properties of `SchemaStore` say "unless SCAN does not see the keys" for this. The
  index and the versions expire apart: registering an old version again after the
  index has expired makes it the latest, below newer ones. Overlapping registers
  may leave the smaller version as the latest, and it remains so until a
  version that is not below the larger one is registered or the index is computed
  again: a register mends the index for its own version only.
* Key cache: a revoked key works for up to five minutes, and a lookup from before
  the revocation may start these five minutes after it.
* Limiter: a second curation with the same offers empties the file, since it keeps
  only what changed or is new; a model that was turned off comes back active after
  two curations. The script says that the gateway picks up the file at the next
  request (`auto-curate-models.js:120`; `model-registry.js:7` calls it hot reload),
  but the copy in memory is loaded again only when it is empty. If the promise were
  kept, a running stream could lose its model, or be weighed with another. The
  context carries no tier, so every organisation is 'community'. A stream of byte
  arrays is counted by the characters of its bytes' numbers, and only at its end: one that
  does not get there, because the client goes away or the guard stops it, is not
  charged at all.
  Requests that are not streams are not counted. A restart forgets the usage. A
  window of a minute may let in two full buckets, `2 * Most`, and not one less:
  the bucket is filled by the first request that finds it due, not at fixed times
  (`loc-limiter.js:46-58`), so a full bucket may be used at the end of one period
  and another at once in the next.
* Protocol: an UPDATE's value and the values of directives are escaped by the
  serializer and not unescaped by the parser (`parser.test.js:55` calls that the
  caller's job); a value that begins with `@` and contains `=` is taken for a
  parameter although it was escaped; a backslash at the end of a value eats the
  separator after it; blanks at the end of a line are lost; a line break is not
  escaped. `Clean` is the exact condition.
* Validator: an UPDATE's new value is not compared with the field's values, and
  the verdict is not repeated when the tree is changed in between: a field that
  the component does not declare may be stored.
* Replay: `README.md:22` promises a replay at any step. The log keeps 1000 entries
  of all levels; when it has dropped some, the replay shows less of the tree than
  there was (`ReplayShowsThePast` states how much less). The log that it returns
  with the tree is cut by entries of all levels, not by operations. usePashReplay sends `targetStep`
  where the route reads `step`, and shows the answer that comes last.

`LinesBilledOnce` is checked as holding where it does: below the flush, for one
client whose commands are not rejected. Two clients that close at once, or a
close repeated after its bill was made and its reply lost, bill twice as well:
nothing resets `lineCount`.

## 6. What is not modelled

* Hashes, prompts, log and error texts, metrics and webhooks, on which no state of
  the gateway depends; the registration of an organisation's webhook.
* The expiry of the monthly counter, which slides with each increment, and the
  reset of the counter, which only tests call.
* The development mode without a database, and the mock of Redis that replaces it
  there (it lacks HGET and SCAN, so the schema routes fail on it).
* Eviction: `docker-compose.yml` gives Redis a limit with allkeys-lru; in the models
  a key goes by its expiry or a command only.
* Of the protocol: the version header of a stream, parse errors, warnings, the
  cutting of a stream into lines. Of the schema resolver: `resolveLatest`, which
  nothing calls, and the text of a downgrade.
* `Pipeline`: the engine between the packages is outside the repository; the order of
  its calls is that of the packages' documentation. One session object, which is
  not resumed (a resumed session has an empty schema registry, `session.js:187`).
  The security pipeline lets all values pass there; in `ComponentTree` it may refuse
  any. Which texts it refuses, and the `lastIndex` that its rules keep, are data.
* Wall-clock duration of a stream: a body may fail at any time.
* Savings formulas over floating-point numbers, command line tools, React hooks,
  migrations, scripts: no state of the gateway, or none that is shared.

## 7. Plan

Done, in this order: `CircuitBreaker` with `CircuitBreakerSpec`, `ComponentTree`,
`SessionManager`, `StreamBilling` with their proofs; then `Upstream`, `SchemaStore`
with `SchemaIndexSpec`, `KeyCache`, `ModelRegistry` with `LocLimiter`, `Protocol` and
`SchemaResolver` with `Pipeline`, and the proofs of `SchemaStore` and `KeyCache`;
then the proofs of `LocLimiter`, `Upstream`, `Pipeline` and of the session's bill,
of what becomes of every value on the wire, and of how much a session or an
organisation can be billed too much.

All invariants of the runs and all their action properties are theorems; liveness
is model-checked. Next, most important first:

1. Two clients and two processes that hold one session, over one Redis: which of
   the session's properties survive besides the types, and a theorem for those.
2. The monthly counter with its sliding expiry, composed with `StreamBilling` and
   `SessionManager`, which both write it.
