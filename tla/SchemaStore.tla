----------------------------- MODULE SchemaStore -----------------------------
(***************************************************************************)
(* The registry of component schemas (packages/registry/src/schema-store.js)*)
(* as the schema routes use it (apps/gateway/src/routes/schemas.js), for   *)
(* one component of one organisation.  Each version is a hash in Redis     *)
(* with an expiry; one more key, the index, names the latest version.      *)
(*                                                                         *)
(* A call is a sequence of Redis commands with an await between any two,   *)
(* and the calls of several clients, served by one process or by many,     *)
(* interleave there.  An action is one command together with what the code *)
(* does with its reply.  A schema's content is left out: nothing looks     *)
(* into it.                                                                *)
(*                                                                         *)
(* getRedis (services/redis.js:21-26) makes a client that puts             *)
(* REDIS_PREFIX, by default 'pash:', before every key that a command names *)
(* but not before the pattern of a SCAN (vendored ioredis, README.md:544). *)
(***************************************************************************)
EXTENDS Integers, FiniteSets

CONSTANTS
  Client,      \* callers of the schema routes
  Newest,      \* bound on the versions
  Ttl,         \* _ttlSeconds, in ticks
  MaxCalls,    \* bound on the calls
  MaxFaults,   \* bound on rejected commands
  MaxTicks     \* bound on the ticks of the clock

ASSUME TtlAssumption == Ttl \in Nat \ {0}
ASSUME BoundAssumption ==
  Newest \in Nat /\ MaxCalls \in Nat /\ MaxFaults \in Nat /\ MaxTicks \in Nat

VARIABLES
  prefixed,    \* REDIS_PREFIX is not empty
  left,        \* ticks until a version's key expires; 0: there is no key
  latest,      \* the version the index names, or 0 when there is none
  latestLeft,  \* ticks until the index expires
  pc,          \* the command a client's call sends next
  ver,         \* the version it is about
  toScan,      \* keys its SCAN has not come to
  found,       \* versions listVersions has found
  calls,       \* calls so far
  faults,      \* rejected commands so far
  ticks,       \* ticks of the clock so far
  alone,       \* history: no write overlapped the client's write, no delete
               \* its getLatest
  calm         \* history: no writes overlapped, no command of a write was
               \* rejected, no key has expired, and no SCAN missed the keys

redisVars == <<left, latest, latestLeft>>
callVars == <<pc, ver, toScan, found>>
boundVars == <<calls, faults, ticks>>
historyVars == <<alone, calm>>
vars == <<prefixed, redisVars, callVars, boundVars, historyVars>>

\* What the route lets pass as a version of the component.
Version == 1..Newest

\* A key without expiry, as HSET makes it.
Forever == Ttl + 1

Writing == {"expire", "compare", "raise", "check", "scan", "recompute"}
Location == Writing \union {"idle", "fetch"}

TypeOK ==
  /\ prefixed \in BOOLEAN
  /\ left \in [Version -> 0..Forever]
  /\ latest \in Version \union {0}
  /\ latestLeft \in 0..Ttl
  /\ latest = 0 <=> latestLeft = 0
  /\ pc \in [Client -> Location]
  /\ ver \in [Client -> Version \union {0}]
  /\ toScan \in [Client -> SUBSET Version]
  /\ found \in [Client -> SUBSET Version]
  /\ calls \in 0..MaxCalls /\ faults \in 0..MaxFaults /\ ticks \in 0..MaxTicks
  /\ alone \in [Client -> BOOLEAN]
  /\ calm \in BOOLEAN

Init ==
  /\ prefixed \in BOOLEAN
  /\ left = [v \in Version |-> 0]
  /\ latest = 0 /\ latestLeft = 0
  /\ pc = [c \in Client |-> "idle"]
  /\ ver = [c \in Client |-> 0]
  /\ toScan = [c \in Client |-> {}]
  /\ found = [c \in Client |-> {}]
  /\ calls = 0 /\ faults = 0 /\ ticks = 0
  /\ alone = [c \in Client |-> TRUE]
  /\ calm = TRUE

Stored == {v \in Version : left[v] > 0}

\* The largest of a set of versions, 0 of none: versions[0] after the sort.
Largest(versions) ==
  IF versions = {} THEN 0
  ELSE CHOOSE v \in versions : \A w \in versions : w <= v

At(locations) == {c \in Client : pc[c] \in locations}
Writers == At(Writing)
Deleters == At({"check", "scan", "recompute"})

\* A call sends its next command, or returns and forgets what it held.
Goto(c, l) ==
  /\ pc' = [pc EXCEPT ![c] = l]
  /\ ver' = [ver EXCEPT ![c] = IF l = "idle" THEN 0 ELSE @]
  /\ alone' = [alone EXCEPT ![c] = @ \/ l = "idle"]

\* A call begins with a command about a version and goes on to l.
Call(c, v, l) ==
  /\ pc[c] = "idle" /\ calls < MaxCalls
  /\ calls' = calls + 1
  /\ pc' = [pc EXCEPT ![c] = l]
  /\ ver' = [ver EXCEPT ![c] = v]
  /\ UNCHANGED <<latest, latestLeft, toScan, found, faults, ticks>>

\* A write begins: the writes under way, and it if there are any, are no
\* longer alone, nor are the reads when it deletes.
Overlap(c, deletes) ==
  /\ alone' = [d \in Client |->
       IF d = c THEN Writers = {}
       ELSE alone[d] /\ d \notin Writers /\ (deletes => pc[d] # "fetch")]
  /\ calm' = (calm /\ Writers = {})

\* A slip: the index of nothing is written, not deleted.
SetLatest_NeverDels(v) ==
  /\ latest' = v
  /\ latestLeft' = Ttl

\* The index, when a command sets it with its expiry or deletes it.
SetLatest(v) ==
  /\ latest' = v
  /\ latestLeft' = IF v = 0 THEN 0 ELSE Ttl
-----------------------------------------------------------------------------
(* register: HSET, EXPIRE, GET of the index, and SETEX if it is smaller. *)

\* A slip: the key never gets its expiry.
Register_NoExpiry(c, v) ==
  /\ Call(c, v, "compare") /\ Overlap(c, FALSE)
  /\ left' = [left EXCEPT ![v] = IF @ = 0 THEN Forever ELSE @]

Register(c, v) ==
  /\ Call(c, v, "expire") /\ Overlap(c, FALSE)
  /\ left' = [left EXCEPT ![v] = IF @ = 0 THEN Forever ELSE @]

Expire(c) ==
  /\ pc[c] = "expire"
  /\ left' = [left EXCEPT ![ver[c]] = IF @ = 0 THEN 0 ELSE Ttl]
  /\ Goto(c, "compare")
  /\ UNCHANGED <<latest, latestLeft, toScan, found, boundVars, calm>>

\* A slip: only an index that is missing is set.
Compare_IfNone(c) ==
  /\ pc[c] = "compare"
  /\ Goto(c, IF latest = 0 THEN "raise" ELSE "idle")
  /\ UNCHANGED <<redisVars, toScan, found, boundVars, calm>>

Compare(c) ==
  /\ pc[c] = "compare"
  /\ Goto(c, IF latest = 0 \/ latest < ver[c] THEN "raise" ELSE "idle")
  /\ UNCHANGED <<redisVars, toScan, found, boundVars, calm>>

Raise(c) ==
  /\ pc[c] = "raise"
  /\ SetLatest(ver[c])
  /\ Goto(c, "idle")
  /\ UNCHANGED <<left, toScan, found, boundVars, calm>>
-----------------------------------------------------------------------------
(* delete: DEL, GET of the index, and if it named this version listVersions *)
(* (SCAN, and HGET of every key) and SETEX or DEL of the index.             *)

Delete(c, v) ==
  /\ Call(c, v, "check") /\ Overlap(c, TRUE)
  /\ left' = [left EXCEPT ![v] = 0]

\* A slip: the text in the index is compared with a number.
Check_AsNumber(c) ==
  /\ pc[c] = "check"
  /\ Goto(c, "idle")
  /\ UNCHANGED <<redisVars, toScan, found, boundVars, calm>>

Check(c) ==
  /\ pc[c] = "check"
  /\ IF latest = ver[c]
     THEN /\ Goto(c, "scan")
          /\ toScan' = [toScan EXCEPT ![c] = Version]
          /\ found' = [found EXCEPT ![c] = {}]
          /\ calm' = (calm /\ ~ prefixed)
     ELSE Goto(c, "idle") /\ UNCHANGED <<toScan, found, calm>>
  /\ UNCHANGED <<redisVars, boundVars>>

\* SCAN promises no order and no common moment, and a key it returned may be
\* gone at its HGET: each version is looked up at a moment of its own.  With a
\* prefix the pattern matches no key at all.
ScanKey(c, v) ==
  /\ pc[c] = "scan" /\ v \in toScan[c]
  /\ toScan' = [toScan EXCEPT ![c] = @ \ {v}]
  /\ found' = [found EXCEPT ![c] = IF left[v] > 0 /\ ~ prefixed THEN @ \union {v} ELSE @]
  /\ Goto(c, IF toScan[c] = {v} THEN "recompute" ELSE "scan")
  /\ UNCHANGED <<redisVars, boundVars, calm>>

\* A slip: the versions are sorted the other way.
Recompute_First(c) ==
  /\ pc[c] = "recompute"
  /\ SetLatest(IF found[c] = {} THEN 0
               ELSE CHOOSE v \in found[c] : \A w \in found[c] : v <= w)
  /\ Goto(c, "idle")
  /\ UNCHANGED <<left, toScan, found, boundVars, calm>>

Recompute(c) ==
  /\ pc[c] = "recompute"
  /\ SetLatest(Largest(found[c]))
  /\ Goto(c, "idle")
  /\ UNCHANGED <<left, toScan, found, boundVars, calm>>
-----------------------------------------------------------------------------
(* getLatest: GET of the index, and HGET of the version it names. *)

GetLatest(c) ==
  /\ Call(c, latest, IF latest = 0 THEN "idle" ELSE "fetch")
  /\ alone' = [alone EXCEPT ![c] = latest = 0 \/ Deleters = {}]
  /\ UNCHANGED <<left, calm>>

\* The route answers 404 when the version is not there any more.
Fetch(c) ==
  /\ pc[c] = "fetch"
  /\ Goto(c, "idle")
  /\ UNCHANGED <<redisVars, toScan, found, boundVars, calm>>
-----------------------------------------------------------------------------
(* Redis. *)

\* A command is rejected; the route answers 400 or 500 and nothing is undone.
CommandFails(c) ==
  /\ pc[c] # "idle" /\ faults < MaxFaults
  /\ faults' = faults + 1
  /\ calm' = (calm /\ pc[c] \notin Writing)
  /\ Goto(c, "idle")
  /\ UNCHANGED <<redisVars, toScan, found, calls, ticks>>

\* Time passes, and keys whose time is over are gone.
Tick ==
  /\ ticks < MaxTicks
  /\ ticks' = ticks + 1
  /\ left' = [v \in Version |->
       IF left[v] \in {0, Forever} THEN left[v] ELSE left[v] - 1]
  /\ latestLeft' = IF latestLeft = 0 THEN 0 ELSE latestLeft - 1
  /\ latest' = IF latestLeft = 1 THEN 0 ELSE latest
  /\ calm' = (calm /\ latestLeft # 1 /\ \A v \in Version : left[v] # 1)
  /\ UNCHANGED <<callVars, calls, faults, alone>>

Step(c) ==
  \/ \E v \in Version : Register(c, v) \/ Delete(c, v) \/ ScanKey(c, v)
  \/ Expire(c) \/ Compare(c) \/ Raise(c)
  \/ Check(c) \/ Recompute(c)
  \/ GetLatest(c) \/ Fetch(c) \/ CommandFails(c)

Next == (Tick \/ \E c \in Client : Step(c)) /\ UNCHANGED prefixed

Spec == Init /\ [][Next]_vars
-----------------------------------------------------------------------------
(* Properties. *)

\* The registry implements SchemaIndexSpec.  A version counts as registered
\* once the index covers it, and as deleted once the index has left it.
Index == INSTANCE SchemaIndexSpec WITH
  Version <- Version,
  registered <- {v \in Version : v <= latest /\ (left[v] > 0 \/ v = latest)},
  latest <- latest,
  calm <- calm

\* As long as no writes overlap, no command of a write is rejected, nothing
\* expires and no SCAN misses the keys, the index names the largest registered
\* version after every call and between its commands, whatever is registered,
\* registered again and deleted, in any order.
KeepsLatest == Index!Spec

\* A version's key is without expiry only between the HSET and the EXPIRE of a
\* register under way: also when registers and deletes of one version
\* overlap, nothing but a rejected command leaves a schema in Redis for good.
OnlyFaultsPersist ==
  faults = 0 =>
    \A v \in Version : left[v] = Forever =>
      \E c \in Client : pc[c] = "expire" /\ ver[c] = v

\* A write that no other overlaps sets the index right for its own version,
\* whatever earlier overlaps, failures and expiries left behind: after register
\* the index is not below the version, after delete it is not that version,
\* and an index that delete computed again is below no stored version, unless
\* SCAN does not see them.
WritesMendTheIndex ==
  [][\A c \in Client :
       pc[c] \in Writing /\ pc'[c] = "idle" /\ faults' = faults /\ alone[c] =>
         /\ pc[c] \in {"compare", "raise"} => latest' >= ver[c]
         /\ pc[c] \in {"check", "recompute"} => latest' # ver[c]
         /\ pc[c] = "recompute" /\ ~ prefixed => \A v \in Stored : v <= latest']_vars

\* In a calm registry a getLatest that no delete overlaps finds the version
\* that the index named, registers of other clients notwithstanding.
LatestIsFound ==
  [][\A c \in Client :
       pc[c] = "fetch" /\ pc'[c] = "idle" /\ faults' = faults /\ calm /\ alone[c]
         => left[ver[c]] > 0]_vars
=============================================================================
