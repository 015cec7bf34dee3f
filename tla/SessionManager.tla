--------------------------- MODULE SessionManager ---------------------------
(***************************************************************************)
(* The life of one presentation session in one gateway process             *)
(* (packages/state-engine/src/session.js): its object in memory, its       *)
(* snapshot in Redis and the lines it bills, while calls of the API        *)
(* overlap at their awaits.                                                *)
(*                                                                         *)
(* A client task closes, resumes and saves the session (the routes of      *)
(* presentation.js); an engine task reports generated lines and saves      *)
(* snapshots.  A task runs one call at a time.  Every await of these calls *)
(* is one Redis command, and a process has one Redis connection, so        *)
(* commands take effect in the order in which they were sent (pipe).       *)
(*                                                                         *)
(* The tree is the set of operations it has absorbed: ComponentTree shows  *)
(* that a rebuilt tree is the saved one.                                   *)
(***************************************************************************)
EXTENDS Integers, Sequences, FiniteSets

CONSTANTS
  Client, Engine,  \* tasks
  Op,              \* tree operations, each applied once
  Blocked,         \* those that mount a component the governance forbids
  FlushEvery,      \* 100 in incrementLines
  RedisMayFail,    \* whether commands may be rejected
  MaxObjects,      \* bound on the session objects made for this id
  MaxLines,        \* bound on the lines reported
  MaxFaults        \* bound on the crashes and the rejected commands

ASSUME FlushAssumption == FlushEvery \in Nat \ {0}
ASSUME BlockedAssumption == Blocked \subseteq Op
ASSUME BoundAssumption ==
  MaxObjects \in Nat \ {0} /\ MaxLines \in Nat /\ MaxFaults \in Nat
ASSUME FailAssumption == RedisMayFail \in BOOLEAN

Task == Client \cup Engine
Object == 1 .. MaxObjects

NoObject == 0
Nothing == [ops |-> {}, there |-> FALSE]    \* a missing snapshot
Saved(ops) == [ops |-> ops, there |-> TRUE]

VARIABLES
  live,       \* _sessions.get(sessionId)
  made,       \* objects made for this id so far
  tree,       \* operations absorbed by an object's tree
  lines,      \* its lineCount
  stored,     \* the snapshot in Redis
  billed,     \* lines billed to the session's organisation
  stray,      \* lines billed to the organisation 'unknown'
  reported,   \* lines reported to incrementLines while the session was live
  pc, held, snap, amount,   \* a task's suspended call and its locals
  pipe,       \* tasks whose command is on the Redis connection
  faults      \* crashes and rejected commands so far

objectVars == <<live, made, tree, lines>>
redisVars == <<stored, billed, stray>>
taskVars == <<pc, held, snap, amount, pipe>>
vars == <<objectVars, redisVars, reported, taskVars, faults>>

\* A resumed object has lost what a snapshot does not hold: its organisation,
\* governance, webhook and negotiated capabilities (session.js:178-191).
Resumed(o) == o # 1

Waiting == {"closeSave", "closeBill", "save", "flush", "load"}

TypeOK ==
  /\ live \in Object \cup {NoObject}
  /\ made \in Object
  /\ tree \in [Object -> SUBSET Op]
  /\ lines \in [Object -> Nat]
  /\ stored \in {Nothing} \cup {Saved(S) : S \in SUBSET Op}
  /\ billed \in Nat /\ stray \in Nat /\ reported \in Nat
  /\ pc \in [Task -> Waiting \cup {"idle", "build"}]
  /\ held \in [Task -> Object \cup {NoObject}]
  /\ snap \in [Task -> {Nothing} \cup {Saved(S) : S \in SUBSET Op}]
  /\ \A t \in Task : pc[t] = "build" => snap[t].there
  /\ amount \in [Task -> Nat]
  /\ pipe \in Seq(Task)
  /\ faults \in 0 .. MaxFaults

\* create() has made the session.
Init ==
  /\ live = 1 /\ made = 1
  /\ tree = [o \in Object |-> {}]
  /\ lines = [o \in Object |-> 0]
  /\ stored = Nothing /\ billed = 0 /\ stray = 0 /\ reported = 0
  /\ pc = [t \in Task |-> "idle"]
  /\ held = [t \in Task |-> NoObject]
  /\ snap = [t \in Task |-> Nothing]
  /\ amount = [t \in Task |-> 0]
  /\ pipe = <<>>
  /\ faults = 0

-----------------------------------------------------------------------------
(***************************************************************************)
(* The Redis connection.                                                   *)
(***************************************************************************)

\* The call of t starts, or goes on, by sending a command.
Send(t, command) ==
  /\ pc' = [pc EXCEPT ![t] = command]
  /\ pipe' = Append(pipe, t)

\* A slip: commands are spread over several connections.
Reply_AnyOrder(t, command, next) ==
  LET others == SelectSeq(pipe, LAMBDA u : u # t)
  IN /\ pc[t] = command
     /\ pc' = [pc EXCEPT ![t] = next]
     /\ pipe' = IF next \in Waiting THEN Append(others, t) ELSE others

\* The reply for t arrives, and t's call goes on to be at "next".
Reply(t, command, next) ==
  /\ pc[t] = command
  /\ pipe # <<>> /\ Head(pipe) = t
  /\ pc' = [pc EXCEPT ![t] = next]
  /\ pipe' = IF next \in Waiting THEN Append(Tail(pipe), t) ELSE Tail(pipe)

\* setex of the snapshot the call took.
Store(t) == stored' = snap[t] /\ UNCHANGED <<billed, stray>>

\* incrby of the amount the call computed, on the key of the object's orgId.
Bill(t) ==
  /\ IF Resumed(held[t])
     THEN stray' = stray + amount[t] /\ UNCHANGED billed
     ELSE billed' = billed + amount[t] /\ UNCHANGED stray
  /\ UNCHANGED stored

-----------------------------------------------------------------------------
(***************************************************************************)
(* close                                                                   *)
(***************************************************************************)

StartClose(t) ==
  /\ pc[t] = "idle" /\ live # NoObject
  /\ held' = [held EXCEPT ![t] = live]
  /\ snap' = [snap EXCEPT ![t] = Saved(tree[live])]
  /\ Send(t, "closeSave")
  /\ UNCHANGED <<objectVars, redisVars, reported, amount, faults>>

\* A slip: a session without lines stays in the index.
CloseSaved_Keeps(t) ==
  /\ pc[t] = "closeSave"
  /\ Store(t)
  /\ IF lines[held[t]] > 0
     THEN /\ Reply(t, "closeSave", "closeBill")
          /\ amount' = [amount EXCEPT ![t] = lines[held[t]]]
     ELSE /\ Reply(t, "closeSave", "idle")
          /\ UNCHANGED amount
  /\ UNCHANGED <<live, made, tree, lines, reported, held, snap, faults>>

\* The snapshot is stored; the line count is read only now.
CloseSaved(t) ==
  /\ pc[t] = "closeSave"
  /\ Store(t)
  /\ IF lines[held[t]] > 0
     THEN /\ Reply(t, "closeSave", "closeBill")
          /\ amount' = [amount EXCEPT ![t] = lines[held[t]]]
          /\ UNCHANGED live
     ELSE /\ Reply(t, "closeSave", "idle")
          /\ live' = NoObject
          /\ UNCHANGED amount
  /\ UNCHANGED <<made, tree, lines, reported, held, snap, faults>>

\* A slip: a session that was billed stays in the index.
CloseBilled_Keeps(t) ==
  /\ Reply(t, "closeBill", "idle")
  /\ Bill(t)
  /\ UNCHANGED <<objectVars, reported, held, snap, amount, faults>>

\* Whatever object is in the index by now is removed from it.
CloseBilled(t) ==
  /\ Reply(t, "closeBill", "idle")
  /\ Bill(t)
  /\ live' = NoObject
  /\ UNCHANGED <<made, tree, lines, reported, held, snap, amount, faults>>

(***************************************************************************)
(* resume, of a session that is not in memory.  (One that is, is returned  *)
(* as it is.)                                                              *)
(***************************************************************************)

\* A slip: resume does not look in the memory of the process first.
StartResume_Anyway(t) ==
  /\ pc[t] = "idle"
  /\ made + Cardinality({u \in Task : pc[u] \in {"load", "build"}}) < MaxObjects
  /\ Send(t, "load")
  /\ UNCHANGED <<objectVars, redisVars, reported, held, snap, amount, faults>>

StartResume(t) ==
  /\ pc[t] = "idle" /\ live = NoObject
  /\ made + Cardinality({u \in Task : pc[u] \in {"load", "build"}}) < MaxObjects
  /\ Send(t, "load")
  /\ UNCHANGED <<objectVars, redisVars, reported, held, snap, amount, faults>>

\* A slip: a missing snapshot is used like any other.
Loaded_Unchecked(t) ==
  /\ Reply(t, "load", "build")
  /\ snap' = [snap EXCEPT ![t] = stored]
  /\ UNCHANGED <<objectVars, redisVars, reported, held, amount, faults>>

Loaded(t) ==
  /\ Reply(t, "load", IF stored.there THEN "build" ELSE "idle")
  /\ snap' = [snap EXCEPT ![t] = stored]
  /\ UNCHANGED <<objectVars, redisVars, reported, held, amount, faults>>

\* The session is rebuilt and put in the index, over whatever is there.
Build(t) ==
  /\ pc[t] = "build"
  /\ made' = made + 1
  /\ live' = made + 1
  /\ tree' = [tree EXCEPT ![made + 1] = snap[t].ops]
  /\ pc' = [pc EXCEPT ![t] = "idle"]
  /\ UNCHANGED <<lines, redisVars, reported, held, snap, amount, pipe, faults>>

(***************************************************************************)
(* saveSnapshot, incrementLines and the operations on the tree.            *)
(***************************************************************************)

StartSave(t) ==
  /\ pc[t] = "idle" /\ live # NoObject
  /\ snap' = [snap EXCEPT ![t] = Saved(tree[live])]
  /\ Send(t, "save")
  /\ UNCHANGED <<objectVars, redisVars, reported, held, amount, faults>>

SaveDone(t) ==
  /\ Reply(t, "save", "idle")
  /\ Store(t)
  /\ UNCHANGED <<objectVars, reported, held, snap, amount, faults>>

\* A multiple of FlushEvery sends this call's count, and keeps the total.
IncrementLines(t) ==
  /\ pc[t] = "idle" /\ live # NoObject
  /\ reported < MaxLines
  /\ reported' = reported + 1
  /\ lines' = [lines EXCEPT ![live] = @ + 1]
  /\ IF (lines[live] + 1) % FlushEvery = 0
     THEN /\ Send(t, "flush")
          /\ held' = [held EXCEPT ![t] = live]
          /\ amount' = [amount EXCEPT ![t] = 1]
     ELSE UNCHANGED <<pc, pipe, held, amount>>
  /\ UNCHANGED <<live, made, tree, redisVars, snap, faults>>

FlushDone(t) ==
  /\ Reply(t, "flush", "idle")
  /\ Bill(t)
  /\ UNCHANGED <<objectVars, reported, held, snap, amount, faults>>

ApplyOp ==
  /\ live # NoObject
  /\ \E op \in Op \ UNION {tree[o] : o \in Object} :
       /\ op \in Blocked => Resumed(live)
       /\ tree' = [tree EXCEPT ![live] = @ \cup {op}]
  /\ UNCHANGED <<live, made, lines, redisVars, reported, taskVars, faults>>

-----------------------------------------------------------------------------
(***************************************************************************)
(* Failures.                                                               *)
(***************************************************************************)

\* A slip: a close whose snapshot was not stored goes on to bill and to delete.
CommandFails_ClosesOn(t) ==
  /\ RedisMayFail /\ faults < MaxFaults
  /\ Reply(t, "closeSave", "closeBill")
  /\ amount' = [amount EXCEPT ![t] = lines[held[t]]]
  /\ faults' = faults + 1
  /\ UNCHANGED <<objectVars, redisVars, reported, held, snap>>

\* A command is rejected, before or after it took effect, and so is its call.
CommandFails(t) ==
  /\ RedisMayFail /\ faults < MaxFaults
  /\ \E command \in Waiting :
       /\ Reply(t, command, "idle")
       /\ \/ UNCHANGED redisVars
          \/ command \in {"closeSave", "save"} /\ Store(t)
          \/ command \in {"closeBill", "flush"} /\ Bill(t)
  /\ faults' = faults + 1
  /\ UNCHANGED <<objectVars, reported, held, snap, amount>>

\* The process dies and starts again; the sessions in memory are not closed,
\* neither are they by the graceful shutdown (server.js:148-152).
Crash ==
  /\ faults < MaxFaults
  /\ faults' = faults + 1
  /\ live' = NoObject
  /\ pc' = [t \in Task |-> "idle"]
  /\ pipe' = <<>>
  /\ UNCHANGED <<made, tree, lines, redisVars, reported, held, snap, amount>>

\* snapshotTtlMs runs out.
SnapshotExpires ==
  /\ stored # Nothing
  /\ stored' = Nothing
  /\ UNCHANGED <<objectVars, billed, stray, reported, taskVars, faults>>

-----------------------------------------------------------------------------

Progress(t) ==
  CloseSaved(t) \/ CloseBilled(t) \/ Loaded(t) \/ Build(t) \/ SaveDone(t) \/ FlushDone(t)

Next ==
  \/ \E t \in Client : StartClose(t) \/ StartResume(t)
  \/ \E t \in Engine : IncrementLines(t)
  \/ \E t \in Task : StartSave(t) \/ Progress(t) \/ CommandFails(t)
  \/ ApplyOp \/ Crash \/ SnapshotExpires

Spec == Init /\ [][Next]_vars

\* Redis answers, and the event loop runs what was answered.
FairSpec == Spec /\ \A t \in Task : WF_vars(Progress(t))

-----------------------------------------------------------------------------
(***************************************************************************)
(* Properties.                                                             *)
(***************************************************************************)

\* Redis never goes back to an older state of the session: late saves of
\* engine tasks cannot overwrite what close or a later save stored, also
\* across resumes and faults of Redis.  (For one client, which resumes when its
\* previous calls have returned.)
StoredNeverRegresses ==
  [][stored.there /\ stored'.there => stored.ops \subseteq stored'.ops]_vars

\* A session is rebuilt from what Redis holds, not from a state that was
\* overwritten between the load and the rebuild.
ResumeIsFresh ==
  [][\A t \in Task :
       pc[t] = "build" /\ pc'[t] = "idle" /\ live' # NoObject =>
         stored \in {Nothing, snap[t]}]_vars

\* close takes a session out of memory only when Redis has its tree, as it was
\* when close began or newer, or when its time there is over: no save of another
\* task, early, late or rejected, leaves an older one in its place.  (What is
\* applied while close waits may be lost.  One client, as above.)
ClosedIsSaved ==
  [][\A t \in Client :
       /\ pc[t] \in {"closeSave", "closeBill"} /\ pc'[t] = "idle"
       /\ faults' = faults /\ stored'.there
       => snap[t].ops \subseteq stored'.ops]_vars

\* A line is billed at most once, whatever combination of close, resume,
\* crash and late reports it goes through.  It is also what line 209 claims
\* ("flushes to Redis on session close or every N lines").
LinesBilledOnce == billed + stray <= reported

\* A session that is being closed leaves the memory of the process when no
\* command of its close is rejected, however many saves and reports of other
\* tasks are ahead of it on the connection.
ClosedIsRemoved == \A t \in Task : pc[t] = "closeSave" ~> live = NoObject

\* Claimed by README.md:16: a session's governance keeps blocked components
\* out of its tree.
GovernanceHolds == live # NoObject => tree[live] \cap Blocked = {}
=============================================================================
