------------------------ MODULE SessionManagerProofs ------------------------
(***************************************************************************)
(* Proofs about SessionManager, for any number of engine tasks and any     *)
(* operations: the types for any number of clients, and for a session with *)
(* one client its snapshots and its bill.                                  *)
(*                                                                         *)
(* The heart of the inductive invariant is an order: what Redis holds, the *)
(* snapshots on the connection from its head to its tail, and the tree in  *)
(* memory only grow along that line (SnapshotOrder).  It survives a resume *)
(* because a load is sent when no object is in memory: no save can be      *)
(* started behind it, hence nothing is on the connection when the session  *)
(* is rebuilt (LoadIsLast).                                                *)
(***************************************************************************)
EXTENDS SessionManager, TLAPS, FiniteSetTheorems, SequenceTheorems

\* The client waits for its calls to return.
OneClient == \A c, d \in Client : c = d

Slot == 1 .. Len(pipe)
Saving(t) == pc[t] \in {"closeSave", "save"}

\* The connection holds each waiting task once.
QueueInv ==
  /\ \A i, j \in Slot : pipe[i] = pipe[j] => i = j
  /\ \A i \in Slot : pc[pipe[i]] \in Waiting

\* Redis, the connection and the memory hold ever larger trees.
SnapshotOrder ==
  /\ \A i \in Slot : Saving(pipe[i]) /\ stored.there => stored.ops \subseteq snap[pipe[i]].ops
  /\ \A i, j \in Slot :
       i < j /\ Saving(pipe[i]) /\ Saving(pipe[j]) =>
         snap[pipe[i]].ops \subseteq snap[pipe[j]].ops
  /\ live # NoObject =>
       /\ \A i \in Slot : Saving(pipe[i]) => snap[pipe[i]].ops \subseteq tree[live]
       /\ stored.there => stored.ops \subseteq tree[live]

\* Only clients close and resume.
ClientCalls ==
  \A t \in Task : pc[t] \in {"closeSave", "closeBill", "load", "build"} => t \in Client

\* Nothing is sent behind a load, and nothing is left when it was answered.
LoadIsLast ==
  \A t \in Task :
    /\ pc[t] \in {"load", "build"} => live = NoObject
    /\ pc[t] = "load" => \A i \in Slot : pipe[i] = t => i = Len(pipe)
    /\ pc[t] = "build" => pipe = <<>> /\ stored \in {Nothing, snap[t]}

\* A call that will bill lines knows whose.
HeldObject ==
  \A t \in Task : pc[t] \in {"closeSave", "closeBill", "flush"} => held[t] \in Object

\* The resumes under way, of however many clients, find an object left each.
Resuming == {t \in Task : pc[t] \in {"load", "build"}}
RoomLeft == IsFiniteSet(Resuming) /\ made + Cardinality(Resuming) <= MaxObjects

\* What holds for any number of clients.
BaseInv ==
  /\ TypeOK
  /\ QueueInv
  /\ HeldObject
  /\ RoomLeft

IInv ==
  /\ TypeOK
  /\ QueueInv
  /\ RoomLeft
  /\ SnapshotOrder
  /\ ClientCalls
  /\ LoadIsLast
  /\ HeldObject

-----------------------------------------------------------------------------
(***************************************************************************)
(* The connection.                                                         *)
(***************************************************************************)

\* An answered task leaves the head, and is the last one if its call goes on.
LEMMA ReplyShifts ==
  ASSUME TypeOK, QueueInv, NEW t \in Task, NEW command, NEW next,
         Reply(t, command, next)
  PROVE  /\ 1 \in Slot /\ pipe[1] = t
         /\ pipe' \in Seq(Task)
         /\ next \notin Waiting => Len(pipe') = Len(pipe) - 1
         /\ \A i \in Slot' :
              \/ /\ i + 1 \in Slot /\ pipe'[i] = pipe[i + 1] /\ pipe'[i] # t
                 /\ pc'[pipe'[i]] = pc[pipe'[i]]
                 /\ (i = Len(pipe')) <=> (i + 1 = Len(pipe) /\ next \notin Waiting)
              \/ i = Len(pipe') /\ pipe'[i] = t /\ next \in Waiting
<1>1. /\ pipe \in Seq(Task) /\ pipe # <<>> /\ pipe[1] = t
      /\ pc \in [Task -> Waiting \cup {"idle", "build"}]
      /\ pc' = [pc EXCEPT ![t] = next]
  BY DEF Reply, TypeOK
<1>2. /\ Tail(pipe) \in Seq(Task) /\ Len(Tail(pipe)) = Len(pipe) - 1
      /\ \A i \in 1 .. Len(Tail(pipe)) : Tail(pipe)[i] = pipe[i + 1]
  BY <1>1, HeadTailProperties
<1>3. Len(pipe) \in Nat \ {0}
  BY <1>1, EmptySeq, LenProperties
<1>4. \A i \in Slot : pipe[i] \in Task
  BY <1>1, ElementOfSeq DEF Slot
<1>5. \A i \in 1 .. Len(Tail(pipe)) :
        /\ i + 1 \in Slot /\ pipe[i + 1] # t
        /\ pc'[pipe[i + 1]] = pc[pipe[i + 1]]
  BY <1>1, <1>2, <1>3, <1>4 DEF QueueInv, Slot
<1>6. CASE next \in Waiting
  <2>1. pipe' = Append(Tail(pipe), t)
    BY <1>6 DEF Reply
  <2>2. /\ pipe' \in Seq(Task) /\ Len(pipe') = Len(Tail(pipe)) + 1
        /\ \A i \in 1 .. Len(Tail(pipe)) : pipe'[i] = Tail(pipe)[i]
        /\ pipe'[Len(Tail(pipe)) + 1] = t
    BY <1>2, <2>1, AppendProperties
  <2>3. Len(pipe') = Len(pipe) /\ Slot' = 1 .. Len(pipe)
    BY <1>2, <1>3, <2>2 DEF Slot
  <2>4. ASSUME NEW i \in 1 .. Len(pipe), i # Len(pipe)
        PROVE  /\ i + 1 \in Slot /\ pipe'[i] = pipe[i + 1] /\ pipe'[i] # t
               /\ pc'[pipe'[i]] = pc[pipe'[i]]
               /\ i # Len(pipe')
    <3>1. i \in Nat /\ Len(pipe) \in Nat /\ 1 <= i /\ i <= Len(pipe) - 1
      BY <1>3, <2>4
    <3>2. i \in 1 .. Len(Tail(pipe))
      BY <1>2, <3>1
    <3>3. i + 1 \in Slot /\ i # Len(pipe')
      BY <2>3, <3>1 DEF Slot
    <3>4. pipe'[i] = pipe[i + 1]
      BY <1>2, <2>2, <3>2
    <3> QED
      BY <1>5, <3>2, <3>3, <3>4
  <2>5. pipe'[Len(pipe)] = t
    BY <1>2, <1>3, <2>2
  <2>6. 1 \in Slot
    BY <1>3 DEF Slot
  <2> QED
    BY <1>1, <1>6, <2>2, <2>3, <2>4, <2>5, <2>6
<1>7. CASE next \notin Waiting
  <2>1. pipe' = Tail(pipe)
    BY <1>7 DEF Reply
  <2>2. ASSUME NEW i \in Slot'
        PROVE  /\ i + 1 \in Slot /\ pipe'[i] = pipe[i + 1] /\ pipe'[i] # t
               /\ pc'[pipe'[i]] = pc[pipe'[i]]
               /\ (i = Len(pipe')) <=> (i + 1 = Len(pipe))
    <3>1. i \in 1 .. Len(Tail(pipe)) /\ i \in Nat
      BY <2>1, <2>2, <1>2, <1>3 DEF Slot
    <3>2. (i = Len(pipe')) <=> (i + 1 = Len(pipe))
      BY <1>2, <1>3, <2>1, <3>1
    <3> QED
      BY <1>2, <1>5, <2>1, <3>1, <3>2
  <2>3. 1 \in Slot /\ Len(pipe') = Len(pipe) - 1
    BY <1>2, <1>3, <2>1 DEF Slot
  <2> QED
    BY <1>1, <1>2, <1>7, <2>1, <2>2, <2>3
<1> QED
  BY <1>6, <1>7

LEMMA ReplyKeepsQueue ==
  ASSUME TypeOK, QueueInv, NEW t \in Task, NEW command, NEW next,
         Reply(t, command, next)
  PROVE  QueueInv'
<1>1. /\ \A i \in Slot' :
           \/ i + 1 \in Slot /\ pipe'[i] = pipe[i + 1] /\ pipe'[i] # t
              /\ pc'[pipe'[i]] = pc[pipe'[i]]
           \/ i = Len(pipe') /\ pipe'[i] = t /\ next \in Waiting
  BY ReplyShifts
<1>2. pc \in [Task -> Waiting \cup {"idle", "build"}] /\ pc' = [pc EXCEPT ![t] = next]
  BY DEF TypeOK, Reply
<1>3. \A i, j \in Slot' : pipe'[i] = pipe'[j] => i = j
  <2> SUFFICES ASSUME NEW i \in Slot', NEW j \in Slot', pipe'[i] = pipe'[j] PROVE i = j
    OBVIOUS
  <2>1. CASE pipe'[i] = t
    BY <1>1, <2>1
  <2>2. CASE pipe'[i] # t
    <3>1. /\ i + 1 \in Slot /\ j + 1 \in Slot
          /\ pipe[i + 1] = pipe[j + 1]
      BY <1>1, <2>2
    <3>2. i + 1 = j + 1
      BY <3>1 DEF QueueInv
    <3> QED
      BY <3>2 DEF Slot
  <2> QED
    BY <2>1, <2>2
<1>4. \A i \in Slot' : pc'[pipe'[i]] \in Waiting
  BY <1>1, <1>2 DEF QueueInv
<1> QED
  BY <1>3, <1>4 DEF QueueInv

\* A command goes behind all the others.
LEMMA SendAppends ==
  ASSUME TypeOK, QueueInv, NEW t \in Task, NEW command \in Waiting,
         pc[t] = "idle", Send(t, command)
  PROVE  /\ pipe' \in Seq(Task)
         /\ pc' = [pc EXCEPT ![t] = command]
         /\ Len(pipe') = Len(pipe) + 1 /\ Len(pipe) \in Nat
         /\ pipe'[Len(pipe')] = t
         /\ \A i \in Slot :
              pipe'[i] = pipe[i] /\ pipe[i] # t /\ pc'[pipe[i]] = pc[pipe[i]]
         /\ QueueInv'
<1>1. /\ pipe \in Seq(Task) /\ pc \in [Task -> Waiting \cup {"idle", "build"}]
      /\ pc' = [pc EXCEPT ![t] = command]
      /\ pipe' = Append(pipe, t)
  BY DEF TypeOK, Send
<1>2. /\ pipe' \in Seq(Task) /\ Len(pipe') = Len(pipe) + 1
      /\ \A i \in 1 .. Len(pipe) : pipe'[i] = pipe[i]
      /\ pipe'[Len(pipe) + 1] = t
      /\ Len(pipe) \in Nat
  BY <1>1, AppendProperties, LenProperties
<1>3. "idle" \notin Waiting
  BY DEF Waiting
<1>4. \A i \in Slot : pipe[i] \in Task /\ pipe[i] # t /\ pc'[pipe[i]] = pc[pipe[i]]
  BY <1>1, <1>3, ElementOfSeq DEF Slot, QueueInv
<1>5. QueueInv'
  BY <1>1, <1>2, <1>4 DEF QueueInv, Slot
<1> QED
  BY <1>1, <1>2, <1>4, <1>5 DEF Slot

-----------------------------------------------------------------------------
(***************************************************************************)
(* The order of the snapshots.                                             *)
(***************************************************************************)

\* An answer that starts no save keeps the order, and Redis does not go back.
LEMMA ReplyKeepsOrder ==
  ASSUME IInv, NEW t \in Task, NEW command, NEW next, Reply(t, command, next),
         next \notin {"closeSave", "save"},
         live' \in {live, NoObject}, tree' = tree,
         \A u \in Task : u # t => snap'[u] = snap[u],
         \/ stored' = stored
         \/ command \in {"closeSave", "save"} /\ stored' = snap[t]
  PROVE  /\ SnapshotOrder'
         /\ stored.there /\ stored'.there => stored.ops \subseteq stored'.ops
<1>1. /\ TypeOK /\ QueueInv /\ SnapshotOrder /\ pc[t] = command
      /\ pc' = [pc EXCEPT ![t] = next]
      /\ pc \in [Task -> Waiting \cup {"idle", "build"}]
  BY DEF IInv, TypeOK, Reply
<1>2. /\ 1 \in Slot /\ pipe[1] = t /\ Len(pipe) \in Nat
  BY <1>1, ReplyShifts, LenProperties DEF TypeOK
<1>3. \A i \in Slot' :
        (Saving(pipe[i]))' => /\ i + 1 \in Slot /\ pipe'[i] = pipe[i + 1]
                              /\ Saving(pipe[i + 1]) /\ pipe[i + 1] \in Task
                              /\ snap'[pipe'[i]] = snap[pipe[i + 1]]
  <2> SUFFICES ASSUME NEW i \in Slot', (Saving(pipe[i]))'
               PROVE  /\ i + 1 \in Slot /\ pipe'[i] = pipe[i + 1]
                      /\ Saving(pipe[i + 1]) /\ pipe[i + 1] \in Task
                      /\ snap'[pipe'[i]] = snap[pipe[i + 1]]
    OBVIOUS
  <2>1. pipe'[i] # t
    BY <1>1 DEF Saving
  <2>2. /\ i + 1 \in Slot /\ pipe'[i] = pipe[i + 1]
        /\ pc'[pipe'[i]] = pc[pipe'[i]]
    BY <1>1, <2>1, ReplyShifts
  <2>3. pipe[i + 1] \in Task
    BY <2>2, ElementOfSeq DEF IInv, TypeOK, Slot
  <2> QED
    BY <2>1, <2>2, <2>3 DEF Saving
<1>4. /\ stored'.there =>
           \A i \in Slot : i > 1 /\ Saving(pipe[i]) => stored'.ops \subseteq snap[pipe[i]].ops
      /\ stored.there /\ stored'.there => stored.ops \subseteq stored'.ops
      /\ live # NoObject /\ stored'.there => stored'.ops \subseteq tree[live]
  <2>1. CASE stored' = stored
    BY <1>1, <2>1 DEF SnapshotOrder
  <2>2. CASE stored' # stored
    <3>1. Saving(pipe[1]) /\ stored' = snap[t]
      BY <1>1, <1>2, <2>2 DEF Saving
    <3>2. \A i \in Slot : i > 1 => i \in Nat /\ 1 < i
      BY <1>2 DEF Slot
    <3> QED
      BY <1>1, <1>2, <3>1, <3>2 DEF SnapshotOrder
  <2> QED
    BY <2>1, <2>2
<1>5. \A i \in Slot' : i \in Nat /\ i + 1 > 1
  BY DEF Slot
<1>6. \A i \in Slot' : (Saving(pipe[i]))' /\ stored'.there =>
         stored'.ops \subseteq snap'[pipe'[i]].ops
  BY <1>3, <1>4, <1>5
<1>7. \A i, j \in Slot' : i < j /\ (Saving(pipe[i]))' /\ (Saving(pipe[j]))' =>
         snap'[pipe'[i]].ops \subseteq snap'[pipe'[j]].ops
  <2> SUFFICES ASSUME NEW i \in Slot', NEW j \in Slot', i < j,
                      (Saving(pipe[i]))', (Saving(pipe[j]))'
               PROVE  snap'[pipe'[i]].ops \subseteq snap'[pipe'[j]].ops
    OBVIOUS
  <2>1. i + 1 < j + 1
    BY <1>5
  <2> QED
    BY <1>1, <1>3, <2>1 DEF SnapshotOrder
<1>8. live' # NoObject =>
        \A i \in Slot' : (Saving(pipe[i]))' => snap'[pipe'[i]].ops \subseteq tree'[live']
  BY <1>1, <1>3 DEF SnapshotOrder
<1>9. live' # NoObject /\ stored'.there => stored'.ops \subseteq tree'[live']
  BY <1>4
<1> QED
  BY <1>4, <1>6, <1>7, <1>8, <1>9 DEF SnapshotOrder

\* The tree in memory holds whatever is stored or on its way.
LEMMA SendKeepsOrder ==
  ASSUME IInv, NEW t \in Task, NEW command \in Waiting, pc[t] = "idle", Send(t, command),
         \/ command \in {"closeSave", "save"} /\ live # NoObject
            /\ snap' = [snap EXCEPT ![t] = Saved(tree[live])]
         \/ command \notin {"closeSave", "save"} /\ snap' = snap,
         UNCHANGED <<live, tree, stored>>
  PROVE  SnapshotOrder'
<1>1. /\ TypeOK /\ QueueInv /\ SnapshotOrder
      /\ pc \in [Task -> Waiting \cup {"idle", "build"}]
      /\ snap \in [Task -> {Nothing} \cup {Saved(S) : S \in SUBSET Op}]
      /\ pipe \in Seq(Task)
  BY DEF IInv, TypeOK
<1>2. /\ pc' = [pc EXCEPT ![t] = command]
      /\ Len(pipe') = Len(pipe) + 1 /\ Len(pipe) \in Nat
      /\ pipe'[Len(pipe')] = t
      /\ \A i \in Slot :
           pipe'[i] = pipe[i] /\ pipe[i] # t /\ pc'[pipe[i]] = pc[pipe[i]]
  BY <1>1, SendAppends
<1>3. \A i \in Slot : /\ pipe[i] \in Task
                      /\ snap'[pipe'[i]] = snap[pipe[i]]
                      /\ (Saving(pipe[i]))' <=> Saving(pipe[i])
  BY <1>1, <1>2, ElementOfSeq DEF Slot, Saving
<1>4. \A i \in Slot' : i \in Slot \/ i = Len(pipe')
  BY <1>2 DEF Slot
<1>5. (Saving(pipe[Len(pipe)]))' =>
         live # NoObject /\ snap'[t] = Saved(tree[live])
  BY <1>1, <1>2 DEF Saving
<1>6. Saved(tree[live]).ops = tree[live]
  BY DEF Saved
<1>7. \A i \in Slot' : (Saving(pipe[i]))' /\ stored.there =>
         stored.ops \subseteq snap'[pipe'[i]].ops
  BY <1>1, <1>2, <1>3, <1>4, <1>5, <1>6 DEF SnapshotOrder
<1>8. \A i, j \in Slot' : i < j /\ (Saving(pipe[i]))' /\ (Saving(pipe[j]))' =>
         snap'[pipe'[i]].ops \subseteq snap'[pipe'[j]].ops
  <2> SUFFICES ASSUME NEW i \in Slot', NEW j \in Slot', i < j,
                      (Saving(pipe[i]))', (Saving(pipe[j]))'
               PROVE  snap'[pipe'[i]].ops \subseteq snap'[pipe'[j]].ops
    OBVIOUS
  <2>1. i \in Slot
    BY <1>2 DEF Slot
  <2>2. CASE j \in Slot
    BY <1>1, <1>3, <2>1, <2>2 DEF SnapshotOrder
  <2>3. CASE j = Len(pipe')
    BY <1>1, <1>2, <1>3, <1>5, <1>6, <2>1, <2>3 DEF SnapshotOrder
  <2> QED
    BY <1>4, <2>2, <2>3
<1>9. live # NoObject =>
        \A i \in Slot' : (Saving(pipe[i]))' => snap'[pipe'[i]].ops \subseteq tree[live]
  BY <1>1, <1>2, <1>3, <1>4, <1>5, <1>6 DEF SnapshotOrder
<1> QED
  BY <1>1, <1>7, <1>8, <1>9 DEF SnapshotOrder

-----------------------------------------------------------------------------
(***************************************************************************)
(* Loads.                                                                  *)
(***************************************************************************)

\* Other calls' answers do not disturb a load: there is none behind it.
LEMMA ReplyKeepsLoads ==
  ASSUME IInv, OneClient, NEW t \in Task, NEW command, NEW next,
         Reply(t, command, next), command \in Waiting,
         next \in {"idle", "closeBill"}, next = "closeBill" => command = "closeSave",
         live' \in {live, NoObject}, made' = made
  PROVE  LoadIsLast'
<1>1. /\ TypeOK /\ QueueInv /\ LoadIsLast /\ ClientCalls
      /\ pc[t] = command /\ pipe # <<>>
      /\ pc' = [pc EXCEPT ![t] = next]
      /\ pc \in [Task -> Waiting \cup {"idle", "build"}]
      /\ Client \subseteq Task
  BY DEF IInv, TypeOK, Reply, Task
<1>2. /\ next # "load" /\ next # "build"
  OBVIOUS
<1> SUFFICES ASSUME NEW u \in Task
             PROVE  /\ pc'[u] \in {"load", "build"} => live' = NoObject
                    /\ pc'[u] = "load" => \A i \in Slot' : pipe'[i] = u => i = Len(pipe')
                    /\ pc'[u] = "build" => pipe' = <<>> /\ stored' \in {Nothing, snap'[u]}
  BY DEF LoadIsLast
<1>3. pc'[u] \in {"load", "build"} => u # t /\ pc[u] = pc'[u]
  BY <1>1, <1>2
<1>4. pc[u] # "build"
  BY <1>1 DEF LoadIsLast
<1>5. pc'[u] = "load" => live = NoObject
  BY <1>1, <1>3 DEF LoadIsLast
<1>6. ASSUME pc'[u] = "load", NEW i \in Slot', pipe'[i] = u PROVE i = Len(pipe')
  <2>1. next \notin Waiting
    <3>1. next = "closeBill" => t \in Client /\ u \in Client
      BY <1>1, <1>3, <1>6 DEF ClientCalls
    <3>2. next = "idle"
      BY <1>3, <1>6, <3>1 DEF OneClient
    <3> QED
      BY <3>2 DEF Waiting
  <2>2. /\ i + 1 \in Slot /\ pipe[i + 1] = u
        /\ (i = Len(pipe')) <=> (i + 1 = Len(pipe))
    BY <1>1, <1>3, <1>6, <2>1, ReplyShifts
  <2>3. i + 1 = Len(pipe)
    BY <1>1, <1>3, <1>6, <2>2 DEF LoadIsLast
  <2> QED
    BY <2>2, <2>3
<1> QED
  BY <1>3, <1>4, <1>5, <1>6

\* While a client resumes nothing is in memory, and nobody can send a save,
\* a flush or a close.
LEMMA SendKeepsLoads ==
  ASSUME IInv, NEW t \in Task, NEW command \in Waiting, command # "load",
         pc[t] = "idle", Send(t, command), live # NoObject, UNCHANGED <<live, made>>
  PROVE  LoadIsLast'
<1>1. pc' = [pc EXCEPT ![t] = command] /\ LoadIsLast
      /\ pc \in [Task -> Waiting \cup {"idle", "build"}]
  BY DEF Send, IInv, TypeOK
<1>2. \A u \in Task : pc'[u] \notin {"load", "build"}
  BY <1>1 DEF LoadIsLast, Waiting
<1> QED
  BY <1>2 DEF LoadIsLast

-----------------------------------------------------------------------------
(***************************************************************************)
(* The inductive step, and what each step does to the snapshot in Redis.   *)
(***************************************************************************)

NoRegress == stored.there /\ stored'.there => stored.ops \subseteq stored'.ops

Fresh ==
  \A t \in Task :
    pc[t] = "build" /\ pc'[t] = "idle" /\ live' # NoObject => stored \in {Nothing, snap[t]}

LEMMA InitInv == Init => IInv
<1> SUFFICES ASSUME Init PROVE IInv
  OBVIOUS
<1>1. TypeOK
  BY BoundAssumption, EmptySeq DEF BoundAssumption, Init, TypeOK, Object, NoObject, Nothing
<1>2. Len(pipe) = 0 /\ Slot = {}
  BY DEF Init, Slot
<1>3. QueueInv /\ SnapshotOrder
  BY <1>2 DEF Init, QueueInv, SnapshotOrder, Nothing
<1>4. ClientCalls /\ LoadIsLast /\ HeldObject
  BY DEF Init, ClientCalls, LoadIsLast, HeldObject
<1>5. RoomLeft
  <2>1. Resuming = {} /\ made = 1
    BY DEF Init, Resuming
  <2> QED
    BY <2>1, FS_EmptySet, BoundAssumption DEF RoomLeft, BoundAssumption
<1> QED
  BY <1>1, <1>3, <1>4, <1>5 DEF IInv

\* A step that answers a command of t.
LEMMA ReplyStep ==
  ASSUME IInv, OneClient, NEW t \in Task, NEW command \in Waiting, NEW next,
         Reply(t, command, next),
         next \in {"idle", "closeBill"}, next = "closeBill" => command = "closeSave",
         live' \in {live, NoObject}, UNCHANGED <<made, tree, snap>>,
         \/ stored' = stored
         \/ command \in {"closeSave", "save"} /\ stored' = snap[t]
  PROVE  QueueInv' /\ SnapshotOrder' /\ ClientCalls' /\ LoadIsLast' /\ NoRegress
<1>1. QueueInv'
  BY ReplyKeepsQueue DEF IInv
<1>2. SnapshotOrder' /\ NoRegress
  <2>1. next \notin {"closeSave", "save"}
    OBVIOUS
  <2> QED
    BY <2>1, ReplyKeepsOrder DEF NoRegress
<1>3. ClientCalls'
  BY DEF IInv, ClientCalls, Reply, TypeOK
<1>4. LoadIsLast'
  BY ReplyKeepsLoads
<1> QED
  BY <1>1, <1>2, <1>3, <1>4

\* A step in which t sends a command of a session in memory.
LEMMA SendStep ==
  ASSUME IInv, NEW t \in Task, NEW command \in Waiting, command # "load",
         command \in {"closeSave", "closeBill"} => t \in Client,
         pc[t] = "idle", Send(t, command), live # NoObject,
         \/ command \in {"closeSave", "save"}
            /\ snap' = [snap EXCEPT ![t] = Saved(tree[live])]
         \/ command \notin {"closeSave", "save"} /\ snap' = snap,
         UNCHANGED <<live, made, tree, stored>>
  PROVE  QueueInv' /\ SnapshotOrder' /\ ClientCalls' /\ LoadIsLast' /\ NoRegress
<1>1. QueueInv'
  BY SendAppends DEF IInv
<1>2. SnapshotOrder' /\ NoRegress
  BY SendKeepsOrder DEF NoRegress
<1>3. ClientCalls'
  BY DEF IInv, ClientCalls, Send, TypeOK, Waiting
<1>4. LoadIsLast'
  BY SendKeepsLoads
<1> QED
  BY <1>1, <1>2, <1>3, <1>4

\* What a step preserves besides the types.
Kept == QueueInv' /\ SnapshotOrder' /\ ClientCalls' /\ LoadIsLast' /\ NoRegress /\ Fresh

\* Only Build leaves "build" with a session in memory.
LEMMA FreshIfUnbuilt ==
  ASSUME IInv, \A t \in Task : pc[t] = "build" => pc'[t] = "build" \/ live' = NoObject
  PROVE  Fresh
BY DEF Fresh

LEMMA ReplyUnbuilt ==
  ASSUME IInv, NEW t \in Task, NEW command \in Waiting, NEW next, Reply(t, command, next)
  PROVE  \A u \in Task : pc[u] # "build"
BY DEF IInv, LoadIsLast, Reply

LEMMA SendUnbuilt ==
  ASSUME IInv, live # NoObject
  PROVE  \A u \in Task : pc[u] # "build"
BY DEF IInv, LoadIsLast

LEMMA TypeStep ==
  ASSUME BaseInv, [Next]_vars
  PROVE  TypeOK' /\ HeldObject'
<1> USE DEF BaseInv, HeldObject
<1>1. ASSUME NEW t \in Client, StartClose(t) PROVE TypeOK' /\ HeldObject'
  <2>1. t \in Task /\ tree[live] \in SUBSET Op /\ live \in Object
    BY <1>1 DEF TypeOK, StartClose, Task
  <2>2. pipe' \in Seq(Task)
    BY <1>1, <2>1, AppendProperties DEF TypeOK, StartClose, Send
  <2> QED
    BY <1>1, <2>1, <2>2
    DEF TypeOK, StartClose, Send, Waiting, objectVars, redisVars, Saved
<1>2. ASSUME NEW t \in Client, StartResume(t) PROVE TypeOK' /\ HeldObject'
  <2>1. t \in Task
    BY DEF Task
  <2>2. pipe' \in Seq(Task)
    BY <1>2, <2>1, AppendProperties DEF TypeOK, StartResume, Send
  <2> QED
    BY <1>2, <2>1, <2>2 DEF TypeOK, StartResume, Send, Waiting, objectVars, redisVars
<1>3. ASSUME NEW t \in Engine, IncrementLines(t) PROVE TypeOK' /\ HeldObject'
  <2>1. t \in Task /\ live \in Object
    BY <1>3 DEF TypeOK, IncrementLines, Task
  <2>2. lines' \in [Object -> Nat] /\ reported' \in Nat
    BY <1>3, <2>1 DEF TypeOK, IncrementLines
  <2>3. CASE Send(t, "flush") /\ held' = [held EXCEPT ![t] = live]
             /\ amount' = [amount EXCEPT ![t] = 1]
    <3>1. pipe' \in Seq(Task)
      BY <2>1, <2>3, AppendProperties DEF TypeOK, Send
    <3>2. UNCHANGED <<live, made, tree, redisVars, snap, faults>>
      BY <1>3 DEF IncrementLines
    <3> QED
      BY <2>1, <2>2, <2>3, <3>1, <3>2 DEF TypeOK, Send, Waiting, redisVars
  <2>4. CASE UNCHANGED <<pc, pipe, held, amount>>
    <3>1. UNCHANGED <<live, made, tree, redisVars, snap, faults>>
      BY <1>3 DEF IncrementLines
    <3> QED
      BY <2>2, <2>4, <3>1 DEF TypeOK, redisVars
  <2> QED
    BY <1>3, <2>3, <2>4 DEF IncrementLines
<1>4. ASSUME NEW t \in Task, StartSave(t) PROVE TypeOK' /\ HeldObject'
  <2>1. tree[live] \in SUBSET Op /\ live \in Object
    BY <1>4 DEF TypeOK, StartSave
  <2>2. pipe' \in Seq(Task)
    BY <1>4, AppendProperties DEF TypeOK, StartSave, Send
  <2> QED
    BY <1>4, <2>1, <2>2
    DEF TypeOK, StartSave, Send, Waiting, objectVars, redisVars, Saved
<1>5. ASSUME NEW t \in Task, CloseSaved(t) PROVE TypeOK' /\ HeldObject'
  <2>1. pipe' \in Seq(Task)
    BY <1>5, ReplyShifts DEF CloseSaved
  <2>2. lines[held[t]] \in Nat
    BY <1>5 DEF TypeOK, CloseSaved
  <2> QED
    BY <1>5, <2>1, <2>2 DEF TypeOK, CloseSaved, Reply, Store, Waiting
<1>6. ASSUME NEW t \in Task, CloseBilled(t) PROVE TypeOK' /\ HeldObject'
  <2>1. pipe' \in Seq(Task)
    BY <1>6, ReplyShifts DEF CloseBilled
  <2>2. stored' = stored /\ billed' \in Nat /\ stray' \in Nat
    BY <1>6 DEF TypeOK, CloseBilled, Bill
  <2> QED
    BY <1>6, <2>1, <2>2 DEF TypeOK, CloseBilled, Reply, Waiting
<1>7. ASSUME NEW t \in Task, Loaded(t) PROVE TypeOK' /\ HeldObject'
  <2>1. pipe' \in Seq(Task)
    BY <1>7, ReplyShifts DEF Loaded
  <2> DEFINE next == IF stored.there THEN "build" ELSE "idle"
  <2>2. /\ next \in {"build", "idle"} /\ (next = "build" => stored.there)
        /\ pc' = [pc EXCEPT ![t] = next]
    BY <1>7 DEF Loaded, Reply
  <2> HIDE DEF next
  <2>3. /\ pc' \in [Task -> Waiting \cup {"idle", "build"}]
        /\ snap' = [snap EXCEPT ![t] = stored]
        /\ snap' \in [Task -> {Nothing} \cup {Saved(S) : S \in SUBSET Op}]
    BY <1>7, <2>2 DEF TypeOK, Loaded
  <2>4. \A u \in Task : pc'[u] = "build" => snap'[u].there
    BY <2>2, <2>3 DEF TypeOK
  <2>5. \A u \in Task : pc'[u] \in {"closeSave", "closeBill", "flush"} => held[u] \in Object
    BY <2>2 DEF TypeOK
  <2>6. UNCHANGED <<objectVars, redisVars, reported, held, amount, faults>>
    BY <1>7 DEF Loaded
  <2> QED
    BY <2>1, <2>3, <2>4, <2>5, <2>6 DEF TypeOK, objectVars, redisVars
<1>8. ASSUME NEW t \in Task, Build(t) PROVE TypeOK' /\ HeldObject'
  <2>1. made < MaxObjects /\ made \in Nat /\ made >= 1 /\ MaxObjects \in Nat
    <3>1. t \in Resuming
      BY <1>8 DEF Build, Resuming
    <3>2. Cardinality(Resuming) \in Nat /\ Cardinality(Resuming) # 0
      BY <3>1, FS_CardinalityType, FS_EmptySet DEF RoomLeft
    <3> QED
      BY <3>2, BoundAssumption DEF BoundAssumption, TypeOK, Object, RoomLeft
  <2>2. made + 1 \in Object
    BY <2>1 DEF Object
  <2>3. snap[t] \in {Nothing} \cup {Saved(S) : S \in SUBSET Op} /\ snap[t].there
    BY <1>8 DEF TypeOK, Build
  <2>4. PICK S \in SUBSET Op : snap[t] = Saved(S)
    BY <2>3 DEF Nothing
  <2>5. snap[t].ops \in SUBSET Op
    BY <2>4 DEF Saved
  <2> QED
    BY <1>8, <2>2, <2>5 DEF TypeOK, Build, Waiting, redisVars
<1>9. ASSUME NEW t \in Task, SaveDone(t) PROVE TypeOK' /\ HeldObject'
  <2>1. pipe' \in Seq(Task)
    BY <1>9, ReplyShifts DEF SaveDone
  <2> QED
    BY <1>9, <2>1 DEF TypeOK, SaveDone, Reply, Store, Waiting, objectVars
<1>10. ASSUME NEW t \in Task, FlushDone(t) PROVE TypeOK' /\ HeldObject'
  <2>1. pipe' \in Seq(Task)
    BY <1>10, ReplyShifts DEF FlushDone
  <2>2. stored' = stored /\ billed' \in Nat /\ stray' \in Nat
    BY <1>10 DEF TypeOK, FlushDone, Bill
  <2> QED
    BY <1>10, <2>1, <2>2 DEF TypeOK, FlushDone, Reply, Waiting, objectVars
<1>11. ASSUME NEW t \in Task, CommandFails(t) PROVE TypeOK' /\ HeldObject'
  <2>1. PICK command \in Waiting :
          /\ Reply(t, command, "idle")
          /\ \/ UNCHANGED redisVars
             \/ command \in {"closeSave", "save"} /\ Store(t)
             \/ command \in {"closeBill", "flush"} /\ Bill(t)
    BY <1>11 DEF CommandFails
  <2>2. pipe' \in Seq(Task)
    BY <2>1, ReplyShifts
  <2>3. faults' \in 0 .. MaxFaults
    BY <1>11, BoundAssumption DEF BoundAssumption, TypeOK, CommandFails
  <2>4. /\ stored' \in {Nothing} \cup {Saved(S) : S \in SUBSET Op}
        /\ billed' \in Nat /\ stray' \in Nat
    BY <2>1 DEF TypeOK, redisVars, Store, Bill
  <2> QED
    BY <1>11, <2>1, <2>2, <2>3, <2>4 DEF TypeOK, CommandFails, Reply, Waiting, objectVars
<1>12. CASE ApplyOp
  BY <1>12 DEF TypeOK, ApplyOp, redisVars, taskVars
<1>13. CASE Crash
  BY <1>13, EmptySeq, BoundAssumption DEF BoundAssumption, TypeOK, Crash, redisVars
<1>14. CASE SnapshotExpires
  BY <1>14 DEF TypeOK, SnapshotExpires, objectVars, taskVars
<1>15. CASE UNCHANGED vars
  BY <1>15 DEF TypeOK, vars, objectVars, redisVars, taskVars
<1> QED
  BY <1>1, <1>2, <1>3, <1>4, <1>5, <1>6, <1>7, <1>8, <1>9, <1>10, <1>11, <1>12,
     <1>13, <1>14, <1>15 DEF Next, Progress

\* Who does not begin a resume leaves the room as it is.
LEMMA RoomStays ==
  ASSUME RoomLeft, made \in Nat, made' = made,
         \A u \in Task : pc'[u] \in {"load", "build"} => pc[u] \in {"load", "build"}
  PROVE  RoomLeft'
<1>1. Resuming' \in SUBSET Resuming
  BY DEF Resuming
<1>2. IsFiniteSet(Resuming') /\ Cardinality(Resuming') <= Cardinality(Resuming)
  BY <1>1, FS_Subset DEF RoomLeft
<1>3. Cardinality(Resuming') \in Nat /\ Cardinality(Resuming) \in Nat
  BY <1>2, FS_CardinalityType DEF RoomLeft
<1> QED
  BY <1>2, <1>3, BoundAssumption DEF RoomLeft, BoundAssumption

\* A step preserves the base invariant, however many clients there are.
LEMMA BaseStep ==
  ASSUME BaseInv, [Next]_vars
  PROVE  BaseInv'
<1>1. /\ TypeOK /\ QueueInv /\ RoomLeft /\ TypeOK' /\ HeldObject'
      /\ pc \in [Task -> Waiting \cup {"idle", "build"}]
      /\ made \in Nat /\ MaxObjects \in Nat
      /\ Client \subseteq Task /\ Engine \subseteq Task
  <2>1. TypeOK' /\ HeldObject'
    BY TypeStep
  <2>2. /\ TypeOK /\ QueueInv /\ RoomLeft
        /\ pc \in [Task -> Waiting \cup {"idle", "build"}]
        /\ made \in Nat
    BY DEF BaseInv, TypeOK, Object
  <2>3. MaxObjects \in Nat
    BY BoundAssumption DEF BoundAssumption
  <2> QED
    BY <2>1, <2>2, <2>3 DEF Task
<1>2. ASSUME NEW t \in Task, NEW command \in Waiting, command # "load", made' = made,
             pc[t] = "idle", Send(t, command)
      PROVE  QueueInv' /\ RoomLeft'
  <2>1. QueueInv' /\ pc' = [pc EXCEPT ![t] = command]
    BY <1>1, <1>2, SendAppends
  <2>2. \A u \in Task : pc'[u] \in {"load", "build"} => pc[u] \in {"load", "build"}
    BY <1>1, <1>2, <2>1 DEF Waiting
  <2> QED
    BY <1>1, <1>2, <2>1, <2>2, RoomStays
<1>3. ASSUME NEW t \in Task, NEW command, NEW next, Reply(t, command, next), made' = made,
             next \notin {"load", "build"} \/ command = "load"
      PROVE  QueueInv' /\ RoomLeft'
  <2>1. QueueInv' /\ pc[t] = command /\ pc' = [pc EXCEPT ![t] = next]
    BY <1>1, <1>3, ReplyKeepsQueue DEF Reply
  <2>2. \A u \in Task : pc'[u] \in {"load", "build"} => pc[u] \in {"load", "build"}
    BY <1>1, <1>3, <2>1
  <2> QED
    BY <1>1, <1>3, <2>1, <2>2, RoomStays
<1>4. ASSUME made' = made, pc' = pc, pipe' = pipe
      PROVE  QueueInv' /\ RoomLeft'
  BY <1>1, <1>4, RoomStays DEF QueueInv, Slot
<1>5. ASSUME NEW t \in Client, StartClose(t) PROVE QueueInv' /\ RoomLeft'
  BY <1>1, <1>2, <1>5 DEF StartClose, objectVars, Waiting
<1>6. ASSUME NEW t \in Client, StartResume(t) PROVE QueueInv' /\ RoomLeft'
  <2>1. /\ t \in Task /\ pc[t] = "idle" /\ made' = made /\ Send(t, "load")
        /\ made + Cardinality(Resuming) < MaxObjects
    BY <1>1, <1>6 DEF StartResume, objectVars, Resuming
  <2>2. QueueInv' /\ pc' = [pc EXCEPT ![t] = "load"]
    BY <1>1, <2>1, SendAppends DEF Waiting
  <2>3. Resuming' = Resuming \cup {t} /\ t \notin Resuming
    BY <1>1, <2>1, <2>2 DEF Resuming
  <2>4. IsFiniteSet(Resuming') /\ Cardinality(Resuming') = Cardinality(Resuming) + 1
    BY <1>1, <2>3, FS_AddElement DEF RoomLeft
  <2>5. Cardinality(Resuming) \in Nat
    BY <1>1, FS_CardinalityType DEF RoomLeft
  <2> QED
    BY <1>1, <2>1, <2>2, <2>4, <2>5 DEF RoomLeft
<1>7. ASSUME NEW t \in Engine, IncrementLines(t) PROVE QueueInv' /\ RoomLeft'
  <2>1. CASE Send(t, "flush")
    BY <1>1, <1>2, <1>7, <2>1 DEF IncrementLines, Waiting
  <2>2. CASE UNCHANGED <<pc, pipe>>
    BY <1>4, <1>7, <2>2 DEF IncrementLines
  <2> QED
    BY <1>7, <2>1, <2>2 DEF IncrementLines
<1>8. ASSUME NEW t \in Task, StartSave(t) PROVE QueueInv' /\ RoomLeft'
  BY <1>2, <1>8 DEF StartSave, objectVars, Waiting
<1>9. ASSUME NEW t \in Task, CloseSaved(t) PROVE QueueInv' /\ RoomLeft'
  <2>1. PICK next \in {"idle", "closeBill"} : Reply(t, "closeSave", next)
    BY <1>9 DEF CloseSaved
  <2> QED
    BY <1>3, <1>9, <2>1 DEF CloseSaved
<1>10. ASSUME NEW t \in Task, CloseBilled(t) PROVE QueueInv' /\ RoomLeft'
  BY <1>3, <1>10 DEF CloseBilled
<1>11. ASSUME NEW t \in Task, Loaded(t) PROVE QueueInv' /\ RoomLeft'
  <2>1. PICK next \in {"idle", "build"} : Reply(t, "load", next)
    BY <1>11 DEF Loaded
  <2> QED
    BY <1>3, <1>11, <2>1 DEF Loaded, objectVars
<1>12. ASSUME NEW t \in Task, Build(t) PROVE QueueInv' /\ RoomLeft'
  <2>1. /\ pc[t] = "build" /\ pc' = [pc EXCEPT ![t] = "idle"] /\ pipe' = pipe
        /\ made' = made + 1
    BY <1>12 DEF Build
  <2>2. Resuming' = Resuming \ {t} /\ t \in Resuming
    BY <1>1, <2>1 DEF Resuming
  <2>3. IsFiniteSet(Resuming') /\ Cardinality(Resuming') = Cardinality(Resuming) - 1
    BY <1>1, <2>2, FS_RemoveElement DEF RoomLeft
  <2>4. Cardinality(Resuming) \in Nat
    BY <1>1, FS_CardinalityType DEF RoomLeft
  <2>5. RoomLeft'
    BY <1>1, <2>1, <2>3, <2>4 DEF RoomLeft
  <2>6. \A i \in Slot : pipe[i] \in Task /\ pipe[i] # t
    BY <1>1, <2>1, ElementOfSeq DEF QueueInv, Slot, TypeOK, Waiting
  <2>7. QueueInv'
    BY <1>1, <2>1, <2>6 DEF QueueInv, Slot
  <2> QED
    BY <2>5, <2>7
<1>13. ASSUME NEW t \in Task, SaveDone(t) PROVE QueueInv' /\ RoomLeft'
  BY <1>3, <1>13 DEF SaveDone, objectVars
<1>14. ASSUME NEW t \in Task, FlushDone(t) PROVE QueueInv' /\ RoomLeft'
  BY <1>3, <1>14 DEF FlushDone, objectVars
<1>15. ASSUME NEW t \in Task, CommandFails(t) PROVE QueueInv' /\ RoomLeft'
  <2>1. PICK command \in Waiting : Reply(t, command, "idle")
    BY <1>15 DEF CommandFails
  <2> QED
    BY <1>3, <1>15, <2>1 DEF CommandFails, objectVars
<1>16. ASSUME Crash PROVE QueueInv' /\ RoomLeft'
  <2>1. pipe' = <<>> /\ pc' = [u \in Task |-> "idle"] /\ made' = made
    BY <1>16 DEF Crash
  <2>2. \A u \in Task : pc'[u] \notin {"load", "build"}
    BY <2>1
  <2>3. RoomLeft'
    BY <1>1, <2>1, <2>2, RoomStays
  <2>4. Slot' = {}
    BY <2>1 DEF Slot
  <2> QED
    BY <2>3, <2>4 DEF QueueInv
<1>17. ASSUME ApplyOp \/ SnapshotExpires \/ UNCHANGED vars PROVE QueueInv' /\ RoomLeft'
  <2>1. made' = made /\ pc' = pc /\ pipe' = pipe
    BY <1>17 DEF ApplyOp, SnapshotExpires, vars, objectVars, taskVars
  <2> QED
    BY <1>4, <2>1
<1> QED
  BY <1>1, <1>5, <1>6, <1>7, <1>8, <1>9, <1>10, <1>11, <1>12, <1>13, <1>14,
     <1>15, <1>16, <1>17 DEF BaseInv, Next, Progress

LEMMA QueueStep ==
  ASSUME IInv, OneClient, TypeOK', [Next]_vars
  PROVE  Kept
<1>1. ASSUME NEW t \in Client, StartClose(t) PROVE Kept
  <2>1. t \in Task /\ "closeSave" \in Waiting
    BY DEF Task, Waiting
  <2>2. QueueInv' /\ SnapshotOrder' /\ ClientCalls' /\ LoadIsLast' /\ NoRegress
    BY <1>1, <2>1, SendStep DEF StartClose, objectVars, redisVars
  <2> QED
    BY <1>1, <2>2, SendUnbuilt, FreshIfUnbuilt DEF Kept, StartClose
<1>2. ASSUME NEW t \in Client, StartResume(t) PROVE Kept
  <2>1. /\ t \in Task /\ "load" \in Waiting /\ pc[t] = "idle" /\ Send(t, "load")
        /\ live = NoObject /\ UNCHANGED <<live, made, tree, stored, snap>>
    BY <1>2 DEF Task, Waiting, StartResume, objectVars, redisVars
  <2>2. /\ pc' = [pc EXCEPT ![t] = "load"] /\ QueueInv'
        /\ pipe'[Len(pipe')] = t /\ Len(pipe') = Len(pipe) + 1 /\ Len(pipe) \in Nat
        /\ \A i \in Slot : pipe'[i] = pipe[i] /\ pipe[i] # t
    BY <2>1, SendAppends DEF IInv
  <2>3. SnapshotOrder' /\ NoRegress
    BY <2>1, SendKeepsOrder DEF NoRegress
  <2>4. ClientCalls'
    BY <2>1, <2>2 DEF IInv, TypeOK, ClientCalls
  <2>5. \A u \in Task : pc[u] \notin {"load", "build"}
    BY <2>1 DEF IInv, ClientCalls, OneClient
  <2>7. LoadIsLast'
    <3>1. \A u \in Task : u # t => pc'[u] \notin {"load", "build"}
      BY <2>2, <2>5 DEF IInv, TypeOK
    <3>2. pc'[t] = "load"
      BY <2>1, <2>2 DEF IInv, TypeOK
    <3>3. \A i \in Slot' : pipe'[i] = t => i = Len(pipe')
      BY <2>2 DEF Slot
    <3> QED
      BY <2>1, <3>1, <3>2, <3>3 DEF LoadIsLast
  <2>8. Fresh
    BY <2>1, FreshIfUnbuilt
  <2> QED
    BY <2>2, <2>3, <2>4, <2>7, <2>8 DEF Kept
<1>3. ASSUME NEW t \in Engine, IncrementLines(t) PROVE Kept
  <2>1. /\ t \in Task /\ "flush" \in Waiting /\ pc[t] = "idle" /\ live # NoObject
        /\ UNCHANGED <<live, made, tree, stored, snap>>
    BY <1>3 DEF Task, Waiting, IncrementLines, redisVars
  <2>2. CASE Send(t, "flush")
    <3>1. QueueInv' /\ SnapshotOrder' /\ ClientCalls' /\ LoadIsLast' /\ NoRegress
      BY <2>1, <2>2, SendStep
    <3> QED
      BY <2>1, <3>1, SendUnbuilt, FreshIfUnbuilt DEF Kept
  <2>3. CASE UNCHANGED <<pc, pipe>>
    BY <2>1, <2>3, FreshIfUnbuilt
    DEF IInv, Kept, QueueInv, SnapshotOrder, ClientCalls, LoadIsLast, NoRegress,
        Slot, Saving
  <2> QED
    BY <1>3, <2>2, <2>3 DEF IncrementLines
<1>4. ASSUME NEW t \in Task, StartSave(t) PROVE Kept
  <2>1. "save" \in Waiting
    BY DEF Waiting
  <2>2. QueueInv' /\ SnapshotOrder' /\ ClientCalls' /\ LoadIsLast' /\ NoRegress
    BY <1>4, <2>1, SendStep DEF StartSave, objectVars, redisVars
  <2> QED
    BY <1>4, <2>2, SendUnbuilt, FreshIfUnbuilt DEF Kept, StartSave
<1>5. ASSUME NEW t \in Task, CloseSaved(t) PROVE Kept
  <2>1. PICK next \in {"idle", "closeBill"} : Reply(t, "closeSave", next)
    BY <1>5 DEF CloseSaved
  <2>2. /\ "closeSave" \in Waiting /\ live' \in {live, NoObject}
        /\ UNCHANGED <<made, tree, snap>> /\ stored' = snap[t]
    BY <1>5 DEF CloseSaved, Waiting, Store
  <2>3. QueueInv' /\ SnapshotOrder' /\ ClientCalls' /\ LoadIsLast' /\ NoRegress
    BY <2>1, <2>2, ReplyStep
  <2> QED
    BY <2>1, <2>2, <2>3, ReplyUnbuilt, FreshIfUnbuilt DEF Kept
<1>6. ASSUME NEW t \in Task, CloseBilled(t) PROVE Kept
  <2>1. /\ "closeBill" \in Waiting /\ live' = NoObject /\ Reply(t, "closeBill", "idle")
        /\ UNCHANGED <<made, tree, snap>> /\ stored' = stored
    BY <1>6 DEF CloseBilled, Waiting, Bill
  <2>2. QueueInv' /\ SnapshotOrder' /\ ClientCalls' /\ LoadIsLast' /\ NoRegress
    BY <2>1, ReplyStep
  <2> QED
    BY <2>1, <2>2, ReplyUnbuilt, FreshIfUnbuilt DEF Kept
<1>7. ASSUME NEW t \in Task, Loaded(t) PROVE Kept
  <2> DEFINE next == IF stored.there THEN "build" ELSE "idle"
  <2>1. /\ next \in {"idle", "build"} /\ "load" \in Waiting /\ next \notin Waiting
        /\ Reply(t, "load", next)
        /\ snap' = [snap EXCEPT ![t] = stored]
        /\ UNCHANGED <<live, made, tree, stored>>
    BY <1>7 DEF Loaded, Waiting, objectVars, redisVars
  <2> HIDE DEF next
  <2>2. /\ pc[t] = "load" /\ pc' = [pc EXCEPT ![t] = next]
        /\ live = NoObject
    BY <2>1 DEF Reply, IInv, LoadIsLast
  <2>3. QueueInv'
    BY <2>1, ReplyKeepsQueue DEF IInv
  <2>4. SnapshotOrder' /\ NoRegress
    <3>1. \A u \in Task : u # t => snap'[u] = snap[u]
      BY <2>1 DEF IInv, TypeOK
    <3>2. next \notin {"closeSave", "save"}
      BY <2>1
    <3> QED
      BY <2>1, <3>1, <3>2, ReplyKeepsOrder DEF NoRegress
  <2>5. ClientCalls'
    BY <2>1, <2>2 DEF IInv, TypeOK, ClientCalls
  <2>6. pipe' = <<>>
    <3>1. /\ 1 \in Slot /\ pipe[1] = t /\ pipe' \in Seq(Task) /\ Len(pipe') = Len(pipe) - 1
      BY <2>1, ReplyShifts DEF IInv
    <3>2. Len(pipe) = 1
      BY <2>2, <3>1 DEF IInv, LoadIsLast
    <3> QED
      BY <3>1, <3>2, EmptySeq
  <2>7. LoadIsLast'
    <3>1. \A u \in Task : u # t => pc'[u] \notin {"load", "build"}
      BY <2>2 DEF IInv, TypeOK, ClientCalls, OneClient
    <3>2. pc'[t] = next /\ next # "load" /\ snap'[t] = stored
      BY <2>1, <2>2 DEF IInv, TypeOK
    <3> QED
      BY <2>1, <2>2, <2>6, <3>1, <3>2 DEF LoadIsLast
  <2>8. Fresh
    BY <2>1, ReplyUnbuilt DEF Fresh
  <2> QED
    BY <2>3, <2>4, <2>5, <2>7, <2>8 DEF Kept
<1>8. ASSUME NEW t \in Task, Build(t) PROVE Kept
  <2>1. /\ pc[t] = "build" /\ pipe = <<>> /\ stored \in {Nothing, snap[t]}
        /\ pipe' = pipe /\ stored' = stored /\ snap' = snap
        /\ pc' = [pc EXCEPT ![t] = "idle"]
        /\ live' = made + 1 /\ tree' = [tree EXCEPT ![made + 1] = snap[t].ops]
    BY <1>8 DEF Build, redisVars, IInv, LoadIsLast
  <2>2. Slot' = {}
    BY <2>1 DEF Slot
  <2>3. live' \in Object \cup {NoObject} /\ live' # NoObject
    BY <1>8, <2>1 DEF TypeOK, IInv, Object, NoObject
  <2>4. tree'[live'] = snap[t].ops
    BY <2>1, <2>3 DEF IInv, TypeOK
  <2>5. SnapshotOrder'
    BY <2>1, <2>2, <2>4 DEF SnapshotOrder, Nothing
  <2>6. \A u \in Task : pc'[u] \notin {"load", "build"}
    <3>1. \A u \in Task : u # t => pc[u] \notin {"load", "build"}
      BY <2>1 DEF IInv, ClientCalls, OneClient
    <3>2. pc'[t] = "idle" /\ \A u \in Task : u # t => pc'[u] = pc[u]
      BY <2>1 DEF IInv, TypeOK
    <3> QED BY <3>1, <3>2
  <2>7. ClientCalls' /\ LoadIsLast'
    BY <2>1, <2>6 DEF IInv, TypeOK, ClientCalls, LoadIsLast
  <2>8. Fresh
    BY <2>1 DEF Fresh, IInv, LoadIsLast
  <2> QED
    BY <2>1, <2>2, <2>5, <2>7, <2>8 DEF Kept, QueueInv, NoRegress
<1>9. ASSUME NEW t \in Task, SaveDone(t) PROVE Kept
  <2>1. /\ "save" \in Waiting /\ live' = live /\ Reply(t, "save", "idle")
        /\ UNCHANGED <<made, tree, snap>> /\ stored' = snap[t]
    BY <1>9 DEF SaveDone, Waiting, Store, objectVars
  <2>2. QueueInv' /\ SnapshotOrder' /\ ClientCalls' /\ LoadIsLast' /\ NoRegress
    BY <2>1, ReplyStep
  <2>3. Fresh
    BY <2>1, ReplyUnbuilt DEF Fresh
  <2> QED
    BY <2>2, <2>3 DEF Kept
<1>10. ASSUME NEW t \in Task, FlushDone(t) PROVE Kept
  <2>1. /\ "flush" \in Waiting /\ live' = live /\ Reply(t, "flush", "idle")
        /\ UNCHANGED <<made, tree, snap>> /\ stored' = stored
    BY <1>10 DEF FlushDone, Waiting, Bill, objectVars
  <2>2. QueueInv' /\ SnapshotOrder' /\ ClientCalls' /\ LoadIsLast' /\ NoRegress
    BY <2>1, ReplyStep
  <2>3. Fresh
    BY <2>1, ReplyUnbuilt DEF Fresh
  <2> QED
    BY <2>2, <2>3 DEF Kept
<1>11. ASSUME NEW t \in Task, CommandFails(t) PROVE Kept
  <2>1. PICK command \in Waiting :
          /\ Reply(t, command, "idle")
          /\ \/ stored' = stored
             \/ command \in {"closeSave", "save"} /\ stored' = snap[t]
    BY <1>11 DEF CommandFails, redisVars, Store, Bill
  <2>2. live' = live /\ UNCHANGED <<made, tree, snap>>
    BY <1>11 DEF CommandFails, objectVars
  <2>3. QueueInv' /\ SnapshotOrder' /\ ClientCalls' /\ LoadIsLast' /\ NoRegress
    BY <2>1, <2>2, ReplyStep
  <2>4. Fresh
    BY <2>1, ReplyUnbuilt DEF Fresh
  <2> QED
    BY <2>3, <2>4 DEF Kept
<1>12. CASE ApplyOp
  <2>1. PICK op \in Op : tree' = [tree EXCEPT ![live] = @ \cup {op}]
    BY <1>12 DEF ApplyOp
  <2>2. /\ live # NoObject /\ live \in Object /\ UNCHANGED <<live, made, stored, snap, pc, pipe>>
    BY <1>12 DEF ApplyOp, redisVars, taskVars, IInv, TypeOK
  <2>3. tree[live] \subseteq tree'[live']
    BY <2>1, <2>2 DEF IInv, TypeOK
  <2>4. SnapshotOrder'
    BY <2>2, <2>3 DEF IInv, SnapshotOrder, Slot, Saving
  <2>5. QueueInv' /\ ClientCalls' /\ LoadIsLast' /\ NoRegress /\ Fresh
    BY <2>2 DEF IInv, QueueInv, ClientCalls, LoadIsLast, NoRegress, Fresh, Slot
  <2> QED
    BY <2>4, <2>5 DEF Kept
<1>13. CASE Crash
  <2>1. /\ live' = NoObject /\ pipe' = <<>> /\ pc' = [u \in Task |-> "idle"]
        /\ stored' = stored
    BY <1>13 DEF Crash, redisVars
  <2>2. Slot' = {}
    BY <2>1 DEF Slot
  <2> QED
    BY <2>1, <2>2
    DEF Kept, QueueInv, SnapshotOrder, ClientCalls, LoadIsLast, NoRegress, Fresh
<1>14. CASE SnapshotExpires
  <2>1. stored' = Nothing /\ UNCHANGED <<live, made, tree, snap, pc, pipe>>
    BY <1>14 DEF SnapshotExpires, objectVars, taskVars
  <2>2. ~ stored'.there
    BY <2>1 DEF Nothing
  <2> QED
    BY <2>1, <2>2
    DEF IInv, Kept, QueueInv, SnapshotOrder, ClientCalls, LoadIsLast, NoRegress,
        Fresh, Slot, Saving
<1>15. CASE UNCHANGED vars
  <2>1. UNCHANGED <<live, made, tree, stored, snap, pc, pipe>>
    BY <1>15 DEF vars, objectVars, redisVars, taskVars
  <2> QED
    BY <2>1
    DEF IInv, Kept, QueueInv, SnapshotOrder, ClientCalls, LoadIsLast, NoRegress,
        Fresh, Slot, Saving
<1> QED
  BY <1>1, <1>2, <1>3, <1>4, <1>5, <1>6, <1>7, <1>8, <1>9, <1>10, <1>11, <1>12,
     <1>13, <1>14, <1>15 DEF Next, Progress

LEMMA NextInv ==
  ASSUME IInv, OneClient, [Next]_vars
  PROVE  IInv' /\ NoRegress /\ Fresh
<1>1. TypeOK' /\ HeldObject' /\ RoomLeft'
  BY BaseStep DEF IInv, BaseInv
<1>2. Kept
  BY <1>1, QueueStep
<1> QED
  BY <1>1, <1>2 DEF IInv, Kept

\* The variables of the session, of Redis and of the suspended calls keep their
\* types, for any number of clients whose calls overlap; in particular a call
\* that rebuilds the session holds a snapshot (session.js:161-165).
THEOREM TypeCorrect == Spec => []TypeOK
<1>1. Init => BaseInv
  BY InitInv DEF IInv, BaseInv
<1>2. BaseInv /\ [Next]_vars => BaseInv'
  BY BaseStep
<1>3. BaseInv => TypeOK
  BY DEF BaseInv
<1> QED
  BY <1>1, <1>2, <1>3, PTL DEF Spec

\* The snapshot in Redis never goes back to an older state of the session, for
\* any number of engine tasks that save it (saveSnapshot) while the client
\* closes and resumes it, and across crashes and rejected commands.
THEOREM SnapshotsNeverRegress == OneClient /\ Spec => StoredNeverRegresses
<1> SUFFICES ASSUME OneClient PROVE Spec => StoredNeverRegresses
  OBVIOUS
<1>1. IInv /\ [Next]_vars => IInv' /\ NoRegress
  BY NextInv
<1>2. IInv /\ [Next]_vars =>
        [stored.there /\ stored'.there => stored.ops \subseteq stored'.ops]_vars
  BY <1>1 DEF NoRegress
<1> QED
  BY InitInv, <1>1, <1>2, PTL DEF Spec, StoredNeverRegresses

\* resume rebuilds the session from the snapshot Redis holds at that moment,
\* whatever happened between its load and the rebuild.
THEOREM ResumesAreFresh == OneClient /\ Spec => ResumeIsFresh
<1> SUFFICES ASSUME OneClient PROVE Spec => ResumeIsFresh
  OBVIOUS
<1>1. IInv /\ [Next]_vars => IInv' /\ Fresh
  BY NextInv
<1>2. IInv /\ [Next]_vars =>
        [\A t \in Task :
           pc[t] = "build" /\ pc'[t] = "idle" /\ live' # NoObject =>
             stored \in {Nothing, snap[t]}]_vars
  BY <1>1 DEF Fresh
<1> QED
  BY InitInv, <1>1, <1>2, PTL DEF Spec, ResumeIsFresh

-----------------------------------------------------------------------------
(***************************************************************************)
(* What close stores.  Once its snapshot is stored, nothing older is left: *)
(* not in Redis, not on the connection and not in memory.                  *)
(***************************************************************************)

\* No tree that Redis, the connection or the memory holds lacks one of ops.
Above(ops) ==
  /\ stored.there => ops \subseteq stored.ops
  /\ \A i \in Slot : Saving(pipe[i]) => ops \subseteq snap[pipe[i]].ops
  /\ live # NoObject => ops \subseteq tree[live]

CloseInv == \A t \in Task : pc[t] = "closeBill" => Above(snap[t].ops)

\* A close that ends without a fault.
ClosedNow ==
  \A t \in Client :
    /\ pc[t] \in {"closeSave", "closeBill"} /\ pc'[t] = "idle"
    /\ faults' = faults /\ stored'.there
    => snap[t].ops \subseteq stored'.ops

\* An answer brings back nothing older.
LEMMA ReplyKeepsAbove ==
  ASSUME IInv, NEW ops, Above(ops),
         NEW t \in Task, NEW command, NEW next, Reply(t, command, next),
         next \notin {"closeSave", "save"},
         live' \in {live, NoObject}, UNCHANGED <<tree, snap>>,
         \/ stored' = stored
         \/ command \in {"closeSave", "save"} /\ stored' = snap[t]
  PROVE  Above(ops)'
<1>1. /\ TypeOK /\ QueueInv /\ pc[t] = command /\ pc' = [pc EXCEPT ![t] = next]
      /\ pc \in [Task -> Waiting \cup {"idle", "build"}]
  BY DEF IInv, TypeOK, Reply
<1>2. 1 \in Slot /\ pipe[1] = t
  BY <1>1, ReplyShifts
<1>3. stored'.there => ops \subseteq stored'.ops
  <2>1. CASE stored' = stored
    BY <2>1 DEF Above
  <2>2. CASE command \in {"closeSave", "save"} /\ stored' = snap[t]
    BY <1>1, <1>2, <2>2 DEF Above, Saving
  <2> QED BY <2>1, <2>2
<1>4. ASSUME NEW i \in Slot', (Saving(pipe[i]))'
      PROVE  ops \subseteq snap'[pipe'[i]].ops
  <2>1. pipe'[i] # t
    BY <1>1, <1>4 DEF Saving
  <2>2. /\ i + 1 \in Slot /\ pipe'[i] = pipe[i + 1]
        /\ pc'[pipe'[i]] = pc[pipe'[i]]
    BY <1>1, <2>1, ReplyShifts
  <2>3. Saving(pipe[i + 1])
    BY <1>4, <2>2 DEF Saving
  <2> QED BY <2>2, <2>3 DEF Above
<1> QED
  BY <1>3, <1>4 DEF Above

\* What is sent now is not older.
LEMMA SendKeepsAbove ==
  ASSUME IInv, NEW ops, Above(ops),
         NEW t \in Task, NEW command \in Waiting, pc[t] = "idle", Send(t, command),
         \/ command \in {"closeSave", "save"} /\ live # NoObject
            /\ snap' = [snap EXCEPT ![t] = Saved(tree[live])]
         \/ command \notin {"closeSave", "save"} /\ snap' = snap,
         UNCHANGED <<live, tree, stored>>
  PROVE  Above(ops)'
<1>1. /\ TypeOK /\ QueueInv /\ pc \in [Task -> Waiting \cup {"idle", "build"}]
      /\ snap \in [Task -> {Nothing} \cup {Saved(S) : S \in SUBSET Op}]
      /\ pipe \in Seq(Task)
  BY DEF IInv, TypeOK
<1>2. /\ pc' = [pc EXCEPT ![t] = command]
      /\ Len(pipe') = Len(pipe) + 1 /\ Len(pipe) \in Nat
      /\ pipe'[Len(pipe')] = t
      /\ \A i \in Slot :
           pipe'[i] = pipe[i] /\ pipe[i] # t /\ pc'[pipe[i]] = pc[pipe[i]]
  BY <1>1, SendAppends
<1>3. ASSUME NEW i \in Slot', (Saving(pipe[i]))'
      PROVE  ops \subseteq snap'[pipe'[i]].ops
  <2>1. CASE i \in Slot
    <3>1. pipe[i] \in Task
      BY <1>1, <2>1, ElementOfSeq DEF Slot
    <3>2. snap'[pipe'[i]] = snap[pipe[i]] /\ Saving(pipe[i])
      BY <1>1, <1>2, <1>3, <2>1, <3>1 DEF Saving
    <3> QED BY <2>1, <3>2 DEF Above
  <2>2. CASE i = Len(pipe')
    <3>1. live # NoObject /\ snap'[t] = Saved(tree[live])
      BY <1>1, <1>2, <1>3, <2>2 DEF Saving
    <3>2. snap'[pipe'[i]].ops = tree[live]
      BY <1>2, <2>2, <3>1 DEF Saved
    <3> QED BY <3>1, <3>2 DEF Above
  <2>3. i \in Slot \/ i = Len(pipe')
    BY <1>2 DEF Slot
  <2> QED BY <2>1, <2>2, <2>3
<1> QED
  BY <1>3 DEF Above

\* While the client closes the session it does nothing else, and nobody but a
\* client closes, resumes or rebuilds.
LEMMA CloserIsAlone ==
  ASSUME IInv, OneClient, NEW t \in Task, NEW u \in Task, t # u,
         pc[t] \in {"closeSave", "closeBill", "load", "build"} \/ t \in Client
  PROVE  pc[u] \notin {"closeSave", "closeBill", "load", "build"}
BY DEF IInv, ClientCalls, OneClient

LEMMA CloseStep ==
  ASSUME IInv, IInv', CloseInv, OneClient, [Next]_vars
  PROVE  CloseInv' /\ ClosedNow
<1> DEFINE Done == CloseInv' /\ ClosedNow
<1>0. /\ pc \in [Task -> Waiting \cup {"idle", "build"}]
      /\ \A t \in Client : t \in Task
  BY DEF IInv, TypeOK, Task
<1>1. ASSUME NEW t \in Task, NEW command \in Waiting, pc[t] = "idle", Send(t, command),
             \/ command \in {"closeSave", "save"} /\ live # NoObject
                /\ snap' = [snap EXCEPT ![t] = Saved(tree[live])]
             \/ command \notin {"closeSave", "closeBill", "save"} /\ snap' = snap,
             command # "closeBill",
             UNCHANGED <<live, tree, stored>>
      PROVE  Done
  <2>1. pc' = [pc EXCEPT ![t] = command]
    BY <1>1 DEF Send
  <2>2. \A u \in Task : pc'[u] = "closeBill" => u # t /\ pc[u] = "closeBill" /\ snap'[u] = snap[u]
    BY <1>0, <1>1, <2>1 DEF IInv, TypeOK
  <2>3. ASSUME NEW u \in Task, pc'[u] = "closeBill"  PROVE Above(snap[u].ops)'
    <3>1. PICK ops : ops = snap[u].ops  OBVIOUS
    <3>2. Above(ops)  BY <2>2, <2>3, <3>1 DEF CloseInv
    <3>3. Above(ops)'  BY <1>1, <3>2, SendKeepsAbove
    <3>4. snap'[u].ops = ops  BY <2>2, <2>3, <3>1
    <3> QED BY <3>3, <3>4
  <2>4. CloseInv'  BY <2>3 DEF CloseInv
  <2>5. ClosedNow
    BY <1>0, <1>1, <2>1 DEF ClosedNow, Waiting
  <2> QED BY <2>4, <2>5
<1>2. ASSUME NEW t \in Task, NEW command \in Waiting, Reply(t, command, "idle"),
             live' \in {live, NoObject}, UNCHANGED <<tree, snap>>,
             \/ stored' = stored
             \/ command \in {"closeSave", "save"} /\ stored' = snap[t],
             command = "closeSave" => stored' = snap[t] \/ faults' # faults
      PROVE  Done
  <2>1. pc[t] = command /\ pc' = [pc EXCEPT ![t] = "idle"]
    BY <1>2 DEF Reply
  <2>2. ASSUME NEW u \in Task, pc'[u] = "closeBill"  PROVE Above(snap[u].ops)'
    <3>1. pc[u] = "closeBill" /\ snap'[u] = snap[u]
      BY <1>0, <1>2, <2>1, <2>2
    <3>2. PICK ops : ops = snap[u].ops  OBVIOUS
    <3>3. Above(ops)  BY <3>1, <3>2 DEF CloseInv
    <3>4. Above(ops)'  BY <1>2, <3>3, ReplyKeepsAbove
    <3> QED BY <3>1, <3>2, <3>4
  <2>3. CloseInv'  BY <2>2 DEF CloseInv
  <2>4. ClosedNow
    <3> SUFFICES ASSUME NEW u \in Client, pc[u] \in {"closeSave", "closeBill"}, pc'[u] = "idle",
                        faults' = faults, stored'.there
                 PROVE  snap[u].ops \subseteq stored'.ops
      BY DEF ClosedNow
    <3>1. u = t
      BY <1>0, <2>1
    <3>2. CASE command = "closeSave"
      BY <1>2, <3>1, <3>2
    <3>3. CASE command # "closeSave"
      <4>1. pc[t] = "closeBill"  BY <2>1, <3>1, <3>3
      <4>2. stored' = stored  BY <1>2, <2>1, <4>1
      <4> QED BY <1>2, <3>1, <4>1, <4>2 DEF CloseInv, Above
    <3> QED BY <3>2, <3>3
  <2> QED BY <2>3, <2>4
<1>3. ASSUME \A u \in Task : pc[u] \notin {"closeSave", "closeBill"} /\ pc'[u] # "closeBill"
      PROVE  Done
  BY <1>0, <1>3 DEF CloseInv, ClosedNow
<1>4. ASSUME UNCHANGED <<pc, pipe, snap, live>>,
             stored' = stored \/ stored' = Nothing,
             live # NoObject => tree[live] \subseteq tree'[live]
      PROVE  Done
  <2>1. ASSUME NEW u \in Task, pc'[u] = "closeBill"  PROVE Above(snap[u].ops)'
    <3>1. Above(snap[u].ops)  BY <1>4, <2>1 DEF CloseInv
    <3> QED BY <1>4, <3>1 DEF Above, Slot, Saving, Nothing
  <2>2. ClosedNow  BY <1>4 DEF ClosedNow
  <2> QED BY <2>1, <2>2 DEF CloseInv
<1>5. ASSUME NEW t \in Client, StartClose(t)  PROVE Done
  BY <1>0, <1>1, <1>5 DEF StartClose, Waiting, objectVars, redisVars
<1>6. ASSUME NEW t \in Client, StartResume(t)  PROVE Done
  BY <1>0, <1>1, <1>6 DEF StartResume, Waiting, objectVars, redisVars
<1>7. ASSUME NEW t \in Engine, IncrementLines(t)  PROVE Done
  <2>1. CASE Send(t, "flush")
    BY <1>1, <1>7, <2>1 DEF IncrementLines, Waiting, redisVars, Task
  <2>2. CASE UNCHANGED <<pc, pipe>>
    BY <1>4, <1>7, <2>2 DEF IncrementLines, redisVars
  <2> QED BY <1>7, <2>1, <2>2 DEF IncrementLines
<1>8. ASSUME NEW t \in Task, StartSave(t)  PROVE Done
  BY <1>1, <1>8 DEF StartSave, Waiting, objectVars, redisVars
<1>9. ASSUME NEW t \in Task, CloseSaved(t)  PROVE Done
  <2>1. stored' = snap[t] /\ live' \in {live, NoObject} /\ UNCHANGED <<tree, snap, faults>>
        /\ "closeSave" \in Waiting
    BY <1>9 DEF CloseSaved, Store, Waiting
  <2>2. CASE Reply(t, "closeSave", "idle")
    BY <1>2, <2>1, <2>2
  <2>3. CASE Reply(t, "closeSave", "closeBill")
    <3>1. pc[t] = "closeSave" /\ pc' = [pc EXCEPT ![t] = "closeBill"]
      BY <2>3 DEF Reply
    <3>2. \A u \in Task : u # t => pc[u] \notin {"closeSave", "closeBill"}
      BY <3>1, CloserIsAlone
    <3>3. snap[t] = Nothing \/ snap[t].there
      BY DEF IInv, TypeOK, Saved
    <3>4. Above(snap[t].ops)'
      <4>1. CASE stored'.there
        BY <2>1, <4>1 DEF IInv, SnapshotOrder, Above
      <4>2. CASE ~ stored'.there
        <5>1. snap[t].ops = {}  BY <2>1, <3>3, <4>2 DEF Nothing
        <5> QED BY <2>1, <5>1 DEF Above
      <4> QED BY <4>1, <4>2
    <3>5. CloseInv'
      BY <1>0, <3>1, <3>2, <3>4 DEF CloseInv
    <3>6. ClosedNow
      BY <1>0, <3>1, <3>2 DEF ClosedNow
    <3> QED BY <3>5, <3>6
  <2> QED BY <1>9, <2>2, <2>3 DEF CloseSaved
<1>10. ASSUME NEW t \in Task, CloseBilled(t)  PROVE Done
  BY <1>2, <1>10 DEF CloseBilled, Bill, Waiting
<1>11. ASSUME NEW t \in Task, Loaded(t)  PROVE Done
  <2>1. pc[t] = "load" /\ pc' = [pc EXCEPT ![t] = IF stored.there THEN "build" ELSE "idle"]
    BY <1>11 DEF Loaded, Reply
  <2>2. \A u \in Task : u # t => pc[u] \notin {"closeSave", "closeBill"}
    BY <2>1, CloserIsAlone
  <2> QED BY <1>0, <1>3, <2>1, <2>2
<1>12. ASSUME NEW t \in Task, Build(t)  PROVE Done
  <2>1. pc[t] = "build" /\ pc' = [pc EXCEPT ![t] = "idle"]
    BY <1>12 DEF Build
  <2>2. \A u \in Task : u # t => pc[u] \notin {"closeSave", "closeBill"}
    BY <2>1, CloserIsAlone
  <2> QED BY <1>0, <1>3, <2>1, <2>2
<1>13. ASSUME NEW t \in Task, SaveDone(t)  PROVE Done
  BY <1>2, <1>13 DEF SaveDone, Store, Waiting, objectVars
<1>14. ASSUME NEW t \in Task, FlushDone(t)  PROVE Done
  BY <1>2, <1>14 DEF FlushDone, Bill, Waiting, objectVars
<1>15. ASSUME NEW t \in Task, CommandFails(t)  PROVE Done
  <2>1. PICK command \in Waiting :
          /\ Reply(t, command, "idle")
          /\ \/ stored' = stored
             \/ command \in {"closeSave", "save"} /\ stored' = snap[t]
    BY <1>15 DEF CommandFails, redisVars, Store, Bill
  <2>2. faults' # faults /\ live' = live /\ UNCHANGED <<tree, snap>>
    BY <1>15 DEF CommandFails, objectVars, IInv, TypeOK
  <2> QED BY <1>2, <2>1, <2>2
<1>16. CASE ApplyOp
  <2>1. live # NoObject => tree[live] \subseteq tree'[live]
    BY <1>16 DEF ApplyOp, IInv, TypeOK
  <2> QED BY <1>4, <1>16, <2>1 DEF ApplyOp, redisVars, taskVars
<1>17. CASE Crash
  <2>1. faults' # faults /\ pc' = [t \in Task |-> "idle"]
    BY <1>17 DEF Crash, IInv, TypeOK
  <2> QED BY <2>1 DEF CloseInv, ClosedNow
<1>18. CASE SnapshotExpires
  BY <1>4, <1>18 DEF SnapshotExpires, objectVars, taskVars
<1>19. CASE UNCHANGED vars
  BY <1>4, <1>19 DEF vars, objectVars, redisVars, taskVars
<1> QED
  BY <1>5, <1>6, <1>7, <1>8, <1>9, <1>10, <1>11, <1>12, <1>13, <1>14, <1>15,
     <1>16, <1>17, <1>18, <1>19 DEF Next, Progress

\* close (session.js:94-127) deletes a session only when Redis has what its tree
\* was when close began, or more, for any number of engine tasks whose saves and
\* flushes are on the connection before and behind the commands of close.
THEOREM ClosesAreSaved == OneClient /\ Spec => ClosedIsSaved
<1> SUFFICES ASSUME OneClient PROVE Spec => ClosedIsSaved
  OBVIOUS
<1>1. Init => IInv /\ CloseInv
  <2>1. Init => CloseInv  BY DEF Init, CloseInv
  <2> QED BY <2>1, InitInv
<1>2. IInv /\ CloseInv /\ [Next]_vars => IInv' /\ CloseInv' /\ ClosedNow
  BY NextInv, CloseStep
<1>3. IInv /\ CloseInv /\ [Next]_vars =>
        [\A t \in Client :
           /\ pc[t] \in {"closeSave", "closeBill"} /\ pc'[t] = "idle"
           /\ faults' = faults /\ stored'.there
           => snap[t].ops \subseteq stored'.ops]_vars
  BY <1>2 DEF ClosedNow
<1> QED
  BY <1>1, <1>2, <1>3, PTL DEF Spec, ClosedIsSaved

-----------------------------------------------------------------------------
(***************************************************************************)
(* The bill.  A flush bills lines that the close bills again, and so does  *)
(* a close that is tried again after its rejected command took effect.     *)
(* The account below shows that there is no other way to bill too much.    *)
(***************************************************************************)

Unbilled == IF live = NoObject THEN 0 ELSE lines[live]
Flushing == {t \in Task : pc[t] = "flush"}

\* What is billed, what the flushes on the connection bill, and what a close
\* would bill of the session in memory.
Due == billed + stray + Cardinality(Flushing) + Unbilled

\* One line is billed twice for each "every" lines of an object, and all lines
\* so far once more with each rejected command.
Within(every, flushes, rejected, unbilled, lineCount, due) ==
  /\ (flushes * every) + (unbilled % every) <= lineCount
  /\ due <= ((1 + rejected) * lineCount) + flushes

Account(flushes, rejected) ==
  /\ rejected <= faults
  /\ RedisMayFail \/ rejected = 0
  /\ Within(FlushEvery, flushes, rejected, Unbilled, reported, Due)

\* The object that a close bills is the last one made, and it is in the index
\* until it is billed.
ClosesTheLast ==
  /\ live \in {made, NoObject}
  /\ \A t \in Task :
       /\ pc[t] = "flush" => amount[t] = 1
       /\ pc[t] \in {"closeSave", "closeBill"} => live # NoObject /\ held[t] = live
       /\ pc[t] = "closeBill" => amount[t] <= lines[held[t]]
  /\ \A o \in Object : o > made => lines[o] = 0

BillInv ==
  /\ ClosesTheLast
  /\ IsFiniteSet(Flushing)
  /\ Unbilled <= reported
  /\ \E flushes, rejected \in Nat : Account(flushes, rejected)

\* The step before the next multiple is the last remainder.
LEMMA Remainders ==
  ASSUME NEW F \in Nat \ {0}, NEW l \in Nat
  PROVE  /\ l % F \in 0 .. F - 1
         /\ 0 % F = 0
         /\ (l + 1) % F = 0 => l % F = F - 1
         /\ (l + 1) % F # 0 => (l + 1) % F = (l % F) + 1
<1>1. \A q \in Nat, k \in 0 .. F - 1 : ((q * F) + k) % F = k
  <2> SUFFICES ASSUME NEW q \in Nat, NEW k \in 0 .. F - 1  PROVE ((q * F) + k) % F = k
    OBVIOUS
  <2> QED BY SMTT(60)
<1>2. l % F \in 0 .. F - 1  BY SMTT(60)
<1>3. PICK r \in 0 .. F - 1 : r = l % F  BY <1>2
<1>4. PICK q \in Nat : l = (q * F) + r
  <2>1. l \div F \in Nat  BY SMTT(60)
  <2>2. l = ((l \div F) * F) + (l % F)  BY SMTT(60)
  <2> QED BY <1>3, <2>1, <2>2
<1>5. 0 % F = 0
  <2>1. ((0 * F) + 0) % F = 0  BY <1>1
  <2> QED BY <2>1
<1>6. CASE r = F - 1
  <2>1. l + 1 = ((q + 1) * F) + 0  BY <1>4, <1>6
  <2>2. q + 1 \in Nat /\ 0 \in 0 .. F - 1  OBVIOUS
  <2>3. (l + 1) % F = 0  BY <1>1, <2>1, <2>2
  <2> QED BY <1>2, <1>3, <1>5, <1>6, <2>3
<1>7. CASE r # F - 1
  <2>1. l + 1 = (q * F) + (r + 1)  BY <1>4
  <2>2. r + 1 \in 0 .. F - 1  BY <1>7
  <2>3. (l + 1) % F = r + 1  BY <1>1, <2>1, <2>2
  <2> QED BY <1>2, <1>3, <1>5, <2>3
<1> QED BY <1>6, <1>7

\* How the account goes on: nothing new is due; a bill whose reply was lost is
\* due again; a line is reported, and may be flushed.
LEMMA AccountGoesOn ==
  ASSUME NEW F \in Nat \ {0}, NEW n \in Nat, NEW r \in Nat,
         NEW u \in Nat, NEW w \in Nat, NEW rep \in Nat, NEW rep2 \in Nat,
         NEW due \in Nat, NEW due2 \in Nat,
         Within(F, n, r, u, rep, due)
  PROVE  /\ rep2 = rep /\ due2 <= due /\ w \in {u, 0} => Within(F, n, r, w, rep2, due2)
         /\ rep2 = rep /\ due2 <= due + rep /\ w = u => Within(F, n, r + 1, w, rep2, due2)
         /\ rep2 = rep + 1 /\ due2 = due + 1 /\ w = u + 1 /\ w % F # 0 =>
              Within(F, n, r, w, rep2, due2)
         /\ rep2 = rep + 1 /\ due2 = due + 2 /\ w = u + 1 /\ w % F = 0 =>
              Within(F, n + 1, r, w, rep2, due2)
<1>1. /\ u % F \in 0 .. F - 1 /\ 0 % F = 0
      /\ (u + 1) % F = 0 => u % F = F - 1
      /\ (u + 1) % F # 0 => (u + 1) % F = (u % F) + 1
  BY Remainders
<1>2. PICK m \in 0 .. F - 1 : m = u % F  BY <1>1
<1>3. PICK b \in Nat : b = n * F  OBVIOUS
<1>4. PICK c \in Nat : c = (1 + r) * rep  OBVIOUS
<1>5. (1 + (r + 1)) * rep = c + rep  BY <1>4
<1>6. (1 + r) * (rep + 1) = c + 1 + r  BY <1>4
<1>7. (n + 1) * F = b + F  BY <1>3
<1>8. b + m <= rep /\ due <= c + n  BY <1>2, <1>3, <1>4 DEF Within
<1>9. ASSUME rep2 = rep, due2 <= due, w \in {u, 0}
      PROVE  (n * F) + (w % F) <= rep2 /\ due2 <= ((1 + r) * rep2) + n
  BY <1>1, <1>2, <1>3, <1>4, <1>8, <1>9
<1>10. ASSUME rep2 = rep, due2 <= due + rep, w = u
       PROVE  (n * F) + (w % F) <= rep2 /\ due2 <= ((1 + (r + 1)) * rep2) + n
  BY <1>2, <1>3, <1>5, <1>8, <1>10
<1>11. ASSUME rep2 = rep + 1, due2 = due + 1, w = u + 1, w % F # 0
       PROVE  (n * F) + (w % F) <= rep2 /\ due2 <= ((1 + r) * rep2) + n
  BY <1>1, <1>2, <1>3, <1>6, <1>8, <1>11
<1>12. ASSUME rep2 = rep + 1, due2 = due + 2, w = u + 1, w % F = 0
       PROVE  ((n + 1) * F) + (w % F) <= rep2 /\ due2 <= ((1 + r) * rep2) + (n + 1)
  BY <1>1, <1>2, <1>6, <1>7, <1>8, <1>12
<1> QED BY <1>9, <1>10, <1>11, <1>12 DEF Within

LEMMA DueIsNatural ==
  ASSUME TypeOK, IsFiniteSet(Flushing)
  PROVE  Due \in Nat /\ Unbilled \in Nat /\ Cardinality(Flushing) \in Nat
<1>1. Cardinality(Flushing) \in Nat  BY FS_CardinalityType
<1>2. Unbilled \in Nat  BY DEF Unbilled, TypeOK
<1> QED BY <1>1, <1>2 DEF Due, TypeOK

\* What a step may do to the account.
AccountMoves ==
  /\ IsFiniteSet(Flushing')
  /\ \/ reported' = reported /\ faults' >= faults /\ Due' <= Due /\ Unbilled' \in {Unbilled, 0}
     \/ /\ reported' = reported /\ faults' = faults + 1 /\ RedisMayFail
        /\ Due' <= Due + reported /\ Unbilled' = Unbilled
     \/ /\ reported' = reported + 1 /\ faults' = faults /\ Unbilled' = Unbilled + 1
        /\ Due' = Due + 1 /\ Unbilled' % FlushEvery # 0
     \/ /\ reported' = reported + 1 /\ faults' = faults /\ Unbilled' = Unbilled + 1
        /\ Due' = Due + 2 /\ Unbilled' % FlushEvery = 0

LEMMA DueIsNaturalNext ==
  ASSUME TypeOK', IsFiniteSet(Flushing')
  PROVE  Due' \in Nat /\ Unbilled' \in Nat
<1>1. Cardinality(Flushing') \in Nat  BY FS_CardinalityType
<1>2. Unbilled' \in Nat  BY DEF Unbilled, TypeOK
<1>3. billed' \in Nat /\ stray' \in Nat  BY DEF TypeOK
<1> QED BY <1>1, <1>2, <1>3 DEF Due

LEMMA AccountStep ==
  ASSUME TypeOK, TypeOK', BillInv, AccountMoves
  PROVE  Unbilled' <= reported' /\ \E flushes, rejected \in Nat : Account(flushes, rejected)'
<1> USE DEF AccountMoves
<1>1. /\ Due \in Nat /\ Unbilled \in Nat /\ Unbilled <= reported
      /\ reported \in Nat /\ faults \in Nat /\ FlushEvery \in Nat \ {0}
  <2>1. Due \in Nat /\ Unbilled \in Nat /\ Unbilled <= reported  BY DueIsNatural DEF BillInv
  <2>2. reported \in Nat /\ faults \in Nat  BY DEF TypeOK
  <2> QED BY <2>1, <2>2, FlushAssumption
<1>2. Due' \in Nat /\ Unbilled' \in Nat /\ reported' \in Nat /\ faults' \in Nat
  <2>1. Due' \in Nat /\ Unbilled' \in Nat
    BY DueIsNaturalNext
  <2> QED BY <2>1 DEF TypeOK
<1>3. Unbilled' <= reported'
  <2> DEFINE u == Unbilled  w == Unbilled'
  <2>1. u \in Nat /\ w \in Nat /\ u <= reported  BY <1>1, <1>2
  <2>2. \/ reported' = reported /\ w \in {u, 0}
        \/ reported' = reported + 1 /\ w = u + 1
    OBVIOUS
  <2> HIDE DEF u, w
  <2>3. w <= reported'  BY <1>1, <2>1, <2>2
  <2> QED BY <2>3 DEF w
<1>4. PICK n \in Nat, r \in Nat : Account(n, r)  BY DEF BillInv
<1>5. /\ r <= faults /\ (RedisMayFail \/ r = 0)
      /\ Within(FlushEvery, n, r, Unbilled, reported, Due)
  BY <1>4 DEF Account
<1> DEFINE d == Due  d2 == Due'  u == Unbilled  w == Unbilled'
<1>6. /\ d \in Nat /\ d2 \in Nat /\ u \in Nat /\ w \in Nat
      /\ Within(FlushEvery, n, r, u, reported, d)
  BY <1>1, <1>2, <1>5
<1> HIDE DEF d, d2, u, w
<1>7. /\ reported' = reported /\ d2 <= d /\ w \in {u, 0} =>
           Within(FlushEvery, n, r, w, reported', d2)
      /\ reported' = reported /\ d2 <= d + reported /\ w = u =>
           Within(FlushEvery, n, r + 1, w, reported', d2)
      /\ reported' = reported + 1 /\ d2 = d + 1 /\ w = u + 1 /\ w % FlushEvery # 0 =>
           Within(FlushEvery, n, r, w, reported', d2)
      /\ reported' = reported + 1 /\ d2 = d + 2 /\ w = u + 1 /\ w % FlushEvery = 0 =>
           Within(FlushEvery, n + 1, r, w, reported', d2)
  BY <1>1, <1>2, <1>6, AccountGoesOn
<1>8. ASSUME reported' = reported, faults' >= faults, d2 <= d, w \in {u, 0}
      PROVE  Account(n, r)'
  <2>1. r <= faults' /\ (RedisMayFail \/ r = 0)  BY <1>1, <1>2, <1>5, <1>8
  <2> QED BY <1>7, <1>8, <2>1 DEF Account, d2, w
<1>9. ASSUME reported' = reported, faults' = faults + 1, RedisMayFail, d2 <= d + reported, w = u
      PROVE  Account(n, r + 1)'
  <2>1. r + 1 <= faults'  BY <1>1, <1>5, <1>9
  <2> QED BY <1>7, <1>9, <2>1 DEF Account, d2, w
<1>10. ASSUME reported' = reported + 1, faults' = faults, w = u + 1, d2 = d + 1,
              w % FlushEvery # 0
       PROVE  Account(n, r)'
  BY <1>5, <1>7, <1>10 DEF Account, d2, w
<1>11. ASSUME reported' = reported + 1, faults' = faults, w = u + 1, d2 = d + 2,
              w % FlushEvery = 0
       PROVE  Account(n + 1, r)'
  BY <1>5, <1>7, <1>11 DEF Account, d2, w
<1>12. n + 1 \in Nat /\ r + 1 \in Nat  OBVIOUS
<1>13. \E flushes, rejected \in Nat : Account(flushes, rejected)'
  BY <1>8, <1>9, <1>10, <1>11, <1>12 DEF d, d2, u, w
<1> QED BY <1>3, <1>13

\* Sums of what is billed (p and q), flushed (c) and not billed (u).
LEMMA SumsCompare ==
  ASSUME NEW p \in Nat, NEW q \in Nat, NEW c \in Nat, NEW u \in Nat,
         NEW p2 \in Nat, NEW q2 \in Nat, NEW w \in Nat
  PROVE  /\ p2 + q2 + w <= p + q + u => p2 + q2 + c + w <= p + q + c + u
         /\ p2 + q2 <= p + q + 1 /\ c # 0 => p2 + q2 + (c - 1) + u <= p + q + c + u
         /\ \A a, r \in Nat : p2 + q2 = p + q + a /\ a <= u /\ u <= r =>
              p2 + q2 + c + u <= p + q + c + u + r
<1>1. PICK x \in Nat, x2 \in Nat : x = p + q /\ x2 = p2 + q2  OBVIOUS
<1> QED BY <1>1

LEMMA FlushingStays ==
  ASSUME \A u \in Task : pc'[u] = "flush" <=> pc[u] = "flush"
  PROVE  Flushing' = Flushing
BY DEF Flushing

\* A step that reports no line, begins or ends no flush and bills no more than
\* leaves the memory.
LEMMA QuietStep ==
  ASSUME TypeOK, TypeOK', BillInv,
         \A u \in Task : pc'[u] = "flush" <=> pc[u] = "flush",
         reported' = reported, faults' >= faults, Unbilled' \in {Unbilled, 0},
         billed' + stray' + Unbilled' <= billed + stray + Unbilled
  PROVE  AccountMoves
<1>1. Flushing' = Flushing  BY FlushingStays
<1>2. IsFiniteSet(Flushing) /\ Cardinality(Flushing) \in Nat /\ Unbilled \in Nat
  BY DueIsNatural DEF BillInv
<1>3. billed \in Nat /\ stray \in Nat /\ billed' \in Nat /\ stray' \in Nat  BY DEF TypeOK
<1>4. Unbilled' \in Nat  BY <1>2
<1> DEFINE c == Cardinality(Flushing)  u == Unbilled  w == Unbilled'
<1>5. Due = billed + stray + c + u  BY DEF Due
<1>6. Due' = billed' + stray' + c + w  BY <1>1 DEF Due
<1>7. c \in Nat /\ u \in Nat /\ w \in Nat /\ billed' + stray' + w <= billed + stray + u
  BY <1>2, <1>4
<1> HIDE DEF c, u, w
<1>8. Due' <= Due
  <2>1. billed' + stray' + c + w <= billed + stray + c + u  BY <1>3, <1>7, SumsCompare, Zenon
  <2> QED BY <1>5, <1>6, <2>1
<1> QED BY <1>1, <1>2, <1>8 DEF AccountMoves

\* The answer to a flush: its line goes from the connection to the bill, or is
\* lost.
LEMMA FlushAnswered ==
  ASSUME TypeOK, TypeOK', BillInv, NEW t \in Task, pc[t] = "flush",
         pc' = [pc EXCEPT ![t] = "idle"], objectVars' = objectVars,
         reported' = reported, faults' >= faults,
         billed' + stray' <= billed + stray + 1
  PROVE  AccountMoves
<1>1. pc \in [Task -> Waiting \cup {"idle", "build"}]  BY DEF TypeOK
<1>2. Flushing' = Flushing \ {t} /\ t \in Flushing  BY <1>1 DEF Flushing
<1>3. IsFiniteSet(Flushing') /\ Cardinality(Flushing') = Cardinality(Flushing) - 1
  BY <1>2, FS_RemoveElement DEF BillInv
<1>4. Cardinality(Flushing) \in Nat /\ Unbilled \in Nat  BY DueIsNatural DEF BillInv
<1>5. Unbilled' = Unbilled  BY DEF objectVars, Unbilled
<1>6. billed \in Nat /\ stray \in Nat /\ billed' \in Nat /\ stray' \in Nat  BY DEF TypeOK
<1> DEFINE c == Cardinality(Flushing)  c2 == Cardinality(Flushing')  u == Unbilled
<1>7. Due = billed + stray + c + u  BY DEF Due
<1>8. Due' = billed' + stray' + c2 + u  BY <1>5 DEF Due
<1>9. c \in Nat /\ u \in Nat /\ c2 = c - 1  BY <1>3, <1>4
<1> HIDE DEF c, c2, u
<1>10. Due' <= Due
  <2>1. c # 0  BY <1>2, <1>4, FS_EmptySet DEF BillInv, c
  <2>2. billed' + stray' + (c - 1) + u <= billed + stray + c + u
    BY <1>6, <1>9, <2>1, SumsCompare, Zenon
  <2> QED BY <1>7, <1>8, <1>9, <2>2
<1> QED BY <1>3, <1>5, <1>10 DEF AccountMoves

LEMMA BillInit == Init => BillInv
<1> SUFFICES ASSUME Init  PROVE BillInv
  OBVIOUS
<1>1. /\ live = 1 /\ made = 1 /\ 1 \in Object /\ faults = 0 /\ reported = 0
      /\ billed = 0 /\ stray = 0
      /\ \A o \in Object : lines[o] = 0
  BY BoundAssumption DEF Init, Object, BoundAssumption
<1>2. \A t \in Task : pc[t] = "idle"  BY DEF Init
<1>3. ClosesTheLast  BY <1>1, <1>2 DEF ClosesTheLast, NoObject
<1>4. Flushing = {}  BY <1>2 DEF Flushing
<1>5. IsFiniteSet(Flushing) /\ Cardinality(Flushing) = 0  BY <1>4, FS_EmptySet
<1>6. Unbilled = 0  BY <1>1 DEF Unbilled, NoObject
<1>7. Due = 0  BY <1>1, <1>5, <1>6 DEF Due
<1>8. 0 % FlushEvery = 0 /\ FlushEvery \in Nat  BY FlushAssumption, Remainders
<1>9. Account(0, 0)  BY <1>1, <1>6, <1>7, <1>8 DEF Account, Within
<1>10. \E flushes, rejected \in Nat : Account(flushes, rejected)
  <2>1. 0 \in Nat  OBVIOUS
  <2> QED BY <1>9, <2>1
<1> QED BY <1>1, <1>3, <1>5, <1>6, <1>10 DEF BillInv

LEMMA BillMoves ==
  ASSUME IInv, BillInv, OneClient, TypeOK', [Next]_vars
  PROVE  ClosesTheLast' /\ AccountMoves
<1>1. /\ live \in Object \cup {NoObject} /\ made \in Object /\ Object \subseteq Nat
      /\ NoObject \notin Object
      /\ lines \in [Object -> Nat] /\ billed \in Nat /\ stray \in Nat /\ reported \in Nat
      /\ faults \in Nat
      /\ pc \in [Task -> Waiting \cup {"idle", "build"}]
      /\ held \in [Task -> Object \cup {NoObject}] /\ amount \in [Task -> Nat]
      /\ Client \subseteq Task /\ Engine \subseteq Task
      /\ TypeOK /\ ClosesTheLast
  <2>1. TypeOK /\ ClosesTheLast  BY DEF IInv, BillInv
  <2>2. /\ live \in Object \cup {NoObject} /\ made \in Object /\ Object \subseteq Nat
        /\ NoObject \notin Object
        /\ lines \in [Object -> Nat] /\ billed \in Nat /\ stray \in Nat /\ reported \in Nat
        /\ pc \in [Task -> Waiting \cup {"idle", "build"}]
        /\ held \in [Task -> Object \cup {NoObject}] /\ amount \in [Task -> Nat]
    BY <2>1 DEF TypeOK, Object, NoObject
  <2>3. faults \in Nat  BY <2>1 DEF TypeOK
  <2> QED BY <2>1, <2>2, <2>3 DEF Task
<1>2. Unbilled \in Nat /\ Cardinality(Flushing) \in Nat /\ IsFiniteSet(Flushing)
      /\ Unbilled <= reported
  BY <1>1, DueIsNatural DEF BillInv
<1>3. ASSUME UNCHANGED <<live, lines, billed, stray, reported>>, faults' >= faults,
             \A u \in Task : pc'[u] = "flush" <=> pc[u] = "flush"
      PROVE  AccountMoves
  <2>1. Unbilled' = Unbilled  BY <1>3 DEF Unbilled
  <2>2. billed' + stray' + Unbilled' <= billed + stray + Unbilled  BY <1>1, <1>2, <1>3, <2>1
  <2> QED BY <1>1, <1>3, <2>1, <2>2, QuietStep
<1>4. ASSUME NEW t \in Client, StartClose(t)  PROVE ClosesTheLast' /\ AccountMoves
  <2>1. t \in Task /\ pc[t] = "idle" /\ live # NoObject
        /\ pc' = [pc EXCEPT ![t] = "closeSave"] /\ held' = [held EXCEPT ![t] = live]
        /\ UNCHANGED <<live, made, lines, billed, stray, reported, amount, faults>>
    BY <1>1, <1>4 DEF StartClose, Send, objectVars, redisVars
  <2>2. \A u \in Task : u # t => pc'[u] = pc[u] /\ held'[u] = held[u]
    BY <1>1, <2>1
  <2>3. pc'[t] = "closeSave" /\ held'[t] = live
    BY <1>1, <2>1
  <2>4. ClosesTheLast'  BY <1>1, <2>1, <2>2, <2>3 DEF ClosesTheLast
  <2>5. AccountMoves  BY <1>1, <1>3, <2>1, <2>2, <2>3
  <2> QED BY <2>4, <2>5
<1>5. ASSUME NEW t \in Client, StartResume(t)  PROVE ClosesTheLast' /\ AccountMoves
  <2>1. t \in Task /\ pc[t] = "idle" /\ pc' = [pc EXCEPT ![t] = "load"]
        /\ UNCHANGED <<live, made, lines, billed, stray, reported, held, amount, faults>>
    BY <1>1, <1>5 DEF StartResume, Send, objectVars, redisVars
  <2>2. ClosesTheLast'  BY <1>1, <2>1 DEF ClosesTheLast
  <2>3. AccountMoves  BY <1>1, <1>3, <2>1
  <2> QED BY <2>2, <2>3
<1>6. ASSUME NEW t \in Engine, IncrementLines(t)  PROVE ClosesTheLast' /\ AccountMoves
  <2>1. /\ t \in Task /\ pc[t] = "idle" /\ live = made /\ live \in Object
        /\ reported' = reported + 1
        /\ lines' = [lines EXCEPT ![live] = @ + 1]
        /\ UNCHANGED <<live, made, billed, stray, faults>>
    BY <1>1, <1>6 DEF IncrementLines, ClosesTheLast, redisVars
  <2>2. lines'[live] = lines[live] + 1 /\ \A o \in Object : o # live => lines'[o] = lines[o]
    BY <1>1, <2>1
  <2>3. Unbilled = lines[live] /\ Unbilled' = Unbilled + 1
    BY <1>1, <2>1, <2>2 DEF Unbilled
  <2>4. \A o \in Object : (o > made' => lines'[o] = 0) /\ lines[o] <= lines'[o]
    BY <1>1, <2>1, <2>2 DEF ClosesTheLast
  <2>5. CASE (lines[live] + 1) % FlushEvery = 0
    <3>1. /\ pc' = [pc EXCEPT ![t] = "flush"] /\ held' = [held EXCEPT ![t] = live]
          /\ amount' = [amount EXCEPT ![t] = 1]
      BY <1>6, <2>5 DEF IncrementLines, Send
    <3>2. \A u \in Task : u # t => pc'[u] = pc[u] /\ held'[u] = held[u] /\ amount'[u] = amount[u]
      BY <1>1, <3>1
    <3>3. pc'[t] = "flush" /\ amount'[t] = 1  BY <1>1, <2>1, <3>1
    <3>4. \A u \in Task : pc'[u] = "closeBill" => amount'[u] <= lines'[held'[u]]
      <4> SUFFICES ASSUME NEW u \in Task, pc'[u] = "closeBill"
                   PROVE  amount'[u] <= lines'[held'[u]]
        OBVIOUS
      <4>1. u # t /\ pc[u] = "closeBill" /\ held'[u] = held[u] /\ amount'[u] = amount[u]
        BY <3>2, <3>3
      <4>2. held[u] = live /\ amount[u] <= lines[held[u]] /\ amount[u] \in Nat
        BY <1>1, <4>1 DEF ClosesTheLast
      <4> QED BY <1>1, <2>1, <2>2, <4>1, <4>2
    <3>5. ClosesTheLast'
      BY <1>1, <2>1, <2>4, <3>2, <3>3, <3>4 DEF ClosesTheLast
    <3>6. Flushing' = Flushing \cup {t} /\ t \notin Flushing
      BY <2>1, <3>2, <3>3 DEF Flushing
    <3>7. IsFiniteSet(Flushing') /\ Cardinality(Flushing') = Cardinality(Flushing) + 1
      BY <1>2, <3>6, FS_AddElement
    <3> DEFINE c == Cardinality(Flushing)  c2 == Cardinality(Flushing')
               u == Unbilled  w == Unbilled'
    <3>8. Due = billed + stray + c + u /\ Due' = billed + stray + c2 + w  BY <2>1 DEF Due
    <3>9. c \in Nat /\ u \in Nat /\ c2 = c + 1 /\ w = u + 1  BY <1>2, <2>3, <3>7
    <3> HIDE DEF c, c2, u, w
    <3>10. Due' = Due + 2  BY <1>1, <3>8, <3>9
    <3>11. Unbilled' % FlushEvery = 0  BY <2>3, <2>5
    <3> QED BY <2>1, <2>3, <3>5, <3>7, <3>10, <3>11 DEF AccountMoves
  <2>6. CASE (lines[live] + 1) % FlushEvery # 0
    <3>1. UNCHANGED <<pc, held, amount>>
      BY <1>6, <2>6 DEF IncrementLines
    <3>2. \A u \in Task : pc'[u] = "closeBill" => amount'[u] <= lines'[held'[u]]
      <4> SUFFICES ASSUME NEW u \in Task, pc'[u] = "closeBill"
                   PROVE  amount'[u] <= lines'[held'[u]]
        OBVIOUS
      <4>1. held[u] = live /\ amount[u] <= lines[held[u]] /\ amount[u] \in Nat
        BY <1>1, <3>1 DEF ClosesTheLast
      <4> QED BY <1>1, <2>1, <2>2, <3>1, <4>1
    <3>3. ClosesTheLast'
      BY <1>1, <2>1, <2>4, <3>1, <3>2 DEF ClosesTheLast
    <3>4. Flushing' = Flushing  BY <3>1 DEF Flushing
    <3> DEFINE c == Cardinality(Flushing)  u == Unbilled  w == Unbilled'
    <3>5. Due = billed + stray + c + u /\ Due' = billed + stray + c + w  BY <2>1, <3>4 DEF Due
    <3>6. c \in Nat /\ u \in Nat /\ w = u + 1  BY <1>2, <2>3
    <3> HIDE DEF c, u, w
    <3>7. Due' = Due + 1  BY <1>1, <3>5, <3>6
    <3>8. Unbilled' % FlushEvery # 0  BY <2>3, <2>6
    <3> QED BY <1>2, <2>1, <2>3, <3>3, <3>4, <3>7, <3>8 DEF AccountMoves
  <2> QED BY <2>5, <2>6
<1>7. ASSUME NEW t \in Task, StartSave(t)  PROVE ClosesTheLast' /\ AccountMoves
  <2>1. pc[t] = "idle" /\ pc' = [pc EXCEPT ![t] = "save"]
        /\ UNCHANGED <<live, made, lines, billed, stray, reported, held, amount, faults>>
    BY <1>7 DEF StartSave, Send, objectVars, redisVars
  <2>2. ClosesTheLast'  BY <1>1, <2>1 DEF ClosesTheLast
  <2>3. AccountMoves  BY <1>1, <1>3, <2>1
  <2> QED BY <2>2, <2>3
<1>8. ASSUME NEW t \in Task, CloseSaved(t)  PROVE ClosesTheLast' /\ AccountMoves
  <2>1. pc[t] = "closeSave" /\ UNCHANGED <<made, lines, billed, stray, reported, held, faults>>
    BY <1>8 DEF CloseSaved, Store
  <2>2. \A u \in Task : u # t => pc[u] \notin {"closeSave", "closeBill"}
    BY <2>1, CloserIsAlone
  <2>3. CASE lines[held[t]] > 0
    <3>1. pc' = [pc EXCEPT ![t] = "closeBill"] /\ live' = live
          /\ amount' = [amount EXCEPT ![t] = lines[held[t]]]
      BY <1>8, <2>3 DEF CloseSaved, Reply
    <3>2. amount'[t] = lines[held[t]] /\ lines[held[t]] \in Nat
      BY <1>1, <2>1, <3>1 DEF ClosesTheLast
    <3>3. ClosesTheLast'  BY <1>1, <2>1, <2>2, <3>1, <3>2 DEF ClosesTheLast
    <3>4. AccountMoves  BY <1>1, <1>3, <2>1, <3>1
    <3> QED BY <3>3, <3>4
  <2>4. CASE ~ (lines[held[t]] > 0)
    <3>1. pc' = [pc EXCEPT ![t] = "idle"] /\ live' = NoObject /\ amount' = amount
      BY <1>8, <2>4 DEF CloseSaved, Reply
    <3>2. ClosesTheLast'  BY <1>1, <2>1, <2>2, <3>1 DEF ClosesTheLast
    <3>3. Unbilled' = 0  BY <3>1 DEF Unbilled
    <3>4. billed' + stray' + Unbilled' <= billed + stray + Unbilled
      BY <1>1, <1>2, <2>1, <3>3
    <3>5. \A u \in Task : pc'[u] = "flush" <=> pc[u] = "flush"  BY <1>1, <2>1, <3>1
    <3>6. AccountMoves  BY <1>1, <2>1, <3>3, <3>4, <3>5, QuietStep
    <3> QED BY <3>2, <3>6
  <2> QED BY <2>3, <2>4
<1>9. ASSUME NEW t \in Task, CloseBilled(t)  PROVE ClosesTheLast' /\ AccountMoves
  <2>1. /\ pc[t] = "closeBill" /\ pc' = [pc EXCEPT ![t] = "idle"] /\ live' = NoObject
        /\ UNCHANGED <<made, lines, reported, held, amount, faults>>
    BY <1>9 DEF CloseBilled, Reply
  <2>2. \A u \in Task : u # t => pc[u] \notin {"closeSave", "closeBill"}
    BY <2>1, CloserIsAlone
  <2>3. billed' + stray' = billed + stray + amount[t]
    BY <1>1, <1>9 DEF CloseBilled, Bill
  <2>4. amount[t] <= Unbilled /\ amount[t] \in Nat
    BY <1>1, <2>1 DEF ClosesTheLast, Unbilled
  <2>5. Unbilled' = 0  BY <2>1 DEF Unbilled
  <2>6. billed' + stray' + Unbilled' <= billed + stray + Unbilled
    BY <1>1, <1>2, <2>3, <2>4, <2>5
  <2>7. \A u \in Task : pc'[u] = "flush" <=> pc[u] = "flush"  BY <1>1, <2>1
  <2>8. AccountMoves  BY <1>1, <2>1, <2>5, <2>6, <2>7, QuietStep
  <2>9. ClosesTheLast'  BY <1>1, <2>1, <2>2 DEF ClosesTheLast
  <2> QED BY <2>8, <2>9
<1>10. ASSUME NEW t \in Task, Loaded(t)  PROVE ClosesTheLast' /\ AccountMoves
  <2>1. /\ pc[t] = "load" /\ pc' = [pc EXCEPT ![t] = IF stored.there THEN "build" ELSE "idle"]
        /\ UNCHANGED <<live, made, lines, billed, stray, reported, held, amount, faults>>
    BY <1>10 DEF Loaded, Reply, objectVars, redisVars
  <2>2. \A u \in Task : u # t => pc'[u] = pc[u]
    BY <1>1, <2>1
  <2>3. pc'[t] \in {"build", "idle"}
    BY <1>1, <2>1
  <2>4. ClosesTheLast'  BY <1>1, <2>1, <2>2, <2>3 DEF ClosesTheLast
  <2>5. \A u \in Task : pc'[u] = "flush" <=> pc[u] = "flush"  BY <2>1, <2>2, <2>3
  <2>6. AccountMoves  BY <1>1, <1>3, <2>1, <2>5
  <2> QED BY <2>4, <2>6
<1>11. ASSUME NEW t \in Task, Build(t)  PROVE ClosesTheLast' /\ AccountMoves
  <2>1. /\ pc[t] = "build" /\ pc' = [pc EXCEPT ![t] = "idle"]
        /\ made' = made + 1 /\ live' = made + 1
        /\ UNCHANGED <<lines, billed, stray, reported, held, amount, faults>>
    BY <1>11 DEF Build, redisVars
  <2>2. \A u \in Task : u # t => pc[u] \notin {"closeSave", "closeBill"}
    BY <2>1, CloserIsAlone
  <2>3. \A u \in Task : pc'[u] \notin {"closeSave", "closeBill"} /\ (pc'[u] = "flush" <=> pc[u] = "flush")
    BY <1>1, <2>1, <2>2
  <2>4. made' \in Object /\ lines[made'] = 0
    BY <1>1, <2>1 DEF TypeOK, ClosesTheLast
  <2>5. \A o \in Object : o > made' => lines[o] = 0
    BY <1>1, <2>1 DEF ClosesTheLast
  <2>6. ClosesTheLast'  BY <1>1, <2>1, <2>3, <2>4, <2>5 DEF ClosesTheLast
  <2>7. Unbilled' = 0  BY <2>1, <2>4 DEF Unbilled
  <2>8. billed' + stray' + Unbilled' <= billed + stray + Unbilled
    BY <1>1, <1>2, <2>1, <2>7
  <2>9. AccountMoves  BY <1>1, <2>1, <2>3, <2>7, <2>8, QuietStep
  <2> QED BY <2>6, <2>9
<1>12. ASSUME NEW t \in Task, SaveDone(t)  PROVE ClosesTheLast' /\ AccountMoves
  <2>1. pc[t] = "save" /\ pc' = [pc EXCEPT ![t] = "idle"]
        /\ UNCHANGED <<live, made, lines, billed, stray, reported, held, amount, faults>>
    BY <1>12 DEF SaveDone, Reply, Store, objectVars
  <2>2. ClosesTheLast'  BY <1>1, <2>1 DEF ClosesTheLast
  <2>3. AccountMoves  BY <1>1, <1>3, <2>1
  <2> QED BY <2>2, <2>3
<1>13. ASSUME NEW t \in Task, FlushDone(t)  PROVE ClosesTheLast' /\ AccountMoves
  <2>1. pc[t] = "flush" /\ pc' = [pc EXCEPT ![t] = "idle"]
        /\ UNCHANGED <<objectVars, reported, held, amount, faults>>
    BY <1>13 DEF FlushDone, Reply
  <2>2. ClosesTheLast'  BY <1>1, <2>1 DEF ClosesTheLast, objectVars
  <2>3. amount[t] = 1  BY <1>1, <2>1 DEF ClosesTheLast
  <2>4. billed' + stray' <= billed + stray + 1
    BY <1>1, <1>13, <2>3 DEF FlushDone, Bill
  <2>5. objectVars' = objectVars /\ reported' = reported /\ faults' >= faults
    BY <1>1, <2>1 DEF objectVars
  <2>6. AccountMoves  BY <1>1, <2>1, <2>4, <2>5, FlushAnswered
  <2> QED BY <2>2, <2>6
<1>14. ASSUME NEW t \in Task, CommandFails(t)  PROVE ClosesTheLast' /\ AccountMoves
  <2>1. PICK command \in Waiting :
          /\ Reply(t, command, "idle")
          /\ \/ UNCHANGED redisVars
             \/ command \in {"closeSave", "save"} /\ Store(t)
             \/ command \in {"closeBill", "flush"} /\ Bill(t)
    BY <1>14 DEF CommandFails
  <2>2. pc[t] = command /\ pc' = [pc EXCEPT ![t] = "idle"]
        /\ RedisMayFail /\ faults' = faults + 1 /\ faults' >= faults
        /\ UNCHANGED <<objectVars, reported, held, amount>>
    BY <1>1, <1>14, <2>1 DEF CommandFails, Reply
  <2>3. UNCHANGED <<live, made, lines>>  BY <2>2 DEF objectVars
  <2>4. ClosesTheLast'  BY <1>1, <2>2, <2>3 DEF ClosesTheLast
  <2>5. CASE command = "flush"
    <3>1. amount[t] = 1  BY <1>1, <2>2, <2>5 DEF ClosesTheLast
    <3>2. billed' + stray' <= billed + stray + 1
      BY <1>1, <2>1, <2>5, <3>1 DEF redisVars, Store, Bill
    <3> QED BY <1>1, <2>2, <2>4, <2>5, <3>2, FlushAnswered
  <2>6. CASE command # "flush"
    <3>1. \A u \in Task : pc'[u] = "flush" <=> pc[u] = "flush"  BY <1>1, <2>2, <2>6
    <3>2. CASE UNCHANGED <<billed, stray>>
      BY <1>3, <2>2, <2>3, <2>4, <3>1, <3>2
    <3>3. CASE command = "closeBill" /\ Bill(t)
      <4>1. billed' + stray' = billed + stray + amount[t]
        BY <1>1, <3>3 DEF Bill
      <4>2. amount[t] <= Unbilled /\ amount[t] \in Nat
        BY <1>1, <2>2, <3>3 DEF ClosesTheLast, Unbilled
      <4>3. Flushing' = Flushing /\ Unbilled' = Unbilled
        BY <2>3, <3>1, FlushingStays DEF Unbilled
      <4> DEFINE c == Cardinality(Flushing)  u == Unbilled
      <4>4. Due = billed + stray + c + u /\ Due' = billed' + stray' + c + u  BY <4>3 DEF Due
      <4>5. c \in Nat /\ u \in Nat /\ amount[t] <= u /\ u <= reported  BY <1>2, <4>2
      <4>6. billed' \in Nat /\ stray' \in Nat  BY DEF TypeOK
      <4> HIDE DEF c, u
      <4>7. Due' <= Due + reported
        <5>1. billed' + stray' + c + u <= billed + stray + c + u + reported
          BY <1>1, <4>1, <4>2, <4>5, <4>6, SumsCompare, Zenon
        <5> QED BY <4>4, <5>1
      <4> QED BY <1>2, <2>2, <2>4, <4>3, <4>7 DEF AccountMoves
    <3> QED BY <2>1, <2>6, <3>2, <3>3 DEF redisVars, Store
  <2> QED BY <2>5, <2>6
<1>15. ASSUME ApplyOp \/ SnapshotExpires \/ UNCHANGED vars  PROVE ClosesTheLast' /\ AccountMoves
  <2>1. UNCHANGED <<live, made, lines, billed, stray, reported, pc, held, amount, faults>>
    BY <1>15 DEF ApplyOp, SnapshotExpires, vars, objectVars, redisVars, taskVars
  <2>2. ClosesTheLast'  BY <1>1, <2>1 DEF ClosesTheLast
  <2>3. AccountMoves  BY <1>1, <1>3, <2>1
  <2> QED BY <2>2, <2>3
<1>16. ASSUME Crash  PROVE ClosesTheLast' /\ AccountMoves
  <2>1. /\ live' = NoObject /\ pc' = [t \in Task |-> "idle"] /\ faults' = faults + 1
        /\ UNCHANGED <<made, lines, billed, stray, reported>>
    BY <1>16 DEF Crash, redisVars
  <2>2. ClosesTheLast'  BY <1>1, <2>1 DEF ClosesTheLast
  <2>3. Flushing' = {}  BY <2>1 DEF Flushing
  <2>4. IsFiniteSet(Flushing') /\ Cardinality(Flushing') = 0  BY <2>3, FS_EmptySet
  <2>5. Unbilled' = 0  BY <2>1 DEF Unbilled
  <2> DEFINE c == Cardinality(Flushing)  u == Unbilled
  <2>6. Due = billed + stray + c + u /\ Due' = billed + stray + 0 + 0  BY <2>1, <2>4, <2>5 DEF Due
  <2>7. c \in Nat /\ u \in Nat  BY <1>2
  <2> HIDE DEF c, u
  <2>8. Due' <= Due /\ faults' >= faults  BY <1>1, <2>1, <2>6, <2>7
  <2> QED BY <2>1, <2>2, <2>4, <2>5, <2>8 DEF AccountMoves
<1> QED
  BY <1>4, <1>5, <1>6, <1>7, <1>8, <1>9, <1>10, <1>11, <1>12,
     <1>13, <1>14, <1>15, <1>16 DEF Next, Progress

LEMMA BillStep ==
  ASSUME IInv, BillInv, OneClient, TypeOK', [Next]_vars
  PROVE  BillInv'
<1>1. ClosesTheLast' /\ AccountMoves  BY BillMoves
<1>2. TypeOK  BY DEF IInv
<1>3. Unbilled' <= reported' /\ \E flushes, rejected \in Nat : Account(flushes, rejected)'
  BY <1>1, <1>2, AccountStep
<1>4. IsFiniteSet(Flushing')  BY <1>1 DEF AccountMoves
<1> QED BY <1>1, <1>3, <1>4 DEF BillInv

\* What is billed of the reported lines, at most: each once, one line once more
\* for every FlushEvery lines of an object, and the lines so far once more for
\* every command that was rejected.
OverbillingIsBounded ==
  \E flushes, rejected \in Nat :
    /\ flushes * FlushEvery <= reported
    /\ rejected <= faults /\ (RedisMayFail \/ rejected = 0)
    /\ billed + stray <= ((1 + rejected) * reported) + flushes

\* Flushes and rejected commands are the only ways in which lines are billed
\* twice (session.js:99-121, 209-228), whatever combination of closes, resumes,
\* crashes and late reports of any number of engines a session goes through.
THEOREM OverbillingBounded == OneClient /\ Spec => []OverbillingIsBounded
<1> SUFFICES ASSUME OneClient PROVE Spec => []OverbillingIsBounded
  OBVIOUS
<1>1. Init => IInv /\ BillInv
  BY InitInv, BillInit
<1>2. IInv /\ BillInv /\ [Next]_vars => IInv' /\ BillInv'
  BY NextInv, BillStep DEF IInv
<1>3. ASSUME IInv, BillInv  PROVE OverbillingIsBounded
  <2>1. /\ TypeOK /\ Unbilled \in Nat /\ Cardinality(Flushing) \in Nat
        /\ billed \in Nat /\ stray \in Nat /\ reported \in Nat
    BY <1>3, DueIsNatural DEF IInv, BillInv, TypeOK
  <2>2. PICK n \in Nat, r \in Nat : Account(n, r)  BY <1>3 DEF BillInv
  <2> DEFINE m == Unbilled % FlushEvery  b == n * FlushEvery  k == (1 + r) * reported
             c == Cardinality(Flushing)  u == Unbilled
  <2>3. m \in Nat /\ b \in Nat /\ k \in Nat /\ c \in Nat /\ u \in Nat
    <3>1. m \in Nat  BY <2>1, FlushAssumption, Remainders
    <3>2. b \in Nat  BY FlushAssumption
    <3>3. k \in Nat  BY <2>1
    <3> QED BY <2>1, <3>1, <3>2, <3>3
  <2>4. r <= faults /\ (RedisMayFail \/ r = 0) /\ b + m <= reported
        /\ billed + stray + c + u <= k + n
    BY <2>2 DEF Account, Within, Due
  <2> HIDE DEF m, b, k, c, u
  <2>5. b <= reported /\ billed + stray <= k + n  BY <2>1, <2>3, <2>4
  <2> QED BY <2>4, <2>5 DEF OverbillingIsBounded, b, k
<1> QED
  BY <1>1, <1>2, <1>3, PTL DEF Spec

\* No session lives to its first flush, and Redis rejects nothing.
ClosesBill == FlushEvery > MaxLines /\ ~ RedisMayFail

\* Then close bills each reported line at most once, across resumes, crashes and
\* reports of any number of engines that come in while it waits for Redis.
THEOREM BilledOnce == OneClient /\ ClosesBill /\ Spec => []LinesBilledOnce
<1> SUFFICES ASSUME OneClient, ClosesBill PROVE Spec => []LinesBilledOnce
  OBVIOUS
<1> DEFINE InBound == reported <= MaxLines
<1>1. Init => InBound
  BY BoundAssumption DEF Init, BoundAssumption
<1>2. TypeOK /\ InBound /\ [Next]_vars => InBound'
  <2> SUFFICES ASSUME TypeOK, reported <= MaxLines, [Next]_vars  PROVE reported' <= MaxLines
    OBVIOUS
  <2>1. reported' = reported \/ (reported' = reported + 1 /\ reported < MaxLines)
    BY DEF Next, Progress, vars, StartClose, StartResume, IncrementLines, StartSave,
           CloseSaved, CloseBilled, Loaded, Build, SaveDone, FlushDone, CommandFails,
           ApplyOp, Crash, SnapshotExpires
  <2> QED BY <2>1, BoundAssumption DEF TypeOK, BoundAssumption
<1>3. ASSUME TypeOK, InBound, OverbillingIsBounded  PROVE LinesBilledOnce
  <2>1. PICK n \in Nat, r \in Nat :
          /\ n * FlushEvery <= reported
          /\ RedisMayFail \/ r = 0
          /\ billed + stray <= ((1 + r) * reported) + n
    BY <1>3 DEF OverbillingIsBounded
  <2>2. r = 0  BY <2>1 DEF ClosesBill
  <2>3. reported \in Nat /\ billed \in Nat /\ stray \in Nat /\ FlushEvery \in Nat
        /\ MaxLines \in Nat
    BY <1>3, FlushAssumption, BoundAssumption DEF TypeOK, BoundAssumption
  <2>4. n = 0
    <3>1. n * FlushEvery < FlushEvery  BY <1>3, <2>1, <2>3 DEF ClosesBill
    <3>2. n >= 1 => n * FlushEvery >= FlushEvery  BY <2>3
    <3> QED BY <2>3, <3>1, <3>2
  <2>5. (1 + r) * reported = reported  BY <2>2, <2>3
  <2> QED BY <2>1, <2>3, <2>4, <2>5 DEF LinesBilledOnce
<1>4. Spec => []OverbillingIsBounded
  BY OverbillingBounded
<1>5. Spec => []TypeOK
  BY TypeCorrect
<1> HIDE DEF InBound
<1> QED
  BY <1>1, <1>2, <1>3, <1>4, <1>5, PTL DEF Spec
=============================================================================
