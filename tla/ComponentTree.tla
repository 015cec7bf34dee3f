---------------------------- MODULE ComponentTree ----------------------------
(***************************************************************************)
(* The component tree of a session                                         *)
(* (packages/state-engine/src/tree.js): MOUNT, UPDATE and UNMOUNT with its *)
(* cascade, the two Maps that hold the tree (nodes and the index of the    *)
(* children), a persisted snapshot, and the rebuild of a tree from it.     *)
(*                                                                         *)
(* An operation that returns an error, or whose values the security        *)
(* pipeline refuses, leaves the tree alone: it is a stuttering step.  The  *)
(* loop of restoreFromSnapshot is one action per node it mounts; nothing   *)
(* else runs while it is going on.  The fields of a node are one value.    *)
(***************************************************************************)
EXTENDS Integers

CONSTANTS
  Id,         \* element identifiers
  Component,  \* component names
  Value,      \* contents of the fields
  NoParent,   \* parent: null
  Permitted,  \* components the session's governance lets through
  MaxSeq      \* bound on the mounts in the life of a tree

ASSUME NoParentAssumption == NoParent \notin Id
ASSUME PermittedAssumption == Permitted \subseteq Component
ASSUME SeqAssumption == MaxSeq \in Nat

VARIABLES
  nodes,      \* the Map _nodes, a function on the mounted ids
  children,   \* the Map _children
  seq,        \* _seq
  rules,      \* components that _governance lets through
  saved,      \* the nodes of the last snapshot, each with its position
  restoring,  \* restoreFromSnapshot is running
  pending     \* the nodes of the snapshot it has not come to

treeVars == <<nodes, children, seq>>
vars == <<treeVars, rules, saved, restoring, pending>>

Mounted == DOMAIN nodes

Node == [component : Component, fields : Value,
         parent : Id \cup {NoParent}, seq : Nat \ {0}]

\* An entry of snapshot.nodes.  The array is sorted by seq; an entry keeps the
\* seq as its position, since only the order of the positions matters.
Entry == [id : Id, component : Component, fields : Value,
          parent : Id \cup {NoParent}, pos : Nat \ {0}]

TypeOK ==
  /\ Mounted \subseteq Id
  /\ nodes \in [Mounted -> Node]
  /\ DOMAIN children \subseteq Id
  /\ children \in [DOMAIN children -> SUBSET Id]
  /\ seq \in Nat
  /\ rules \in {Permitted, Component}
  /\ saved \subseteq Entry
  /\ restoring \in BOOLEAN
  /\ pending \subseteq saved

EmptyMap == [i \in {} |-> i]

Init ==
  /\ nodes = EmptyMap
  /\ children = EmptyMap
  /\ seq = 0
  /\ rules = Permitted
  /\ saved = {}
  /\ restoring = FALSE
  /\ pending = {}

-----------------------------------------------------------------------------

\* A slip: mount does not look for the parent.
MayMount_Orphan(id, component, parent) ==
  /\ id \notin Mounted
  /\ parent \in Id \cup {NoParent}
  /\ component \in rules

\* The checks of mount: a new id, a parent that exists, governance.
MayMount(id, component, parent) ==
  /\ id \notin Mounted
  /\ parent \in Mounted \cup {NoParent}
  /\ component \in rules

\* A slip: the null parent of a root gets an entry in the index.
Insert_IndexesNull(id, component, fields, parent) ==
  /\ seq' = seq + 1
  /\ nodes' = [i \in Mounted \cup {id} |->
                 IF i = id
                 THEN [component |-> component, fields |-> fields,
                       parent |-> parent, seq |-> seq + 1]
                 ELSE nodes[i]]
  /\ children' = [i \in DOMAIN children \cup {id, parent} |->
                    LET kids == IF i \in DOMAIN children THEN children[i] ELSE {}
                    IN IF i = parent THEN kids \cup {id} ELSE kids]

\* What mount does when its checks and the security pipeline let it pass.
Insert(id, component, fields, parent) ==
  /\ seq' = seq + 1
  /\ nodes' = [i \in Mounted \cup {id} |->
                 IF i = id
                 THEN [component |-> component, fields |-> fields,
                       parent |-> parent, seq |-> seq + 1]
                 ELSE nodes[i]]
  /\ children' = [i \in DOMAIN children \cup {id} \cup ({parent} \ {NoParent}) |->
                    LET kids == IF i \in DOMAIN children THEN children[i] ELSE {}
                    IN IF i = parent THEN kids \cup {id} ELSE kids]

\* A slip: the cascade goes down one level only.
Descendants_OneLevel(id) ==
  {id} \cup (IF id \in DOMAIN children THEN children[id] ELSE {})

\* descendants(id): what breadth-first search over the index reaches, that
\* is, the least set with id that is closed under the index.
Closed(S) == \A i \in S \cap DOMAIN children : children[i] \subseteq S

Descendants(id) ==
  {d \in Id : \A S \in SUBSET Id : id \in S /\ Closed(S) => d \in S}

\* snapshot().nodes
Snapshot ==
  {[id |-> i, component |-> nodes[i].component, fields |-> nodes[i].fields,
    parent |-> nodes[i].parent, pos |-> nodes[i].seq] : i \in Mounted}

-----------------------------------------------------------------------------

Mount ==
  /\ ~ restoring
  /\ seq < MaxSeq
  /\ \E id \in Id, component \in Component, fields \in Value,
        parent \in Id \cup {NoParent} :
       /\ MayMount(id, component, parent)
       /\ Insert(id, component, fields, parent)
  /\ UNCHANGED <<rules, saved, restoring, pending>>

\* A slip: an update makes the element the youngest.
Update_Touches ==
  /\ ~ restoring
  /\ seq' = seq + 1
  /\ \E id \in Mounted, value \in Value :
       nodes' = [nodes EXCEPT ![id].fields = value, ![id].seq = seq + 1]
  /\ UNCHANGED <<children, rules, saved, restoring, pending>>

Update ==
  /\ ~ restoring
  /\ \E id \in Mounted, value \in Value :
       nodes' = [nodes EXCEPT ![id].fields = value]
  /\ UNCHANGED <<children, seq, rules, saved, restoring, pending>>

\* A slip: the parent keeps the removed element in its index entry.
Unmount_KeepsEntry ==
  /\ ~ restoring
  /\ \E id \in Mounted :
       LET removed == Descendants(id)
       IN /\ nodes' = [i \in Mounted \ removed |-> nodes[i]]
          /\ children' = [i \in DOMAIN children \ removed |-> children[i]]
  /\ UNCHANGED <<seq, rules, saved, restoring, pending>>

\* A slip: the counter of the mounts goes back.
Unmount_Rewinds ==
  /\ ~ restoring
  /\ \E id \in Mounted :
       LET removed == Descendants(id)
       IN /\ nodes' = [i \in Mounted \ removed |-> nodes[i]]
          /\ children' = [i \in DOMAIN children \ removed |->
                            children[i] \ {r \in removed \cap Mounted : nodes[r].parent = i}]
  /\ seq' = seq - 1
  /\ UNCHANGED <<rules, saved, restoring, pending>>

Unmount ==
  /\ ~ restoring
  /\ \E id \in Mounted :
       LET removed == Descendants(id)
       IN /\ nodes' = [i \in Mounted \ removed |-> nodes[i]]
          /\ children' = [i \in DOMAIN children \ removed |->
                            children[i] \ {r \in removed \cap Mounted : nodes[r].parent = i}]
  /\ UNCHANGED <<seq, rules, saved, restoring, pending>>

SaveSnapshot ==
  /\ ~ restoring
  /\ saved' = Snapshot
  /\ UNCHANGED <<treeVars, rules, restoring, pending>>

\* A tree is cleared and its rebuild begins.  The session manager does this to
\* a tree it creates without governance; the method itself works on any tree.
BeginRestore ==
  /\ ~ restoring
  /\ rules' \in {rules, Component}
  /\ nodes' = EmptyMap
  /\ children' = EmptyMap
  /\ seq' = 0
  /\ restoring' = TRUE
  /\ pending' = saved
  /\ UNCHANGED saved

\* A slip: the entries are not sorted.
RestoreNode_Unsorted ==
  /\ restoring
  /\ \E e \in pending :
       /\ IF MayMount(e.id, e.component, e.parent)
          THEN Insert(e.id, e.component, e.fields, e.parent)
          ELSE UNCHANGED treeVars
       /\ pending' = pending \ {e}
  /\ UNCHANGED <<rules, saved, restoring>>

\* One turn of the loop: the result of mount is not looked at, so an entry
\* that governance refuses is skipped, and so are the entries below it.
RestoreNode ==
  /\ restoring
  /\ \E e \in pending :
       /\ \A f \in pending : e.pos <= f.pos
       /\ IF MayMount(e.id, e.component, e.parent)
          THEN Insert(e.id, e.component, e.fields, e.parent)
          ELSE UNCHANGED treeVars
       /\ pending' = pending \ {e}
  /\ UNCHANGED <<rules, saved, restoring>>

\* The loop is over, or the pipeline threw out of it and left a partial tree.
EndRestore ==
  /\ restoring
  /\ restoring' = FALSE
  /\ pending' = {}
  /\ UNCHANGED <<treeVars, rules, saved>>

Next ==
  \/ Mount \/ Update \/ Unmount
  \/ SaveSnapshot \/ BeginRestore \/ RestoreNode \/ EndRestore

Spec == Init /\ [][Next]_vars

-----------------------------------------------------------------------------
(***************************************************************************)
(* Properties.                                                             *)
(***************************************************************************)

\* "Orphan prevention" (tree.js:16): a mounted element's parent is mounted,
\* and was mounted before it, which is what makes seq order a restore order.
ParentsComeFirst ==
  \A i \in Mounted :
    nodes[i].parent # NoParent =>
      /\ nodes[i].parent \in Mounted
      /\ nodes[nodes[i].parent].seq < nodes[i].seq

\* The index that the cascade walks is exactly the inverse of the parents: no
\* mounted child is missed by an unmount, no stale child is taken along when
\* an id is used again.
IndexIsInverse ==
  /\ DOMAIN children = Mounted
  /\ \A p \in Mounted : children[p] = {i \in Mounted : nodes[i].parent = p}

\* Mounted elements are told apart by their order.
SeqIsAnOrder ==
  \A i, j \in Mounted :
    nodes[i].seq <= seq /\ (nodes[i].seq = nodes[j].seq => i = j)

\* A snapshot can be restored in its order: each entry comes after the entry
\* of its parent, and no id or position is used twice.
SnapshotRestorable ==
  \A e \in saved :
    /\ e.parent # NoParent => \E f \in saved : f.id = e.parent /\ f.pos < e.pos
    /\ \A f \in saved : e.id = f.id \/ e.pos = f.pos => e = f

\* What the entry e says is in the tree.
InTree(e) ==
  /\ e.id \in Mounted
  /\ nodes[e.id].component = e.component
  /\ nodes[e.id].fields = e.fields
  /\ nodes[e.id].parent = e.parent

\* Resume gives back the tree that was saved: at each turn of the loop the
\* tree without governance holds exactly the entries the loop has passed, in
\* their order.  The hash of the rebuilt tree is then that of the snapshot.
RestoreRebuilds ==
  restoring /\ rules = Component =>
    /\ \A e \in saved \ pending : InTree(e)
    /\ \A i \in Mounted : \E e \in saved \ pending : e.id = i
    /\ \A e, f \in saved \ pending :
         e.pos < f.pos => nodes[e.id].seq < nodes[f.id].seq

\* An unmount takes away one element and the subtree below it, nothing else.
UnmountIsACascade ==
  [][LET removed == Mounted \ Mounted'
     IN removed # {} /\ ~ restoring' =>
          /\ \E root \in removed :
               \A i \in removed \ {root} : nodes[i].parent \in removed
          /\ \A i \in Mounted' : nodes[i].parent \notin removed]_vars
=============================================================================
