------------------------- MODULE ComponentTreeProofs -------------------------
(***************************************************************************)
(* Proofs about ComponentTree, for every set of ids, components and        *)
(* values, finite or not.                                                  *)
(***************************************************************************)
EXTENDS ComponentTree, TLAPS

\* What holds of the tree by itself.
TreeTyped ==
  /\ Mounted \subseteq Id
  /\ nodes \in [Mounted -> Node]
  /\ children \in [DOMAIN children -> SUBSET Id]
  /\ seq \in Nat

TreeInv == TreeTyped /\ ParentsComeFirst /\ IndexIsInverse /\ SeqIsAnOrder

\* The entries still to come all lie after the ones the loop has passed.
PendingIsTheRest ==
  /\ ~ restoring => pending = {}
  /\ \A e \in saved \ pending, f \in pending : e.pos < f.pos

IInv ==
  /\ TypeOK
  /\ TreeInv
  /\ SnapshotRestorable
  /\ PendingIsTheRest
  /\ RestoreRebuilds

USE NoParentAssumption, PermittedAssumption, SeqAssumption
    DEF NoParentAssumption, PermittedAssumption, SeqAssumption

-----------------------------------------------------------------------------
(***************************************************************************)
(* mount and the cascade.                                                  *)
(***************************************************************************)

LEMMA InsertKeepsTree ==
  ASSUME TreeInv, NEW id \in Id, NEW component \in Component, NEW fields \in Value,
         NEW parent \in Id \cup {NoParent},
         MayMount(id, component, parent), Insert(id, component, fields, parent)
  PROVE  /\ TreeInv'
         /\ Mounted' = Mounted \cup {id}
         /\ \A i \in Mounted : nodes'[i] = nodes[i] /\ nodes'[i].seq < nodes'[id].seq
         /\ nodes'[id] = [component |-> component, fields |-> fields,
                          parent |-> parent, seq |-> seq + 1]
<1> DEFINE new == [component |-> component, fields |-> fields,
                   parent |-> parent, seq |-> seq + 1]
<1>1. /\ id \notin Mounted
      /\ parent \in Mounted \cup {NoParent}
  BY DEF MayMount
<1>2. /\ Mounted' = Mounted \cup {id}
      /\ \A i \in Mounted : nodes'[i] = nodes[i]
      /\ nodes'[id] = new
      /\ seq' = seq + 1
  BY <1>1 DEF Insert, Mounted
<1>3. TreeTyped'
  <2>1. new \in Node
    BY DEF TreeInv, TreeTyped, Node
  <2>2. nodes' \in [Mounted' -> Node]
    BY <1>2, <2>1 DEF TreeInv, TreeTyped, Insert, Mounted
  <2>3. children' \in [DOMAIN children' -> SUBSET Id]
    BY DEF TreeInv, TreeTyped, Insert
  <2>4. QED BY <1>2, <2>2, <2>3 DEF TreeInv, TreeTyped
<1>4. \A i \in Mounted : nodes[i] \in Node /\ nodes[i].seq \in Nat /\ nodes[i].seq <= seq
  BY DEF TreeInv, TreeTyped, SeqIsAnOrder, Node
<1>5. SeqIsAnOrder'
  BY <1>2, <1>4 DEF TreeInv, TreeTyped, SeqIsAnOrder
<1>6. ParentsComeFirst'
  BY <1>1, <1>2, <1>4 DEF TreeInv, TreeTyped, ParentsComeFirst
<1>7. IndexIsInverse'
  <2>1. DOMAIN children' = Mounted'
    BY <1>1, <1>2 DEF TreeInv, IndexIsInverse, Insert
  <2>2. ASSUME NEW p \in Mounted'
        PROVE  children'[p] = {i \in Mounted' : nodes'[i].parent = p}
    <3>1. \A i \in Mounted : nodes[i].parent # id
      BY <1>1 DEF TreeInv, ParentsComeFirst
    <3>2. CASE p = id
      <4>1. children'[p] = {}
        BY <1>1, <2>1, <2>2, <3>2 DEF TreeInv, IndexIsInverse, Insert
      <4>2. QED BY <1>1, <1>2, <3>1, <3>2, <4>1
    <3>3. CASE p # id
      <4>1. p \in Mounted
        BY <1>2, <3>3
      <4>2. children'[p] = IF p = parent THEN children[p] \cup {id} ELSE children[p]
        BY <4>1 DEF TreeInv, IndexIsInverse, Insert
      <4>3. children[p] = {i \in Mounted : nodes[i].parent = p}
        BY <4>1 DEF TreeInv, IndexIsInverse
      <4>4. QED BY <1>1, <1>2, <3>3, <4>2, <4>3
    <3>4. QED BY <3>2, <3>3
  <2>3. QED BY <2>1, <2>2 DEF IndexIsInverse
<1>8. \A i \in Mounted : nodes'[i].seq < nodes'[id].seq
  BY <1>2, <1>4 DEF TreeInv, TreeTyped
<1>9. QED
  BY <1>2, <1>3, <1>5, <1>6, <1>7, <1>8 DEF TreeInv

\* What the breadth-first search collects: mounted elements, the root and its
\* whole subtree, and only elements whose parent is collected too.
LEMMA DescendantsAreTheSubtree ==
  ASSUME TreeInv, NEW id \in Mounted
  PROVE  /\ id \in Descendants(id)
         /\ Descendants(id) \subseteq Mounted
         /\ \A i \in Mounted : nodes[i].parent \in Descendants(id) => i \in Descendants(id)
         /\ \A i \in Descendants(id) \ {id} : nodes[i].parent \in Descendants(id)
<1> DEFINE D == Descendants(id)
<1>1. id \in D
  BY DEF Descendants, TreeInv, TreeTyped
<1>2. D \subseteq Mounted
  <2>1. Closed(Mounted)
    BY DEF Closed, TreeInv, IndexIsInverse
  <2>2. Mounted \in SUBSET Id
    BY DEF TreeInv, TreeTyped
  <2>3. QED BY <2>1, <2>2 DEF Descendants
<1>3. Closed(D)
  BY DEF Closed, Descendants, TreeInv, TreeTyped, IndexIsInverse
<1>4. ASSUME NEW i \in Mounted, nodes[i].parent \in D
      PROVE  i \in D
  <2>1. i \in children[nodes[i].parent] /\ nodes[i].parent \in DOMAIN children
    BY <1>2, <1>4 DEF TreeInv, IndexIsInverse
  <2>2. QED BY <1>3, <1>4, <2>1 DEF Closed
<1>5. ASSUME NEW i \in D \ {id}, nodes[i].parent \notin D
      PROVE  FALSE
  <2>1. ASSUME NEW x \in (D \ {i}) \cap DOMAIN children
        PROVE  children[x] \subseteq D \ {i}
    <3>1. children[x] \subseteq D
      BY <1>3, <2>1 DEF Closed
    <3>2. i \notin children[x]
      BY <1>5, <2>1 DEF TreeInv, IndexIsInverse
    <3>3. QED BY <3>1, <3>2
  <2>2. Closed(D \ {i})
    BY <2>1 DEF Closed
  <2>3. D \ {i} \in SUBSET Id
    BY DEF Descendants
  <2>4. i \notin D
    BY <1>1, <1>5, <2>2, <2>3 DEF Descendants
  <2>5. QED BY <1>5, <2>4
<1>6. QED BY <1>1, <1>2, <1>4, <1>5

-----------------------------------------------------------------------------
(***************************************************************************)
(* Each action keeps the tree well formed.                                 *)
(***************************************************************************)

LEMMA UnmountKeepsTree ==
  ASSUME TreeInv, Unmount
  PROVE  /\ TreeInv'
         /\ \E root \in Mounted :
              /\ Mounted' = Mounted \ Descendants(root)
              /\ \A i \in Mounted' : nodes'[i] = nodes[i]
<1>1. PICK root \in Mounted :
        /\ nodes' = [i \in Mounted \ Descendants(root) |-> nodes[i]]
        /\ children' = [i \in DOMAIN children \ Descendants(root) |->
             children[i] \ {r \in Descendants(root) \cap Mounted : nodes[r].parent = i}]
  BY DEF Unmount
<1> DEFINE D == Descendants(root)
<1>2. /\ D \subseteq Mounted
      /\ \A i \in Mounted : nodes[i].parent \in D => i \in D
  BY DescendantsAreTheSubtree
<1>3. /\ Mounted' = Mounted \ D
      /\ \A i \in Mounted' : nodes'[i] = nodes[i]
      /\ UNCHANGED seq
  BY <1>1 DEF Mounted, Unmount
<1>4. TreeTyped'
  <2>1. children' \in [DOMAIN children' -> SUBSET Id]
    BY <1>1 DEF TreeInv, TreeTyped
  <2>2. nodes' \in [Mounted' -> Node]
    BY <1>1, <1>3 DEF TreeInv, TreeTyped, Mounted
  <2>3. QED BY <1>3, <2>1, <2>2 DEF TreeInv, TreeTyped
<1>5. ParentsComeFirst' /\ SeqIsAnOrder'
  BY <1>2, <1>3 DEF TreeInv, ParentsComeFirst, SeqIsAnOrder
<1>6. IndexIsInverse'
  <2>1. DOMAIN children' = Mounted'
    BY <1>1, <1>3 DEF TreeInv, IndexIsInverse
  <2>2. ASSUME NEW p \in Mounted'
        PROVE  children'[p] = {i \in Mounted' : nodes'[i].parent = p}
    <3>1. children[p] = {i \in Mounted : nodes[i].parent = p}
      BY <1>3 DEF TreeInv, IndexIsInverse
    <3>2. children'[p] = children[p] \ {r \in D \cap Mounted : nodes[r].parent = p}
      BY <1>1, <1>3 DEF TreeInv, IndexIsInverse
    <3>3. QED BY <1>3, <3>1, <3>2
  <2>3. QED BY <2>1, <2>2 DEF IndexIsInverse
<1>7. QED BY <1>3, <1>4, <1>5, <1>6 DEF TreeInv

LEMMA UpdateKeepsTree ==
  ASSUME TreeInv, NEW id \in Mounted, NEW value \in Value,
         nodes' = [nodes EXCEPT ![id].fields = value], UNCHANGED <<children, seq>>
  PROVE  TreeInv'
<1>1. /\ Mounted' = Mounted
      /\ \A i \in Mounted : /\ nodes'[i].parent = nodes[i].parent
                            /\ nodes'[i].seq = nodes[i].seq
  BY DEF TreeInv, TreeTyped, Node, Mounted
<1>2. TreeTyped'
  BY DEF TreeInv, TreeTyped, Node, Mounted
<1>3. ParentsComeFirst' /\ SeqIsAnOrder'
  BY <1>1 DEF TreeInv, ParentsComeFirst, SeqIsAnOrder
<1>4. IndexIsInverse'
  BY <1>1 DEF TreeInv, IndexIsInverse
<1>5. QED BY <1>2, <1>3, <1>4 DEF TreeInv

\* The snapshot of a well-formed tree can be restored in its order.
LEMMA SnapshotIsRestorable ==
  ASSUME TreeInv, SaveSnapshot
  PROVE  saved' \subseteq Entry /\ SnapshotRestorable'
<1>1. \A e \in saved' : /\ e \in Entry
                        /\ e.id \in Mounted
                        /\ e.component = nodes[e.id].component
                        /\ e.fields = nodes[e.id].fields
                        /\ e.parent = nodes[e.id].parent
                        /\ e.pos = nodes[e.id].seq
  BY DEF SaveSnapshot, Snapshot, TreeInv, TreeTyped, Node, Entry
<1>2. ASSUME NEW i \in Mounted PROVE \E e \in saved' : e.id = i
  <2> DEFINE entry == [id |-> i, component |-> nodes[i].component,
                       fields |-> nodes[i].fields, parent |-> nodes[i].parent,
                       pos |-> nodes[i].seq]
  <2>1. entry \in saved'
    BY DEF SaveSnapshot, Snapshot
  <2>2. entry.id = i
    OBVIOUS
  <2>3. QED BY <2>1, <2>2
<1>3. ASSUME NEW e \in saved', NEW f \in saved', e.id = f.id \/ e.pos = f.pos
      PROVE  e = f
  <2>1. e.id = f.id
    BY <1>1, <1>3 DEF TreeInv, SeqIsAnOrder
  <2>2. QED BY <1>1, <1>3, <2>1 DEF Entry
<1>4. ASSUME NEW e \in saved', e.parent # NoParent
      PROVE  \E f \in saved' : f.id = e.parent /\ f.pos < e.pos
  <2>1. /\ e.parent \in Mounted
        /\ nodes[e.parent].seq < nodes[e.id].seq
    BY <1>1, <1>4 DEF TreeInv, ParentsComeFirst
  <2>2. PICK f \in saved' : f.id = e.parent
    BY <1>2, <2>1
  <2>3. QED BY <1>1, <2>1, <2>2
<1>5. QED BY <1>1, <1>3, <1>4 DEF SnapshotRestorable

-----------------------------------------------------------------------------
(***************************************************************************)
(* The inductive invariant.                                                *)
(***************************************************************************)

LEMMA InitInv == Init => IInv
<1> SUFFICES ASSUME Init PROVE IInv
  OBVIOUS
<1>1. /\ Mounted = {} /\ DOMAIN children = {} /\ seq = 0
      /\ nodes \in [{} -> Node] /\ children \in [{} -> SUBSET Id]
  BY DEF Init, Mounted, EmptyMap
<1>2. TreeInv
  BY <1>1 DEF TreeInv, TreeTyped, ParentsComeFirst, IndexIsInverse, SeqIsAnOrder
<1>3. TypeOK /\ SnapshotRestorable /\ PendingIsTheRest /\ RestoreRebuilds
  BY <1>1, <1>2 DEF Init, TypeOK, TreeInv, TreeTyped, SnapshotRestorable,
                    PendingIsTheRest, RestoreRebuilds
<1>4. QED BY <1>2, <1>3 DEF IInv

\* While no restore runs, the invariant speaks of the tree and the snapshot.
LEMMA QuietInv ==
  ASSUME TreeInv', rules' \in {Permitted, Component}, saved' \subseteq Entry,
         SnapshotRestorable', ~ restoring', restoring' \in BOOLEAN, pending' = {}
  PROVE  IInv'
<1>1. TypeOK'
  BY DEF TypeOK, TreeInv, TreeTyped, IndexIsInverse
<1>2. QED BY <1>1 DEF IInv, PendingIsTheRest, RestoreRebuilds

LEMMA RestoreNodeInv == IInv /\ RestoreNode => IInv'
<1> SUFFICES ASSUME IInv, RestoreNode PROVE IInv'
  OBVIOUS
<1> USE DEF IInv
<1>1. PICK e \in pending :
        /\ \A f \in pending : e.pos <= f.pos
        /\ IF MayMount(e.id, e.component, e.parent)
           THEN Insert(e.id, e.component, e.fields, e.parent)
           ELSE UNCHANGED treeVars
        /\ pending' = pending \ {e}
  BY DEF RestoreNode
<1>2. /\ restoring /\ restoring'
      /\ UNCHANGED <<rules, saved>>
      /\ pending' \subseteq saved'
      /\ saved \ pending' = (saved \ pending) \cup {e}
  BY <1>1 DEF RestoreNode, TypeOK
<1>3. \A f \in saved : f \in Entry /\ f.pos \in Nat
  BY DEF TypeOK, Entry
<1>4. e \in saved /\ e \in Entry
  BY <1>1 DEF TypeOK
<1>5. SnapshotRestorable'
  BY <1>2 DEF SnapshotRestorable
<1>6. PendingIsTheRest'
  <2>1. ASSUME NEW f \in pending' PROVE e.pos < f.pos
    <3>1. e.pos <= f.pos /\ e.pos # f.pos /\ f \in saved
      BY <1>1, <1>4, <2>1 DEF SnapshotRestorable, TypeOK
    <3>2. QED BY <1>3, <1>4, <3>1
  <2>2. QED BY <1>1, <1>2, <2>1 DEF PendingIsTheRest
<1>7. CASE MayMount(e.id, e.component, e.parent)
  <2>1. /\ TreeInv'
        /\ Mounted' = Mounted \cup {e.id}
        /\ \A i \in Mounted : nodes'[i] = nodes[i] /\ nodes'[i].seq < nodes'[e.id].seq
        /\ nodes'[e.id] = [component |-> e.component, fields |-> e.fields,
                           parent |-> e.parent, seq |-> seq + 1]
    BY <1>1, <1>4, <1>7, InsertKeepsTree DEF Entry
  <2>2. TypeOK'
    BY <1>1, <1>2, <2>1 DEF TypeOK, TreeInv, TreeTyped, IndexIsInverse
  <2>3. ASSUME rules = Component PROVE RestoreRebuilds'
    <3>1. /\ \A f \in saved \ pending : InTree(f)
          /\ \A i \in Mounted : \E f \in saved \ pending : f.id = i
          /\ \A f, g \in saved \ pending :
               f.pos < g.pos => nodes[f.id].seq < nodes[g.id].seq
      BY <1>2, <2>3 DEF RestoreRebuilds
    <3>2. \A f \in saved \ pending' : InTree(f)'
      BY <1>2, <2>1, <3>1 DEF InTree
    <3>3. \A i \in Mounted' : \E f \in saved \ pending' : f.id = i
      BY <1>2, <2>1, <3>1
    <3>4. ASSUME NEW f \in saved \ pending', NEW g \in saved \ pending', f.pos < g.pos
          PROVE  nodes'[f.id].seq < nodes'[g.id].seq
      <4>1. f \in saved \ pending
        BY <1>1, <1>2, <1>3, <1>4, <3>4 DEF PendingIsTheRest
      <4>2. f.id \in Mounted /\ nodes'[f.id] = nodes[f.id]
        BY <2>1, <3>1, <4>1 DEF InTree
      <4>3. CASE g = e
        BY <2>1, <4>2, <4>3
      <4>4. CASE g # e
        <5>1. g \in saved \ pending
          BY <1>2, <3>4, <4>4
        <5>2. g.id \in Mounted /\ nodes'[g.id] = nodes[g.id]
          BY <2>1, <3>1, <5>1 DEF InTree
        <5>3. QED BY <3>1, <3>4, <4>1, <4>2, <5>1, <5>2
      <4>5. QED BY <4>3, <4>4
    <3>5. QED BY <1>2, <3>2, <3>3, <3>4 DEF RestoreRebuilds
  <2>4. RestoreRebuilds'
    BY <1>2, <2>3 DEF RestoreRebuilds
  <2>5. QED BY <1>5, <1>6, <2>1, <2>2, <2>4
<1>8. CASE ~ MayMount(e.id, e.component, e.parent)
  <2>1. UNCHANGED <<nodes, children, seq>>
    BY <1>1, <1>8 DEF treeVars
  <2>2. TreeInv'
    BY <2>1 DEF TreeInv, TreeTyped, Mounted, ParentsComeFirst, IndexIsInverse, SeqIsAnOrder
  <2>3. TypeOK'
    BY <1>1, <1>2, <2>1 DEF TypeOK, Mounted
  <2>4. rules # Component
    <3>1. SUFFICES ASSUME rules = Component PROVE FALSE
      OBVIOUS
    <3>2. /\ \A f \in saved \ pending : InTree(f)
          /\ \A i \in Mounted : \E f \in saved \ pending : f.id = i
      BY <1>2, <3>1 DEF RestoreRebuilds
    <3>3. e.id \notin Mounted
      BY <1>1, <1>4, <3>2 DEF SnapshotRestorable
    <3>4. e.component \in rules
      BY <1>4, <3>1 DEF Entry
    <3>5. e.parent \in Mounted \cup {NoParent}
      <4>1. CASE e.parent # NoParent
        <5>1. PICK f \in saved : f.id = e.parent /\ f.pos < e.pos
          BY <1>4, <4>1 DEF SnapshotRestorable
        <5>2. f \in saved \ pending
          BY <1>1, <1>3, <1>4, <5>1
        <5>3. QED BY <3>2, <5>1, <5>2 DEF InTree
      <4>2. QED BY <4>1
    <3>6. QED BY <1>8, <3>3, <3>4, <3>5 DEF MayMount
  <2>5. RestoreRebuilds'
    BY <1>2, <2>4 DEF RestoreRebuilds
  <2>6. QED BY <1>5, <1>6, <2>2, <2>3, <2>5
<1>9. QED BY <1>7, <1>8

LEMMA StepInv == IInv /\ [Next]_vars => IInv'
<1> SUFFICES ASSUME IInv, [Next]_vars PROVE IInv'
  OBVIOUS
<1>0. /\ TreeInv /\ SnapshotRestorable
      /\ rules \in {Permitted, Component} /\ saved \subseteq Entry
      /\ restoring \in BOOLEAN
      /\ ~ restoring => pending = {}
  BY DEF IInv, TypeOK, PendingIsTheRest
<1>1. CASE Mount
  <2>1. PICK id \in Id, component \in Component, fields \in Value,
             parent \in Id \cup {NoParent} :
          MayMount(id, component, parent) /\ Insert(id, component, fields, parent)
    BY <1>1 DEF Mount
  <2>2. TreeInv'
    BY <1>0, <2>1, InsertKeepsTree
  <2>3. QED BY <1>0, <1>1, <2>2, QuietInv DEF Mount, SnapshotRestorable
<1>2. CASE Update
  <2>1. TreeInv'
    BY <1>0, <1>2, UpdateKeepsTree DEF Update
  <2>2. QED BY <1>0, <1>2, <2>1, QuietInv DEF Update, SnapshotRestorable
<1>3. CASE Unmount
  <2>1. TreeInv'
    BY <1>0, <1>3, UnmountKeepsTree
  <2>2. QED BY <1>0, <1>3, <2>1, QuietInv DEF Unmount, SnapshotRestorable
<1>4. CASE SaveSnapshot
  <2>1. saved' \subseteq Entry /\ SnapshotRestorable'
    BY <1>0, <1>4, SnapshotIsRestorable
  <2>2. TreeInv'
    BY <1>0, <1>4 DEF SaveSnapshot, treeVars, TreeInv, TreeTyped, Mounted,
         ParentsComeFirst, IndexIsInverse, SeqIsAnOrder
  <2>3. QED BY <1>0, <1>4, <2>1, <2>2, QuietInv DEF SaveSnapshot
<1>5. CASE BeginRestore
  <2>1. /\ Mounted' = {} /\ DOMAIN children' = {} /\ seq' = 0
        /\ nodes' \in [{} -> Node] /\ children' \in [{} -> SUBSET Id]
    BY <1>5 DEF BeginRestore, Mounted, EmptyMap
  <2>2. TreeInv'
    BY <2>1 DEF TreeInv, TreeTyped, ParentsComeFirst, IndexIsInverse, SeqIsAnOrder
  <2>3. TypeOK' /\ SnapshotRestorable' /\ PendingIsTheRest' /\ RestoreRebuilds'
    BY <1>0, <1>5, <2>1 DEF BeginRestore, TypeOK, SnapshotRestorable,
         PendingIsTheRest, RestoreRebuilds
  <2>4. QED BY <2>2, <2>3 DEF IInv
<1>6. CASE RestoreNode
  BY <1>6, RestoreNodeInv
<1>7. CASE EndRestore
  <2>1. TreeInv'
    BY <1>0, <1>7 DEF EndRestore, treeVars, TreeInv, TreeTyped, Mounted,
         ParentsComeFirst, IndexIsInverse, SeqIsAnOrder
  <2>2. QED BY <1>0, <1>7, <2>1, QuietInv DEF EndRestore, SnapshotRestorable
<1>8. CASE UNCHANGED vars
  BY <1>8 DEF vars, treeVars, IInv, TypeOK, TreeInv, TreeTyped, Mounted,
       ParentsComeFirst, IndexIsInverse, SeqIsAnOrder, SnapshotRestorable,
       PendingIsTheRest, RestoreRebuilds, InTree
<1>9. QED
  BY <1>1, <1>2, <1>3, <1>4, <1>5, <1>6, <1>7, <1>8 DEF Next

-----------------------------------------------------------------------------

LEMMA Invariance == Spec => []IInv
  BY InitInv, StepInv, PTL DEF Spec

\* Every variable keeps its type in every execution.
THEOREM TypeCorrect == Spec => []TypeOK
  BY Invariance, PTL DEF IInv

\* No operation and no restore leaves an orphan behind: a mounted element's
\* parent is mounted and older (mount, unmount, restoreFromSnapshot).
THEOREM NoOrphans == Spec => []ParentsComeFirst
  BY Invariance, PTL DEF IInv, TreeInv

\* The children index is the inverse of the parents in every execution.
THEOREM IndexStaysInverse == Spec => []IndexIsInverse
  BY Invariance, PTL DEF IInv, TreeInv

\* No two mounted elements share a place in the order, however often ids are
\* mounted, removed and mounted again.
THEOREM OrderIsTotal == Spec => []SeqIsAnOrder
  BY Invariance, PTL DEF IInv, TreeInv

\* Whatever was saved can be mounted again entry by entry: snapshot() lists
\* parents before children, each element once.
THEOREM SnapshotsCanBeRestored == Spec => []SnapshotRestorable
  BY Invariance, PTL DEF IInv

\* A resumed session gets the saved tree back, element by element and in the
\* saved order, however the tree came about.
THEOREM RestoreIsFaithful == Spec => []RestoreRebuilds
  BY Invariance, PTL DEF IInv

\* A step that takes elements away takes one of them and its subtree.
THEOREM UnmountCascades == Spec => UnmountIsACascade
<1> DEFINE Cascade ==
      LET removed == Mounted \ Mounted'
      IN removed # {} /\ ~ restoring' =>
           /\ \E root \in removed :
                \A i \in removed \ {root} : nodes[i].parent \in removed
           /\ \A i \in Mounted' : nodes[i].parent \notin removed
<1>1. IInv /\ [Next]_vars => Cascade
  <2> SUFFICES ASSUME IInv, [Next]_vars, ~ restoring', Mounted \ Mounted' # {}
               PROVE  /\ \E root \in Mounted \ Mounted' :
                           \A i \in (Mounted \ Mounted') \ {root} :
                             nodes[i].parent \in Mounted \ Mounted'
                      /\ \A i \in Mounted' : nodes[i].parent \notin Mounted \ Mounted'
    OBVIOUS
  <2>1. TreeInv
    BY DEF IInv
  <2>2. Unmount
    <3>1. ASSUME Mount PROVE Mounted \subseteq Mounted'
      BY <3>1 DEF Mount, Insert, Mounted
    <3>2. ASSUME Update PROVE Mounted' = Mounted
      BY <3>2 DEF Update, Mounted
    <3>3. ASSUME UNCHANGED nodes PROVE Mounted' = Mounted
      BY <3>3 DEF Mounted
    <3>4. QED
      BY <3>1, <3>2, <3>3 DEF Next, SaveSnapshot, BeginRestore, RestoreNode, EndRestore,
           treeVars, vars
  <2>3. PICK root \in Mounted : Mounted' = Mounted \ Descendants(root)
    BY <2>1, <2>2, UnmountKeepsTree
  <2>4. Mounted \ Mounted' = Descendants(root)
    BY <2>1, <2>3, DescendantsAreTheSubtree
  <2>5. QED BY <2>1, <2>3, <2>4, DescendantsAreTheSubtree
<1>2. QED
  BY <1>1, Invariance, PTL DEF Spec, UnmountIsACascade
=============================================================================
