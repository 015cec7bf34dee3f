------------------------------- MODULE Pipeline -------------------------------
(***************************************************************************)
(* From a generated line to the tree of a session and back out of its log: *)
(* the packages protocol and state-engine put together.                    *)
(*                                                                         *)
(* An engine task takes an operation of a generated stream as a line,      *)
(* parses it, validates it against the index of the session's tree,        *)
(* applies it with applyOp and logs what was applied with logEvent, which  *)
(* is asynchronous; so two engines of one session overlap between a        *)
(* verdict and its use.  (No route does this yet: the engine is outside    *)
(* the repository, and the order of its calls is the one of the packages'  *)
(* documentation.)  A replay rebuilds the tree from the log.               *)
(*                                                                         *)
(* The tree is the list of its nodes in the order of their mounts, which   *)
(* is what snapshot() gives; ComponentTree has the two Maps behind it.     *)
(* The security pipeline lets every value pass here.                       *)
(***************************************************************************)
EXTENDS Protocol

CONSTANTS
  Engine,      \* engine tasks
  Id,          \* element ids
  Component,   \* component names
  Field,       \* labels named by updates
  Content,     \* ordinary lists of values an operation may carry
  Odd,         \* lists with a value that holds special characters
  Claim,       \* the version of each component that the client asked for
  Permitted,   \* components that the session's governance lets through
  MaxEntries,  \* 1000 in memoryObsStore
  MaxLines,    \* bound on the lines; none follows one with an odd value
  MaxNotes     \* bound on the log entries of other levels

IsSeq(s) == s \in Seq(ToSet(s))

ASSUME NameAssumption == \A n \in Id \cup Component : IsSeq(n) /\ IsName(n)
ASSUME ContentAssumption ==
  \A c \in Content \cup Odd : IsSeq(c) /\ \A i \in DOMAIN c : IsSeq(c[i])
ASSUME ClaimAssumption == Claim \in [Component -> Nat]
ASSUME PermittedAssumption == Permitted \subseteq Component
ASSUME BoundAssumption ==
  MaxEntries \in Nat \ {0} /\ MaxLines \in Nat /\ MaxNotes \in Nat

VARIABLES
  tree,    \* the session's tree
  log,     \* the entries of the session in memoryObsStore
  base,    \* the tree that the oldest operation in the log was applied to
  stage,   \* where an engine is with its line
  sent,    \* the operation behind the line
  got,     \* the operation that was parsed from it
  fresh,   \* the tree has not changed since the operation was validated
  lines, notes   \* lines and entries of other levels so far

engineVars == <<stage, sent, got, fresh>>
counters == <<lines, notes>>
vars == <<tree, log, base, engineVars, counters>>

\* The schemas negotiated with the client when the session was created.
Schemas == Negotiate(Claim)

Nothing == [type |-> "none"]
EmptyTree == <<>>
Note == [level |-> "constraint"]
Pash(op) == [level |-> "pash", op |-> op]

-----------------------------------------------------------------------------
(***************************************************************************)
(* The tree as a function of the operations (tree.js).                     *)
(***************************************************************************)

\* toIndex
Index(t) ==
  [id \in {t[i].id : i \in DOMAIN t} |->
     t[CHOOSE i \in DOMAIN t : t[i].id = id].component]

\* id and what is below it, if it is there: the least set with it that holds
\* the children of its members.
Below(t, id) ==
  LET ids == DOMAIN Index(t)
      Closed(S) == \A i \in DOMAIN t :
                     t[i].id = id \/ t[i].parent \in S => t[i].id \in S
  IN {d \in ids : \A S \in SUBSET ids : Closed(S) => d \in S}

\* A slip: mount does not look for the parent.
Accepts_AnyParent(t, op, rules) ==
  CASE op.type = "+" -> op.id \notin DOMAIN Index(t) /\ op.component \in rules
    [] op.type = "~" -> op.id \in DOMAIN Index(t)
    [] OTHER -> TRUE

\* applyOp succeeds, under the governance that lets the rules pass.
Accepts(t, op, rules) ==
  CASE op.type = "+" ->
         /\ op.id \notin DOMAIN Index(t)
         /\ op.parent = NoParent \/ op.parent \in DOMAIN Index(t)
         /\ op.component \in rules
    [] op.type = "~" -> op.id \in DOMAIN Index(t)
    [] OTHER -> TRUE

\* The tree after an operation that is accepted.
Apply(t, op) ==
  CASE op.type = "+" ->
         Append(t, [id |-> op.id, component |-> op.component,
                    fields |-> op.fields, parent |-> op.parent])
    [] op.type = "~" ->
         [i \in DOMAIN t |->
            IF t[i].id = op.id
            THEN [t[i] EXCEPT !.fields = (op.field :> op.value) @@ @]
            ELSE t[i]]
    [] op.type = "-" ->
         LET removed == Below(t, op.id)
         IN Pick(t, {i \in DOMAIN t : t[i].id \notin removed})
    [] OTHER -> t

\* The trees that a list of operations builds from t, refusals skipped.
Run(t, ops, rules) ==
  FoldLeft(LAMBDA u, op : IF Accepts(u, op, rules) THEN Apply(u, op) ELSE u, t, ops)

\* The operations in the log: the entries of level "pash".
Operations(entries) ==
  LET kept == Pick(entries, {i \in DOMAIN entries : entries[i].level = "pash"})
  IN [i \in DOMAIN kept |-> kept[i].op]

\* replay(targetStep), of which replaySession is a copy: a new tree, without
\* governance.
Replay(step) == Run(EmptyTree, SubSeq(Operations(log), 1, step), Component)

-----------------------------------------------------------------------------

TypeOK ==
  /\ \A i \in DOMAIN tree :
       /\ tree[i].id \in Id
       /\ tree[i].component \in Permitted
       /\ \A j \in DOMAIN tree : tree[i].id = tree[j].id => i = j
       /\ tree[i].parent # NoParent =>
            \E j \in 1 .. i - 1 : tree[j].id = tree[i].parent
  /\ Len(log) <= MaxEntries
  /\ stage \in [Engine -> {"idle", "parsed", "valid"}]
  /\ fresh \in [Engine -> BOOLEAN]
  /\ lines \in 0 .. MaxLines /\ notes \in 0 .. MaxNotes

Init ==
  /\ tree = EmptyTree
  /\ log = <<>>
  /\ base = EmptyTree
  /\ stage = [e \in Engine |-> "idle"]
  /\ sent = [e \in Engine |-> Nothing]
  /\ got = [e \in Engine |-> Nothing]
  /\ fresh = [e \in Engine |-> FALSE]
  /\ lines = 0 /\ notes = 0

Operation(content) ==
  [type : {"+"}, id : Id, component : Component, content : {content},
   parent : Id \cup {NoParent}]
  \cup (IF content = <<>> THEN [type : {"-"}, id : Id] ELSE {})
  \cup (IF Len(content) = 1
        THEN [type : {"~"}, id : Id, field : Field, content : {content}]
             \cup [type : {"!"}, content : {content}]
        ELSE {})

\* A line arrives and is parsed.
Receive(e) ==
  /\ stage[e] = "idle"
  /\ lines < MaxLines
  /\ \E content \in Content \cup Odd :
       /\ lines' = IF content \in Odd THEN MaxLines ELSE lines + 1
       /\ \E op \in Operation(content) :
            /\ sent' = [sent EXCEPT ![e] = op]
            /\ got' = [got EXCEPT ![e] = ParseLine(Serialize(op), Schemas)]
  /\ stage' = [stage EXCEPT ![e] = "parsed"]
  /\ UNCHANGED <<tree, log, base, fresh, notes>>

\* The engine forgets its line.
Drop(e) ==
  /\ stage' = [stage EXCEPT ![e] = "idle"]
  /\ sent' = [sent EXCEPT ![e] = Nothing]
  /\ got' = [got EXCEPT ![e] = Nothing]

\* validate against the index of the tree of this moment.
Validate(e) ==
  /\ stage[e] = "parsed"
  /\ IF Valid(got[e], Index(tree), Schemas)
     THEN /\ stage' = [stage EXCEPT ![e] = "valid"]
          /\ fresh' = [fresh EXCEPT ![e] = TRUE]
          /\ UNCHANGED <<sent, got>>
     ELSE Drop(e) /\ UNCHANGED fresh
  /\ UNCHANGED <<tree, log, base, counters>>

\* A slip: the newest entry makes room.
LogEvent_KeepsOldest(entry) ==
  LET all == Append(log, entry)
  IN /\ log' = IF Len(all) > MaxEntries THEN Append(Front(log), entry) ELSE all
     /\ UNCHANGED base

\* logEvent: a ring buffer.  An operation that falls out of it moves base.
LogEvent(entry) ==
  LET all == Append(log, entry)
  IN IF Len(all) > MaxEntries
     THEN /\ log' = Tail(all)
          /\ base' = Run(base, Operations(<<Head(all)>>), Permitted)
     ELSE log' = all /\ UNCHANGED base

\* applyOp, and the log of what it accepted.  The tree checks the operation
\* again, since other engines may have changed it.
ApplyAndLog(e) ==
  /\ stage[e] = "valid"
  /\ IF Accepts(tree, got[e], Permitted)
     THEN /\ tree' = Apply(tree, got[e])
          /\ fresh' = [f \in Engine |-> fresh[f] /\ f # e /\ tree' = tree]
          /\ LogEvent(Pash(got[e]))
     ELSE /\ fresh' = [fresh EXCEPT ![e] = FALSE]
          /\ UNCHANGED <<tree, log, base>>
  /\ Drop(e)
  /\ UNCHANGED counters

\* An entry of another level is logged.
LogNote ==
  /\ notes < MaxNotes /\ notes' = notes + 1
  /\ LogEvent(Note)
  /\ UNCHANGED <<tree, engineVars, lines>>

Next ==
  \/ \E e \in Engine : Receive(e) \/ Validate(e) \/ ApplyAndLog(e)
  \/ LogNote

Spec == Init /\ [][Next]_vars

-----------------------------------------------------------------------------
(***************************************************************************)
(* Properties.                                                             *)
(***************************************************************************)

\* What the sender of an operation means by it.
Meant(op) ==
  CASE op.type = "+" ->
         [type |-> "+", id |-> op.id, component |-> op.component,
          fields |-> ResolveFields(op.content, SchemaFor(Schemas, op.component)),
          parent |-> op.parent]
    [] op.type = "~" ->
         [type |-> "~", id |-> op.id, field |-> op.field, value |-> op.content[1]]
    [] op.type = "-" -> op
    [] op.type = "!" -> [type |-> "!", value |-> op.content[1], more |-> FALSE]

EndsWith(v, ch) == v # <<>> /\ Last(v) = ch

\* The values that survive the way over the wire.  In a MOUNT: no escaped @
\* inside, nothing that reads like a parameter, no backslash before the next
\* pipe, no blank at the end of the line.  Elsewhere escapes are not undone.
Clean(op) ==
  CASE op.type = "+" ->
         \A i \in DOMAIN op.content :
           LET v == op.content[i]
               last == i = Len(op.content) /\ op.parent = NoParent
           IN /\ \A k \in 1 .. Len(v) - 1 : ~ (v[k] = "\\" /\ v[k + 1] = "@")
              /\ ~ Named(v)
              /\ ~ EndsWith(v, IF last THEN " " ELSE "\\")
    [] op.type \in {"~", "!"} ->
         LET v == op.content[1]
         IN ~ Contains(v, "|") /\ ~ EndsWith(v, " ") /\ (v # <<>> => v[1] # "@")
    [] OTHER -> TRUE

\* Every value of a MOUNT has a label of its own.  What has none is dropped by
\* the parser, whatever it has become on the way.
Labelled(op) ==
  op.type = "+" =>
    LET schema == SchemaFor(Schemas, op.component)
        labels == IF schema = NoSchema THEN Positional
                  ELSE [i \in DOMAIN schema |-> schema[i].label]
    IN /\ DOMAIN op.content \subseteq DOMAIN labels
       /\ \A i \in DOMAIN op.content, j \in DOMAIN labels :
            labels[i] = labels[j] => i = j

\* Serializer and parser fit together: an operation with clean values arrives
\* as it was meant, and one whose values have their labels arrives so only if
\* they are clean.  The two were written apart, and each undoes less, or more,
\* than the other did.
RoundTripIfClean ==
  \A e \in Engine :
    stage[e] # "idle" =>
      /\ Clean(sent[e]) => got[e] = Meant(sent[e])
      /\ Labelled(sent[e]) /\ got[e] = Meant(sent[e]) => Clean(sent[e])

\* Validator and tree agree: while nothing else is applied, the tree accepts
\* what the validator let pass, governance aside (validator.js:118-126
\* against tree.js:77-82).
VerdictsHold ==
  \A e \in Engine :
    stage[e] = "valid" /\ fresh[e] => Accepts(tree, got[e], Component)

\* The replay of a step shows the tree of that step exactly as long as the
\* log is complete.  When the ring has dropped operations it shows less of
\* that tree, and never an element or a value that was not there.
ReplayShowsThePast ==
  LET ops == Operations(log)
  IN /\ Run(base, ops, Permitted) = tree
     /\ \A step \in 0 .. Len(ops) :
          LET past == Run(base, SubSeq(ops, 1, step), Permitted)
          IN /\ ToSet(Replay(step)) \subseteq ToSet(past)
             /\ base = EmptyTree => Replay(step) = past
===============================================================================
