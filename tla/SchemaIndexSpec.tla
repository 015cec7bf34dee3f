--------------------------- MODULE SchemaIndexSpec ---------------------------
(***************************************************************************)
(* What the schema registry (packages/registry/src/schema-store.js)        *)
(* promises of one component: the index of its latest version names the    *)
(* largest version that is registered.  The promise is made as long as     *)
(* nothing disturbs it: calls that overlap, commands that fail, keys that  *)
(* expire or are not seen.                                                 *)
(***************************************************************************)
EXTENDS Integers

CONSTANT Version

VARIABLES
  registered,  \* versions a client was told are registered
  latest,      \* the version getLatest answers, or 0
  calm         \* nothing has disturbed the registry so far

vars == <<registered, latest, calm>>

\* The latest of no version is 0.
IsLatest(n, versions) ==
  IF versions = {} THEN n = 0
                   ELSE n \in versions /\ \A m \in versions : m <= n

Init ==
  /\ registered = {}
  /\ latest = 0
  /\ calm = TRUE

Register(v) ==
  /\ registered' = registered \union {v}
  /\ IsLatest(latest', registered')
  /\ UNCHANGED calm

Delete(v) ==
  /\ registered' = registered \ {v}
  /\ IsLatest(latest', registered')
  /\ UNCHANGED calm

Disturb == calm' = FALSE

Next == Disturb \/ (calm /\ \E v \in Version : Register(v) \/ Delete(v))

Spec == Init /\ [][Next]_vars
=============================================================================
