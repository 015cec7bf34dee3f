---------------------------- MODULE SchemaResolver ----------------------------
(***************************************************************************)
(* Schema resolution (packages/state-engine/src/schema-resolver.js): the   *)
(* registry of component schemas and the version a client gets for the     *)
(* version it asks for.  The registry is filled when the server starts     *)
(* (server.js:74-83) and only read afterwards, so it is a constant.        *)
(***************************************************************************)
EXTENDS Integers, Sequences, FiniteSetsExt

CONSTANT Registered  \* component -> version -> sequence of field definitions

\* What resolve answers when it finds nothing: schema and actualVersion null.
NoSchema == <<>>
NoVersion == -1

Versions(component) ==
  IF component \in DOMAIN Registered THEN DOMAIN Registered[component] ELSE {}

Labels(fields) == {fields[i].label : i \in DOMAIN fields}

\* The version resolve settles on: the requested one, else the highest below.
\* A version 0 found by the search counts as not found (!degradeTarget).
ActualVersion(component, requested) ==
  LET below == {v \in Versions(component) : v <= requested}
  IN IF requested \in below THEN requested
     ELSE IF below \ {0} = {} THEN NoVersion ELSE Max(below)

\* The schema that goes with it.  Versions that are all too new are no help.
Resolve(component, requested) ==
  LET actual == ActualVersion(component, requested)
  IN IF actual = NoVersion THEN NoSchema ELSE Registered[component][actual]

\* negotiateCapabilities: what each component gets for the version claimed of
\* it; a component without a schema is left out.
Negotiate(claim) ==
  [c \in {d \in DOMAIN claim : Resolve(d, claim[d]) # NoSchema} |->
     Resolve(c, claim[c])]

SchemaFor(schemas, component) ==
  IF component \in DOMAIN schemas THEN schemas[component] ELSE NoSchema
===============================================================================
