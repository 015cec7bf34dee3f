------------------------------- MODULE Protocol -------------------------------
(***************************************************************************)
(* The PASH v2 line protocol (packages/protocol/src): how the serializer   *)
(* writes an operation, how tokenizer and parser read it back, and what    *)
(* the validator says of it.                                               *)
(*                                                                         *)
(* A text is a sequence of characters.  Those that the protocol treats     *)
(* specially are themselves; any other value stands for an ordinary        *)
(* character or word.  A line is a record of the groups of the regular     *)
(* expression that matched it (grammar.js:60-68); ids, component names     *)
(* and labels are ordinary texts, so a line the serializer wrote always    *)
(* matches.  No text holds a line break: the serializer would not escape   *)
(* it.  schemas holds what the caller's schemaResolver answers: a schema   *)
(* for each component that was negotiated.  A line of type "!" stands for  *)
(* the directives of type "@" too, which are written and read              *)
(* in the same way; neither touches the tree.                              *)
(***************************************************************************)
EXTENDS SchemaResolver, SequencesExt

Special == {"|", "\\", "@", "=", " "}
Positional == <<"f0", "f1", "f2">>   \* labels of a component without schema
NoParent == <<>>                     \* null and "" are both falsy

\* What the expressions for ids and component names accept.
IsName(text) == text # <<>> /\ \A i \in DOMAIN text : text[i] \notin Special

-----------------------------------------------------------------------------
(***************************************************************************)
(* tokenizer.js and serializer.js                                          *)
(***************************************************************************)

\* A slip: the @ that starts a value is not escaped.
Escape_PipesOnly(v) ==
  FlattenSeq([i \in DOMAIN v |-> IF v[i] = "|" THEN <<"\\", "|">> ELSE <<v[i]>>])

\* escapeValue: every pipe, and an @ that comes first.
Escape(v) ==
  (IF v # <<>> /\ v[1] = "@" THEN <<"\\">> ELSE <<>>) \o
  FlattenSeq([i \in DOMAIN v |-> IF v[i] = "|" THEN <<"\\", "|">> ELSE <<v[i]>>])

Join(parts) == Tail(FlattenSeq([i \in DOMAIN parts |-> <<"|">> \o parts[i]]))

\* rawLine.trimEnd()
TrimEnd(text) ==
  LET kept == {0} \cup {i \in DOMAIN text : text[i] # " "}
  IN SubSeq(text, 1, Max(kept))

\* Position i holds a backslash that escapes what follows.
Escapes(s, i) ==
  /\ i \in DOMAIN s /\ i + 1 \in DOMAIN s
  /\ s[i] = "\\" /\ s[i + 1] \in {"|", "@"}

\* What stands in s at the positions of a set, in their order.  (The prover
\* knows nothing of SelectSeq.)
Pick(s, at) ==
  LET Nth(k) == CHOOSE i \in at : Cardinality({j \in at : j <= i}) = k
  IN [k \in 1 .. Cardinality(at) |-> s[Nth(k)]]

\* The loop of tokenizeLine: cut at the pipes that no backslash escapes, and
\* drop the backslashes that escape something.
Tokens(s) ==
  LET pipes == {i \in DOMAIN s : s[i] = "|" /\ ~ Escapes(s, i - 1)}
      cut == <<0>> \o Pick([i \in DOMAIN s |-> i], pipes) \o <<Len(s) + 1>>
      Token(k) == SubSeq(s, cut[k] + 1, cut[k + 1] - 1)
  IN [k \in 1 .. Len(cut) - 1 |->
        Pick(Token(k), {i \in DOMAIN Token(k) : ~ Escapes(Token(k), i)})]

\* A token that starts with @ and contains = is a named parameter, also when
\* its @ was escaped: the escape is gone when the token is looked at.
Named(token) == token # <<>> /\ token[1] = "@" /\ Contains(token, "=")

Equals(token) == Min({i \in DOMAIN token : token[i] = "="})
Key(token) == SubSeq(token, 2, Equals(token) - 1)
Val(token) == SubSeq(token, Equals(token) + 1, Len(token))

Parent == <<"parent">>   \* the key of the parameter @parent=id

\* serializeOp.  An operation that is sent has a list of values (content).
Serialize(op) ==
  CASE op.type = "+" ->
         [type |-> "+", id |-> op.id,
          rest |-> Join(<<op.component>>
                        \o [i \in DOMAIN op.content |-> Escape(op.content[i])]
                        \o (IF op.parent = NoParent THEN <<>>
                            ELSE << <<"@">> \o Parent \o <<"=">> \o op.parent >>))]
    [] op.type = "~" ->
         [type |-> "~", id |-> op.id, field |-> op.field,
          rest |-> Escape(op.content[1])]
    [] op.type = "-" -> [type |-> "-", id |-> op.id, rest |-> <<>>]
    [] op.type = "!" -> [type |-> "!", rest |-> <<"reason", "=">> \o Escape(op.content[1])]

-----------------------------------------------------------------------------
(***************************************************************************)
(* parser.js                                                               *)
(***************************************************************************)

\* resolveFields: surplus values of a known component are dropped, missing
\* ones are empty.
ResolveFields(raw, schema) ==
  IF schema = NoSchema
  THEN [l \in {Positional[i] : i \in DOMAIN raw} |-> raw[CHOOSE i \in DOMAIN raw : Positional[i] = l]]
  ELSE [l \in Labels(schema) |->
          LET i == CHOOSE j \in DOMAIN schema : schema[j].label = l
          IN IF i \in DOMAIN raw THEN raw[i] ELSE <<>>]

\* guessComponent: the text up to the first pipe, escaped or not.
GuessComponent(rest) ==
  SubSeq(rest, 1, Min({i \in DOMAIN rest : rest[i] = "|"} \cup {Len(rest) + 1}) - 1)

\* The branch of parseLine for a MOUNT.
ParseMount(line, schemas) ==
  LET rest == TrimEnd(line.rest)
      tokens == Tokens(rest)
      named == {k \in DOMAIN tokens : Named(tokens[k])}
      positional == Pick(tokens, DOMAIN tokens \ named)
      parents == Pick(tokens, {k \in named : Key(tokens[k]) = Parent})
      raw == IF positional = <<>> THEN <<>> ELSE Tail(positional)
  IN [type |-> "+", id |-> line.id,
      component |-> IF positional = <<>> THEN <<>> ELSE Head(positional),
      fields |-> ResolveFields(raw, SchemaFor(schemas, GuessComponent(rest))),
      parent |-> IF parents = <<>> THEN NoParent ELSE Val(Last(parents))]

\* The value of an UPDATE is taken as it stands: "unescaping is caller's job"
\* (packages/protocol/test/parser.test.js:55).
ParseUpdate(line) ==
  [type |-> "~", id |-> line.id, field |-> line.field, value |-> TrimEnd(line.rest)]

\* parseKvList splits at every pipe, escaped or not: what follows the first
\* one is read as further keys.
ParseParams(line) ==
  LET rest == TrimEnd(line.rest)
      part == GuessComponent(rest)
  IN [type |-> "!", value |-> SubSeq(part, Equals(part) + 1, Len(part)),
      more |-> Contains(rest, "|")]

ParseLine(line, schemas) ==
  CASE line.type = "+" -> ParseMount(line, schemas)
    [] line.type = "~" -> ParseUpdate(line)
    [] line.type = "-" -> [type |-> "-", id |-> line.id]
    [] line.type = "!" -> ParseParams(line)

-----------------------------------------------------------------------------
(***************************************************************************)
(* validator.js.  An index maps the ids of the tree to components.         *)
(***************************************************************************)

\* validateSyntax
SyntaxValid(op) ==
  /\ op.type \in {"+", "~", "-"} => IsName(op.id)
  /\ op.type = "+" => IsName(op.component)
  /\ op.type = "+" /\ op.parent # NoParent => IsName(op.parent)
  /\ op.type = "~" => op.field # ""

\* A missing field is undefined, which counts as empty.
FieldsValid(schema, fields) ==
  \A i \in DOMAIN schema :
    LET label == schema[i].label
        value == IF label \in DOMAIN fields THEN fields[label] ELSE <<>>
    IN /\ schema[i].required => value # <<>>
       /\ schema[i].values # {} /\ value # <<>> => value \in schema[i].values

\* A slip: a parent that is the new element itself counts as found.
StructureValid_OwnParent(op, index) ==
  /\ op.id \notin DOMAIN index
  /\ op.parent # NoParent => op.parent \in DOMAIN index \cup {op.id}

\* The checks of validateMountSemantic that need no schema.
StructureValid(op, index) ==
  /\ op.id \notin DOMAIN index
  /\ op.parent # NoParent => op.parent \in DOMAIN index

\* validateMountSemantic.  A component without a schema is only warned about.
MountValid(op, index, schemas) ==
  /\ StructureValid(op, index)
  /\ LET schema == SchemaFor(schemas, op.component)
     IN schema # NoSchema => FieldsValid(schema, op.fields)

\* validateUpdateSemantic: the field must be declared; its new value is not
\* looked at.
UpdateValid(op, index, schemas) ==
  /\ op.id \in DOMAIN index
  /\ LET schema == SchemaFor(schemas, index[op.id])
     IN schema # NoSchema => op.field \in Labels(schema)

\* validate: both passes.  An UNMOUNT is always valid (idempotent).
Valid(op, index, schemas) ==
  /\ SyntaxValid(op)
  /\ op.type = "+" => MountValid(op, index, schemas)
  /\ op.type = "~" => UpdateValid(op, index, schemas)
=============================================================================
