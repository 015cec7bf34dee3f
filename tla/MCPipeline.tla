------------------------------ MODULE MCPipeline ------------------------------
(* A small instance of Pipeline for TLC. *)
EXTENDS Pipeline

CONSTANTS a, b, e1, e2

Card == <<"Card">>   \* has schemas
Free == <<"Free">>   \* has none

TitleField == [label |-> "title", required |-> TRUE, values |-> {}]
KindField == [label |-> "kind", required |-> FALSE, values |-> {<<"x">>}]

Catalogue == Card :> (1 :> <<TitleField>> @@ 3 :> <<TitleField, KindField>>)

\* The client asks for a version that is too new, and gets version 3.
Claims == Card :> 4 @@ Free :> 1

Names == {<<a>>, <<b>>}
Components == {Card, Free}
OnlyCard == {Card}

Plain == {<<>>, << <<"x">> >>}

\* Every text of up to two characters, the shorter ones also before another
\* value, and texts that read like a parent.
Texts == UNION {[1 .. n -> {"x", "|", "\\", "@", "=", " "}] : n \in 0 .. 2}

Peculiar ==
  {<<v>> : v \in Texts \ {<<"x">>}}
  \cup {<<v, <<"x">> >> : v \in {u \in Texts : Len(u) < 2}}
  \cup {<< <<"@", "parent", "=", i>> >> : i \in {a, b}}

Symmetry == Permutations({a, b}) \cup Permutations({e1, e2})

\* A client that asks for more gets no less.
ASSUME ResolveAssumption ==
  \A v, w \in 0 .. 4 : v <= w => ActualVersion(Card, v) <= ActualVersion(Card, w)
===============================================================================
