--------------------------- MODULE MCComponentTree ---------------------------
(* Small instances of ComponentTree for TLC. *)
EXTENDS ComponentTree, TLC

CONSTANTS a, b, c, Panel, Card, v1, v2

Symmetry == Permutations(Id) \cup Permutations(Value)
=============================================================================
