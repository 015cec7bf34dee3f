---------------------------- MODULE MCSchemaStore ----------------------------
(* Small instances of SchemaStore for TLC. *)
EXTENDS SchemaStore, TLC

CONSTANTS c1, c2, c3

ClientSymmetry == Permutations(Client)
=============================================================================
