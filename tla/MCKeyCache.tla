----------------------------- MODULE MCKeyCache -----------------------------
(* A small instance of KeyCache for TLC. *)
EXTENDS KeyCache

CONSTANTS r1, r2, t1, t2
=============================================================================
