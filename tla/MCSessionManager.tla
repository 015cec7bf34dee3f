-------------------------- MODULE MCSessionManager --------------------------
(* Small instances of SessionManager for TLC. *)
EXTENDS SessionManager, TLC

CONSTANTS c1, e1, e2, x, y

EngineSymmetry == Permutations(Engine)
=============================================================================
