-------------------------- MODULE MCCircuitBreaker --------------------------
(* Small instances of CircuitBreaker for TLC. *)
EXTENDS CircuitBreaker, TLC

CONSTANTS openrouter, openai, anthropic, r1, r2, r3

TwoProviders == <<openrouter, openai>>

RequestSymmetry == Permutations(Request)
=============================================================================
