------------------------------ MODULE MCUpstream ------------------------------
(* A small instance of Upstream for TLC. *)
EXTENDS Upstream

CONSTANTS openrouter, openai, r1, r2

TwoProviders == <<openrouter, openai>>
===============================================================================
