---------------------------- MODULE MCLocLimiter ----------------------------
(* Small instances of LocLimiter for TLC. *)
EXTENDS LocLimiter, TLC

CONSTANTS m1, m2, r1, r2

RequestSymmetry == Permutations(Request)
=============================================================================
