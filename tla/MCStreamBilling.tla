--------------------------- MODULE MCStreamBilling ---------------------------
(* Small instances of StreamBilling for TLC. *)
EXTENDS StreamBilling, TLC

CONSTANTS r1, r2, r3

RequestSymmetry == Permutations(Request)
=============================================================================
