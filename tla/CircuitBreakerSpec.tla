------------------------- MODULE CircuitBreakerSpec -------------------------
(***************************************************************************)
(* What a set of circuits promises, without the requests: the life cycle   *)
(* CLOSED -> OPEN -> HALF_OPEN -> CLOSED stated at the head of             *)
(* circuit-breaker.js.  A tripped circuit rests for ResetTimeoutMs from    *)
(* the moment it tripped, whatever late answers of older calls arrive      *)
(* meanwhile; only then may it be probed, and only a probing circuit       *)
(* recovers.                                                               *)
(***************************************************************************)
EXTENDS Integers

CONSTANTS Provider, ResetTimeoutMs

VARIABLES
  state,     \* the state of each circuit
  openedAt,  \* when it last tripped
  now        \* the clock

vars == <<state, openedAt, now>>

Init ==
  /\ state = [p \in Provider |-> "CLOSED"]
  /\ openedAt = [p \in Provider |-> -1]
  /\ now = 0

Trip(p) ==
  /\ state[p] \in {"CLOSED", "HALF_OPEN"}
  /\ state' = [state EXCEPT ![p] = "OPEN"]
  /\ openedAt' = [openedAt EXCEPT ![p] = now]
  /\ UNCHANGED now

Probe(p) ==
  /\ state[p] = "OPEN"
  /\ now >= openedAt[p] + ResetTimeoutMs
  /\ state' = [state EXCEPT ![p] = "HALF_OPEN"]
  /\ UNCHANGED <<openedAt, now>>

Recover(p) ==
  /\ state[p] = "HALF_OPEN"
  /\ state' = [state EXCEPT ![p] = "CLOSED"]
  /\ UNCHANGED <<openedAt, now>>

Tick == now' = now + 1 /\ UNCHANGED <<state, openedAt>>

Next ==
  \/ \E p \in Provider : Trip(p) \/ Probe(p) \/ Recover(p)
  \/ Tick

Spec == Init /\ [][Next]_vars
=============================================================================
