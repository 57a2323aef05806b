-------------------------- MODULE MCCircuitBreaker --------------------------
(* Two concurrent queries of one upstream. *)
EXTENDS CircuitBreaker
=============================================================================
