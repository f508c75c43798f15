----------------------------- MODULE MCBackends ------------------------------
(* Two callers, a claim and a counter. *)
EXTENDS Backends

CONSTANTS c1, c2, claim, count, v1
=============================================================================
