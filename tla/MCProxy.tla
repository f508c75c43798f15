------------------------------- MODULE MCProxy -------------------------------
(* More requests than slots. *)
EXTENDS Proxy

CONSTANTS q1, q2, q3
=============================================================================
