------------------------------ MODULE MCSenders ------------------------------
(* The goroutines that may send to one target: dispatch and a timer. *)
EXTENDS Senders

CONSTANTS d, t
=============================================================================
