------------------------------ MODULE MCService ------------------------------
(* The subscriber's two topics. *)
EXTENDS Service

CONSTANTS reviews, updates
=============================================================================
