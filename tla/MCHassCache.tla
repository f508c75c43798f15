---------------------------- MODULE MCHassCache ----------------------------
(* Small configurations of the Home Assistant cache for TLC. *)
EXTENDS HassCache, TLC

CONSTANTS p1, p2, p3

\* Goroutines are interchangeable.
MCSymmetry == Permutations(Callers)
=============================================================================
