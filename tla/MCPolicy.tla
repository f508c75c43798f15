------------------------------ MODULE MCPolicy ------------------------------
(* Small configurations of the hourly cap and the digest for TLC. *)
EXTENDS Policy

CONSTANTS alice, bob

\* Everyone is capped at one push an hour; or alice at two and bob not at all.
MCOne == [r \in Recipients |-> 1]
MCTwo == [r \in Recipients |-> IF r = alice THEN 2 ELSE 0]

\* Every hour has a name of its own, or clocks are set back between 0 and 1.
MCClock == [h \in 0..LastHour |-> h]
MCSetBack == [h \in 0..LastHour |-> IF h = 0 THEN 0 ELSE h - 1]
=============================================================================
