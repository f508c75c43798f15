------------------------------ MODULE FailOpen ------------------------------
(***************************************************************************)
(* How one operation of store.Store reaches its two backends: the primary  *)
(* (Valkey, PostgreSQL or MongoDB) and the in-process map it falls back to *)
(* on an error.  A key family is a table [Backends -> contents]; the       *)
(* modules that use the store declare one variable per family.             *)
(*                                                                         *)
(* An operation is one step here.  Its OUTCOME is the set of backends it   *)
(* took effect on:                                                         *)
(*    {"primary"}            the primary answered                          *)
(*    {"memory"}             the primary failed without applying it        *)
(*    {"primary", "memory"}  the primary applied it and its answer was     *)
(*                           lost, so memory applied it too                *)
(*                                                                         *)
(* Valkey's client sends a command again when it gets no answer to it      *)
(* (go-redis's MaxRetries, which newRedisBackend leaves at 3): the command *)
(* has then taken effect on the primary before the time it is answered     *)
(* for.  The modules that use the store say which commands can tell.       *)
(***************************************************************************)
EXTENDS Integers

CONSTANTS
  HasPrimary,  \* a Valkey url or a database is configured
  Resends      \* it is a Valkey url

ASSUME HasPrimaryAssumption == HasPrimary \in BOOLEAN
ASSUME ResendsAssumption == Resends \in BOOLEAN /\ (Resends => HasPrimary)

Backends == {"primary", "memory"}

\* Where an operation may take effect.  "canceled" is the context passed to
\* the primary's client: once it is done every call on the primary fails.
\* "faults" is what is left of the bound on primary failures.
Reach(canceled, faults) ==
  {w \in {{"primary"}, {"memory"}, {"primary", "memory"}} :
     /\ ~HasPrimary => w = {"memory"}
     /\ HasPrimary /\ canceled => w = {"memory"}
     /\ HasPrimary /\ ~canceled /\ w # {"primary"} => faults > 0}

\* The budget after an operation with outcome w.
Spend(canceled, faults, w) ==
  IF HasPrimary /\ ~canceled /\ w # {"primary"} THEN faults - 1 ELSE faults

\* The primary's client may miss an answer and send the command again.
Resendable(canceled, faults) == Resends /\ ~canceled /\ faults > 0

\* The backend whose answer the caller gets.
Answer(w) == IF "memory" \in w THEN "memory" ELSE "primary"

\* The table after the operation rewrote the contents c to f[c] where it took
\* effect: v for each backend.
Applied(table, w, v) == [b \in Backends |-> IF b \in w THEN v[b] ELSE table[b]]

\* A keyed table after key was written where the operation took effect.
Written(table, w, key, val) ==
  Applied(table, w, [b \in Backends |-> [table[b] EXCEPT ![key] = val]])

\* What a restart leaves: the primary's contents and an empty memory.
Survives(table, empty) ==
  [b \in Backends |-> IF b = "memory" \/ ~HasPrimary THEN empty ELSE table[b]]
=============================================================================
