------------------------------ MODULE Backends -------------------------------
(***************************************************************************)
(* The four backends of the store, each with the steps its calls take:     *)
(* memory under its mutex (store/backend_mem.go), Valkey with one command  *)
(* or transaction, which go-redis sends again if it got no answer          *)
(* (store/backend_redis.go), Postgres with one statement that judges       *)
(* expiry by the instant it began (db/postgres.go), and MongoDB, whose     *)
(* upsert first looks for a document and then updates or inserts one,      *)
(* colliding with whoever inserted it meanwhile (db/mongo.go).  They       *)
(* implement KeyValue, Valkey the weaker form of it.                       *)
(*                                                                         *)
(* The key's value and, on MongoDB, its counter are one field: no key is   *)
(* used for both.                                                          *)
(***************************************************************************)
EXTENDS Integers, FiniteSets

CONSTANTS Callers, Keys, Counters, Values, None, Error, TTL, MaxClock,
          CallTime,   \* how long a call may take: kvTimeout, or Valkey's attempts
          Retries,    \* how often Valkey's client sends a command again (3)
          SweepAt,    \* the entries in memory from which a SetNX sweeps
          MaxCount    \* bound: the counters

ASSUME BackendsAssumption ==
  /\ TTL \in Nat /\ MaxClock \in Nat /\ CallTime \in Nat /\ MaxCount \in Nat
  /\ Retries \in Nat
  /\ CallTime <= TTL
  /\ Counters \subseteq Keys
  /\ None \notin BOOLEAN /\ Error \notin BOOLEAN

VARIABLES
  backend,   \* which one this is
  clock,
  rows,      \* the entries, rows or documents it holds
  calls      \* the call of each caller
vars == <<backend, clock, rows, calls>>

NoRow == [value |-> None, expires |-> 0]
Holds(k) == rows[k] # NoRow

Operations(k) == IF k \in Counters THEN {"Incr"} ELSE {"SetNX", "Get", "Set", "Del"}
Idle == [at |-> "idle", op |-> None, key |-> None, val |-> None, since |-> 0,
         answer |-> None, now |-> 0, attempt |-> 0]
Working(c) == c.at \in {"called", "updating", "inserting"}
Answered(c, a) == [c EXCEPT !.at = "answered", !.answer = a]

-----------------------------------------------------------------------------
\* Fault: an entry's expiry is compared with that of the one to come.
ExpiredByThen(k, now) == rows[k].expires <= now + TTL

\* An expired entry counts as absent: in memory after its expiry, elsewhere
\* from the instant of it.
Expired(k, now) ==
  IF backend = "memory" THEN now > rows[k].expires ELSE rows[k].expires <= now
Gone(k, now) == ~Holds(k) \/ Expired(k, now)

\* The instant a call judges expiry by: the one it holds the lock or runs the
\* command at, the start of its statement, or the client's clock.
Instants(c) ==
  CASE backend \in {"memory", "redis"} -> {clock}
    [] backend = "postgres" -> c.since..clock
    [] backend = "mongo" -> {c.now}

Put(k, v, now) == [rows EXCEPT ![k] = [value |-> v, expires |-> now + TTL]]
Dropped(r, gone) == [k \in Keys |-> IF k \in gone THEN NoRow ELSE r[k]]

\* Memory drops expired entries as it claims a key, once it holds many.
Swept(r) ==
  IF backend = "memory" /\ Cardinality({k \in Keys : r[k] # NoRow}) >= SweepAt
  THEN Dropped(r, {k \in Keys : clock > r[k].expires}) ELSE r

\* A read of memory drops the entry if it has expired.
Peeked(k) ==
  IF backend = "memory" /\ Holds(k) /\ Expired(k, clock) THEN Dropped(rows, {k}) ELSE rows

\* Fault: a counter outlives its window.
CountedForever(k, now) == IF ~Holds(k) THEN 1 ELSE rows[k].value + 1

Counted(k, now) == IF Gone(k, now) THEN 1 ELSE rows[k].value + 1

\* What an operation leaves and what it answers.
Effect(c, now) ==
  CASE c.op = "SetNX" -> IF Gone(c.key, now) THEN Swept(Put(c.key, c.val, now)) ELSE rows
    [] c.op = "Get" -> Peeked(c.key)
    [] c.op = "Set" -> Put(c.key, c.val, now)
    [] c.op = "Del" -> Dropped(rows, {c.key})
    [] c.op = "Incr" -> Put(c.key, Counted(c.key, now), now)

Reply(c, now) ==
  CASE c.op = "SetNX" -> Gone(c.key, now)
    [] c.op = "Get" -> IF Gone(c.key, now) THEN None ELSE rows[c.key].value
    [] c.op = "Incr" -> Counted(c.key, now)
    [] OTHER -> None

\* The answer, or an error in its place where there is a network.
Replies(c, now) == {Reply(c, now)} \cup {e \in {Error} : backend # "memory"}

-----------------------------------------------------------------------------
Begin(p) ==
  /\ calls[p].at = "idle"
  /\ \E k \in Keys, v \in Values : \E op \in Operations(k) :
       /\ op = "Incr" /\ Holds(k) => rows[k].value < MaxCount
       /\ calls' = [calls EXCEPT ![p] =
            [Idle EXCEPT !.at = "called", !.op = op, !.key = k, !.val = v,
                         !.since = clock, !.now = clock]]
  /\ UNCHANGED <<backend, clock, rows>>

\* MongoDB's writes but Del are upserts.
Upserts(c) == backend = "mongo" /\ c.op \in {"SetNX", "Set", "Incr"}

AtOnce(p) ==
  /\ calls[p].at = "called" /\ ~Upserts(calls[p])
  /\ \E now \in Instants(calls[p]) :
       /\ rows' = Effect(calls[p], now)
       /\ \E a \in Replies(calls[p], now) : calls' = [calls EXCEPT ![p] = Answered(@, a)]
  /\ UNCHANGED <<backend, clock>>

\* Valkey applies a command whose answer is lost, and go-redis is to send it
\* again: a timeout and a broken connection are retried, whatever the command.
Resend(p) ==
  /\ backend = "redis" /\ calls[p].at = "called" /\ calls[p].attempt < Retries
  /\ \E now \in Instants(calls[p]) : rows' = Effect(calls[p], now)
  /\ calls' = [calls EXCEPT ![p].attempt = @ + 1]
  /\ UNCHANGED <<backend, clock>>

\* The documents an upsert's filter matches: an expired one for a claim.
Matches(c) == Holds(c.key) /\ (c.op = "SetNX" => Expired(c.key, c.now))

Look(p) ==
  /\ calls[p].at = "called" /\ Upserts(calls[p])
  /\ calls' = [calls EXCEPT ![p].at = IF Matches(calls[p]) THEN "updating" ELSE "inserting"]
  /\ UNCHANGED <<backend, clock, rows>>

\* The document it found, or the filter again if that one has changed.
Update(p) ==
  /\ calls[p].at = "updating"
  /\ IF Matches(calls[p])
     THEN /\ rows' = Effect(calls[p], calls[p].now)
          /\ \E a \in Replies(calls[p], calls[p].now) :
               calls' = [calls EXCEPT ![p] = Answered(@, a)]
     ELSE calls' = [calls EXCEPT ![p].at = "called"] /\ UNCHANGED rows
  /\ UNCHANGED <<backend, clock>>

\* A duplicate key: the claim is held, the count is tried once more, anything
\* else failed.
Collided(c) ==
  CASE c.op = "SetNX" -> Answered(c, FALSE)
    [] c.op = "Incr" /\ c.attempt = 0 ->
         [c EXCEPT !.at = "called", !.now = clock, !.attempt = 1]
    [] OTHER -> Answered(c, Error)

Insert(p) ==
  /\ calls[p].at = "inserting"
  /\ IF Holds(calls[p].key)
     THEN calls' = [calls EXCEPT ![p] = Collided(@)] /\ UNCHANGED rows
     ELSE /\ rows' = Effect(calls[p], calls[p].now)
          /\ \E a \in Replies(calls[p], calls[p].now) :
               calls' = [calls EXCEPT ![p] = Answered(@, a)]
  /\ UNCHANGED <<backend, clock>>

\* The backend is unreachable, refuses, or takes too long.
Fail(p) ==
  /\ Working(calls[p]) /\ backend # "memory"
  /\ calls' = [calls EXCEPT ![p] = Answered(@, Error)]
  /\ UNCHANGED <<backend, clock, rows>>

Return(p) ==
  /\ calls[p].at = "answered"
  /\ calls' = [calls EXCEPT ![p] = Idle]
  /\ UNCHANGED <<backend, clock, rows>>

\* The hourly sweep, and MongoDB's and Valkey's own reapers.
Sweep ==
  /\ backend = "postgres"
  /\ rows' = Dropped(rows, {k \in Keys : Expired(k, clock)})
  /\ UNCHANGED <<backend, clock, calls>>

Reap(k) ==
  /\ backend \in {"mongo", "redis"} /\ Expired(k, clock)
  /\ rows' = Dropped(rows, {k})
  /\ UNCHANGED <<backend, clock, calls>>

Tick ==
  /\ clock < MaxClock
  /\ \A p \in Callers : Working(calls[p]) => clock - calls[p].since < CallTime
  /\ clock' = clock + 1
  /\ UNCHANGED <<backend, rows, calls>>

Init ==
  /\ backend \in {"memory", "redis", "postgres", "mongo"}
  /\ clock = 0
  /\ rows = [k \in Keys |-> NoRow]
  /\ calls = [p \in Callers |-> Idle]

Next ==
  \/ \E p \in Callers : \/ Begin(p) \/ AtOnce(p) \/ Resend(p) \/ Look(p) \/ Update(p) \/ Insert(p)
                        \/ Fail(p) \/ Return(p)
  \/ Sweep
  \/ \E k \in Keys : Reap(k)
  \/ Tick

Spec == Init /\ [][Next]_vars

-----------------------------------------------------------------------------
\* A call as its caller knows it.
AsCall(c) == [at |-> IF Working(c) THEN "called" ELSE c.at, op |-> c.op, key |-> c.key,
              val |-> c.val, since |-> c.since, answer |-> c.answer]

KV == INSTANCE KeyValue WITH table <- rows, calls <- [p \in Callers |-> AsCall(calls[p])],
                            resends <- backend = "redis"

\* Every backend is an atomic table whose keys expire, whichever steps its calls
\* take and however they overlap (the Backend interface, store.go:22-29); on all
\* but Valkey a call takes effect once.
Implements == KV!Spec

\* A claim is won only while nobody holds it: two SetNX of one key within its
\* ttl never both succeed (AcquireCooldown and FirstDelivery rest on it).
WonOnlyIfFree ==
  [][\A p \in Callers :
       calls[p].op = "SetNX" /\ calls[p].answer = None /\ calls'[p].answer = TRUE =>
         rows[calls[p].key] = NoRow \/ rows[calls[p].key].expires <= clock]_vars
=============================================================================
