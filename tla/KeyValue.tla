------------------------------ MODULE KeyValue -------------------------------
(***************************************************************************)
(* What the store expects of a backend (the Backend interface of           *)
(* store/store.go: "Keys expire after ttl; Incr refreshes it").  A call    *)
(* takes effect once, at an instant between its start and its end: the key *)
(* is then there if it has not expired and gone if it has, and at the very *)
(* instant it expires either will do.  A caller told of an error does not  *)
(* know whether its call took effect.                                      *)
(*                                                                         *)
(* Where the backend's client resends what got no answer, a call may have  *)
(* taken effect before the time it is answered for: a claim may then be    *)
(* refused to the call that made it, and a call be counted twice.          *)
(***************************************************************************)
EXTENDS Integers

CONSTANTS Callers, Keys,
          Counters,   \* the keys that count (rate caps); the others hold a value
          Values, None, Error,
          TTL,        \* how long a key lasts
          MaxClock    \* bound: the clock

VARIABLES
  resends,   \* whether the client resends what got no answer
  clock,
  table,   \* the keys' entries
  calls    \* the call of each caller
vars == <<resends, clock, table, calls>>

Absent == [value |-> None, expires |-> 0]
Operations(k) == IF k \in Counters THEN {"Incr"} ELSE {"SetNX", "Get", "Set", "Del"}

NoCall == [at |-> "idle", op |-> None, key |-> None, val |-> None, since |-> 0, answer |-> None]
Called(op, k, v) ==
  [at |-> "called", op |-> op, key |-> k, val |-> v, since |-> clock, answer |-> None]
Answered(c, a) ==
  [at |-> "answered", op |-> c.op, key |-> c.key, val |-> c.val, since |-> c.since, answer |-> a]

-----------------------------------------------------------------------------
Put(k, v, now) == [table EXCEPT ![k] = [value |-> v, expires |-> now + TTL]]
NextCount(k, there) == IF there THEN table[k].value + 1 ELSE 1

\* The table a call leaves, and what it is told, by whether the key was there.
After(c, now, there) ==
  CASE c.op = "SetNX" -> IF there THEN table ELSE Put(c.key, c.val, now)
    [] c.op = "Get" -> table
    [] c.op = "Set" -> Put(c.key, c.val, now)
    [] c.op = "Del" -> [table EXCEPT ![c.key] = Absent]
    [] c.op = "Incr" -> Put(c.key, NextCount(c.key, there), now)

Reply(c, there) ==
  CASE c.op = "SetNX" -> ~there
    [] c.op = "Get" -> IF there THEN table[c.key].value ELSE None
    [] c.op = "Incr" -> NextCount(c.key, there)
    [] OTHER -> None

\* An expired entry may go at any time.
Forgets(t, gone) == [k \in Keys |-> IF k \in gone THEN Absent ELSE t[k]]
Expired(t) == {k \in Keys : t[k].expires <= clock}

Found(k, now, there) ==
  IF there THEN table[k] # Absent /\ table[k].expires >= now
  ELSE table[k] = Absent \/ table[k].expires <= now

-----------------------------------------------------------------------------
Begin(p) ==
  /\ calls[p].at = "idle"
  /\ \E k \in Keys, v \in Values : \E op \in Operations(k) :
       calls' = [calls EXCEPT ![p] = Called(op, k, v)]
  /\ UNCHANGED <<resends, clock, table>>

\* The call takes effect at the instant now, with its key there or not.
TakesEffect(c, now, there) ==
  /\ Found(c.key, now, there)
  /\ \E gone \in SUBSET Expired(After(c, now, there)) :
       table' = Forgets(After(c, now, there), gone)

Perform(p) ==
  /\ calls[p].at = "called"
  /\ \E now \in calls[p].since..clock, there \in BOOLEAN :
       /\ TakesEffect(calls[p], now, there)
       /\ \E a \in {Reply(calls[p], there), Error} :
            calls' = [calls EXCEPT ![p] = Answered(@, a)]
  /\ UNCHANGED <<resends, clock>>

\* Its answer is lost on the way, and the client has yet to send it again.
PerformUnanswered(p) ==
  /\ resends /\ calls[p].at = "called"
  /\ \E now \in calls[p].since..clock, there \in BOOLEAN : TakesEffect(calls[p], now, there)
  /\ UNCHANGED <<resends, clock, calls>>

Fail(p) ==
  /\ calls[p].at = "called"
  /\ calls' = [calls EXCEPT ![p] = Answered(@, Error)]
  /\ UNCHANGED <<resends, clock, table>>

Return(p) ==
  /\ calls[p].at = "answered"
  /\ calls' = [calls EXCEPT ![p] = NoCall]
  /\ UNCHANGED <<resends, clock, table>>

Forget ==
  /\ \E gone \in SUBSET Expired(table) : table' = Forgets(table, gone)
  /\ UNCHANGED <<resends, clock, calls>>

Tick == clock < MaxClock /\ clock' = clock + 1 /\ UNCHANGED <<resends, table, calls>>

Init ==
  /\ resends \in BOOLEAN
  /\ clock = 0
  /\ table = [k \in Keys |-> Absent]
  /\ calls = [p \in Callers |-> NoCall]

Next ==
  \/ \E p \in Callers : Begin(p) \/ Perform(p) \/ PerformUnanswered(p) \/ Fail(p) \/ Return(p)
  \/ Forget
  \/ Tick

Spec == Init /\ [][Next]_vars
=============================================================================
