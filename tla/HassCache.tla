----------------------------- MODULE HassCache -----------------------------
(***************************************************************************)
(* internal/hasscache: entity states and solar times, read from Home       *)
(* Assistant behind short caches.                                          *)
(*                                                                         *)
(* Callers are the goroutines that judge rules and recipients' windows.    *)
(* A step is a critical section, or the start or the end of a lookup.      *)
(* State looks up without a lock, Solar while it holds solarMu.            *)
(*                                                                         *)
(* Abstractions.  What an entity or the sun says is the time Home          *)
(* Assistant said it, so that answers differ by their age and nothing      *)
(* else.  An HTTP error and a body that does not parse are both a failed   *)
(* lookup.  Time passes only while every goroutine waits for a lookup: one *)
(* that can go on does so at once.                                         *)
(***************************************************************************)
EXTENDS Integers

CONSTANTS
  Callers,       \* goroutines
  Entities,      \* the entities that conditions name
  EntityTTL, SolarTTL, FailTTL, LookupTimeout,
  MaxClock,      \* the clock stops here
  None

Sun   == "sun.sun"
Never == -1    \* the zero time.Time

ASSUME CacheAssumption ==
  /\ {EntityTTL, SolarTTL, FailTTL, LookupTimeout} \subseteq Nat \ {0}
  /\ MaxClock \in Nat
  /\ Sun \notin Entities
  /\ None \notin Entities \cup {Sun}

VARIABLES
  entities,  \* the entries of the cache
  solar,     \* solar, solarAt and solarErrAt
  solarMu,   \* whether the mutex is held
  pc, call,  \* the goroutines
  canceled,  \* the process's context is done
  now,       \* the clock
  answer     \* the last answer given

vars == <<entities, solar, solarMu, pc, call, canceled, now, answer>>

Clock == 0..MaxClock
Time  == Clock \cup {Never}

\* An entry: a state that was true at "said", an error that occurred then, or
\* nothing yet.
Entry  == [kind : {"absent", "value", "error"}, said : Time, fetched : Time]
\* The last good times, as of "said", and when the latest fetch failed.
Solar  == [said : Time, at : Time, errAt : Time]
\* A call in progress: what it asks for, when it came, when its lookup began
\* and when Home Assistant answered.
Call   == [of : Entities \cup {Sun}, came : Clock, began : Clock, said : Time]
Answer == [of : Entities \cup {Sun}, kind : {"value", "error"}, said : Time,
           came : Clock, at : Clock]

HaveLast == solar.at # Never

Return(p, of, kind, said, came) ==
  /\ pc' = [pc EXCEPT ![p] = "idle"]
  /\ call' = [call EXCEPT ![p] = None]
  /\ answer' = [of |-> of, kind |-> kind, said |-> said, came |-> came, at |-> now]

\* fetchState and fetchSolar begin.
LookUp(p, of, came, at) ==
  /\ pc' = [pc EXCEPT ![p] = at]
  /\ call' = [call EXCEPT ![p] = [of |-> of, came |-> came, began |-> now, said |-> Never]]
  /\ UNCHANGED answer

\* Fault: an entry lives one tick longer.
FreshToTheLast(e) == entities[e].kind # "absent" /\
  now - entities[e].fetched <= (IF entities[e].kind = "error" THEN FailTTL ELSE EntityTTL)

Fresh(e) == entities[e].kind # "absent" /\
  now - entities[e].fetched < (IF entities[e].kind = "error" THEN FailTTL ELSE EntityTTL)

-----------------------------------------------------------------------------
\* State, up to the lookup.
State(p, e) ==
  /\ pc[p] = "idle"
  /\ IF Fresh(e)
     THEN Return(p, e, entities[e].kind, entities[e].said, now)
     ELSE LookUp(p, e, now, "reading")
  /\ UNCHANGED <<entities, solar, solarMu, canceled, now>>

\* Home Assistant answers a lookup; the body is on its way.
Says(p) ==
  /\ pc[p] \in {"reading", "readingSun"}
  /\ call[p].said = Never
  /\ ~canceled
  /\ call' = [call EXCEPT ![p].said = now]
  /\ UNCHANGED <<entities, solar, solarMu, pc, canceled, now, answer>>

StateArrives(p) ==
  /\ pc[p] = "reading"
  /\ call[p].said # Never
  /\ entities' = [entities EXCEPT ![call[p].of] =
       [kind |-> "value", said |-> call[p].said, fetched |-> now]]
  /\ Return(p, call[p].of, "value", call[p].said, call[p].came)
  /\ UNCHANGED <<solar, solarMu, canceled, now>>

\* An error, a timeout or a canceled caller; the last is not remembered.
StateFails(p) ==
  /\ pc[p] = "reading"
  /\ entities' = IF canceled THEN entities
                 ELSE [entities EXCEPT ![call[p].of] =
                        [kind |-> "error", said |-> now, fetched |-> now]]
  /\ Return(p, call[p].of, "error", now, call[p].came)
  /\ UNCHANGED <<solar, solarMu, canceled, now>>

-----------------------------------------------------------------------------
\* Solar comes to its mutex.
AsksSolar(p) ==
  /\ pc[p] = "idle"
  /\ LookUp(p, Sun, now, "queued")
  /\ UNCHANGED <<entities, solar, solarMu, canceled, now>>

\* Fault: solar times are read once.
FreshForEver == HaveLast

SolarIsFresh == HaveLast /\ now - solar.at < SolarTTL

\* Fault: a failed fetch is tried again at once.
NeverFailed == FALSE

FailedLately == solar.errAt # Never /\ now - solar.errAt < FailTTL

\* It answers from the cache and from the memory of a failure, or fetches and
\* keeps the mutex.
EntersSolar(p) ==
  /\ pc[p] = "queued"
  /\ ~solarMu
  /\ IF SolarIsFresh \/ (FailedLately /\ HaveLast)
     THEN Return(p, Sun, "value", solar.said, call[p].came) /\ UNCHANGED solarMu
     ELSE IF FailedLately
     THEN Return(p, Sun, "error", solar.errAt, call[p].came) /\ UNCHANGED solarMu
     ELSE LookUp(p, Sun, call[p].came, "readingSun") /\ solarMu' = TRUE
  /\ UNCHANGED <<entities, solar, canceled, now>>

SolarArrives(p) ==
  /\ pc[p] = "readingSun"
  /\ call[p].said # Never
  /\ solar' = [said |-> call[p].said, at |-> now, errAt |-> Never]
  /\ solarMu' = FALSE
  /\ Return(p, Sun, "value", call[p].said, call[p].came)
  /\ UNCHANGED <<entities, canceled, now>>

SolarFails(p) ==
  /\ pc[p] = "readingSun"
  /\ solar' = IF canceled THEN solar ELSE [solar EXCEPT !.errAt = now]
  /\ solarMu' = FALSE
  /\ IF HaveLast THEN Return(p, Sun, "value", solar.said, call[p].came)
                 ELSE Return(p, Sun, "error", now, call[p].came)
  /\ UNCHANGED <<entities, canceled, now>>
-----------------------------------------------------------------------------
\* Goroutines on their way: none can go on before time does.
Waiting(p) ==
  \/ pc[p] = "idle"
  \/ pc[p] = "queued" /\ solarMu
  \/ pc[p] \in {"reading", "readingSun"} /\ ~canceled /\ now - call[p].began < LookupTimeout

Tick ==
  /\ now < MaxClock
  /\ \A p \in Callers : Waiting(p)
  /\ now' = now + 1
  /\ UNCHANGED <<entities, solar, solarMu, pc, call, canceled, answer>>

\* SIGTERM.
Cancel ==
  /\ ~canceled
  /\ canceled' = TRUE
  /\ UNCHANGED <<entities, solar, solarMu, pc, call, now, answer>>

Init ==
  /\ entities = [e \in Entities |-> [kind |-> "absent", said |-> Never, fetched |-> Never]]
  /\ solar = [said |-> Never, at |-> Never, errAt |-> Never]
  /\ solarMu = FALSE
  /\ pc = [p \in Callers |-> "idle"]
  /\ call = [p \in Callers |-> None]
  /\ canceled = FALSE
  /\ now = 0
  /\ answer = None

\* A call in progress goes on.
GoesOn(p) ==
  \/ Says(p)
  \/ StateArrives(p) \/ StateFails(p)
  \/ EntersSolar(p) \/ SolarArrives(p) \/ SolarFails(p)

Next ==
  \/ \E p \in Callers, e \in Entities : State(p, e)
  \/ \E p \in Callers : AsksSolar(p) \/ GoesOn(p)
  \/ Tick
  \/ Cancel

Spec == Init /\ [][Next]_vars

-----------------------------------------------------------------------------
\* Every variable holds what its declaration says.
TypeOK ==
  /\ entities \in [Entities -> Entry]
  /\ solar \in Solar
  /\ solarMu \in BOOLEAN /\ canceled \in BOOLEAN
  /\ pc \in [Callers -> {"idle", "reading", "queued", "readingSun"}]
  /\ call \in [Callers -> Call \cup {None}]
  /\ answer \in Answer \cup {None}
  /\ now \in Clock

\* What State answers was so less than a TTL and one lookup ago, however
\* lookups of the same entity overtake each other: a slow one may replace a
\* newer entry, and gives it a new lease ("a stale answer here decides whether
\* a push is suppressed").
StateIsRecent == answer # None /\ answer.of # Sun =>
  answer.at - answer.said <
    (IF answer.kind = "error" THEN FailTTL ELSE EntityTTL + LookupTimeout)

\* Nobody waits longer than one lookup for Solar, however many queue for its
\* mutex while Home Assistant hangs ("Don't retry a failing fetch on every
\* call: the lock is held meanwhile").
WaitIsBounded ==
  /\ \A p \in Callers : pc[p] # "idle" => now - call[p].came <= LookupTimeout
  /\ answer # None => answer.at - answer.came <= LookupTimeout

\* Solar gives the best answer there is: an old time only while Home Assistant
\* fails, which was noticed less than FailTTL ago ("a stale answer beats no
\* answer"), and, once a time is known, never an error in its place ("a failed
\* refresh keeps serving the last known good value").
SolarAnswersItsBest ==
  [][answer' # answer /\ answer'.of = Sun =>
       /\ answer'.kind = "value" /\ now - answer'.said >= SolarTTL + LookupTimeout
          => canceled \/ (solar'.errAt # Never /\ now - solar'.errAt < FailTTL)
       /\ solar.at # Never => answer'.kind = "value"]_vars
=============================================================================
