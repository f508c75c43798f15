-------------------------- MODULE HassCacheProofs --------------------------
(***************************************************************************)
(* How old an answer of State can be, how long a call of Solar can take    *)
(* and what it may answer with, for every number of goroutines and         *)
(* entities and every timeout.                                             *)
(***************************************************************************)
EXTENDS HassCache, TLAPS

-----------------------------------------------------------------------------
\* What a goroutine's call says, given where it is.
PlaceOf(p) ==
  /\ pc[p] # "idle" =>
       /\ call[p] \in Call
       /\ call[p].came <= call[p].began /\ call[p].began <= now
  /\ pc[p] = "reading" => call[p].of \in Entities /\ call[p].came = call[p].began
  /\ pc[p] \in {"queued", "readingSun"} => call[p].of = Sun
  /\ pc[p] \in {"reading", "readingSun"} =>
       /\ now - call[p].began <= LookupTimeout
       /\ call[p].said # Never => call[p].began <= call[p].said /\ call[p].said <= now

\* Values in the cache were true within a lookup of being fetched.
EntryOf(e) ==
  /\ entities[e].kind # "absent" =>
       /\ entities[e].said \in Clock /\ entities[e].fetched \in Clock
       /\ entities[e].fetched <= now
       /\ entities[e].fetched - entities[e].said <= LookupTimeout
  /\ entities[e].kind = "error" => entities[e].said = entities[e].fetched

Places  == \A p \in Callers : PlaceOf(p)
Entries == \A e \in Entities : EntryOf(e)

Good == TypeOK /\ Places /\ Entries /\ StateIsRecent

LEMMA Constants ==
  /\ EntityTTL \in Nat /\ SolarTTL \in Nat /\ FailTTL \in Nat /\ LookupTimeout \in Nat
  /\ EntityTTL > 0 /\ SolarTTL > 0 /\ FailTTL > 0 /\ LookupTimeout > 0
  /\ 0 \in Clock
  /\ \A t \in Clock : t \in Nat /\ t \in Time /\ t # Never
  /\ \A t \in Time : t # Never => t \in Clock
  /\ Never \in Time
  /\ Sun \notin Entities /\ None \notin Entities
  BY CacheAssumption DEF Clock, Time, Never

\* A step in which p's call ends.
LEMMA ReturnKeeps ==
  ASSUME Good, now' = now, NEW p \in Callers, NEW of \in Entities \cup {Sun},
         NEW kind \in {"value", "error"}, NEW said \in Time, NEW came \in Clock,
         Return(p, of, kind, said, came),
         of # Sun => said \in Clock /\ now - said <
           (IF kind = "error" THEN FailTTL ELSE EntityTTL + LookupTimeout)
  PROVE  /\ pc' \in [Callers -> {"idle", "reading", "queued", "readingSun"}]
         /\ call' \in [Callers -> Call \cup {None}]
         /\ answer' \in Answer \cup {None}
         /\ Places'
         /\ StateIsRecent'
<1>1. answer' = [of |-> of, kind |-> kind, said |-> said, came |-> came, at |-> now]
  BY DEF Return
<1>2. now \in Clock
  BY DEF Good, TypeOK
<1>3. answer' \in Answer
  BY <1>1, <1>2 DEF Answer
<1>4. StateIsRecent'
  BY <1>1 DEF StateIsRecent
<1>5. /\ pc' \in [Callers -> {"idle", "reading", "queued", "readingSun"}]
      /\ call' \in [Callers -> Call \cup {None}]
  BY DEF Return, Good, TypeOK
<1>6. ASSUME NEW q \in Callers PROVE PlaceOf(q)'
  <2>1. CASE q = p
    <3>1. pc'[q] = "idle"
      BY <2>1 DEF Return, Good, TypeOK
    <3> QED BY <3>1 DEF PlaceOf
  <2>2. CASE q # p
    <3>1. pc'[q] = pc[q] /\ call'[q] = call[q]
      BY <2>2 DEF Return, Good, TypeOK
    <3>2. PlaceOf(q)
      BY DEF Good, Places
    <3> QED BY <3>1, <3>2 DEF PlaceOf
  <2> QED BY <2>1, <2>2
<1> QED BY <1>3, <1>4, <1>5, <1>6 DEF Places

\* A step in which p starts to wait.
LEMMA LookUpKeeps ==
  ASSUME Good, now' = now, NEW p \in Callers, NEW of \in Entities \cup {Sun},
         NEW came \in Clock, came <= now, NEW at \in {"reading", "queued", "readingSun"},
         LookUp(p, of, came, at),
         at = "reading" => of \in Entities /\ came = now,
         at # "reading" => of = Sun
  PROVE  /\ pc' \in [Callers -> {"idle", "reading", "queued", "readingSun"}]
         /\ call' \in [Callers -> Call \cup {None}]
         /\ answer' = answer
         /\ Places'
         /\ StateIsRecent'
<1> DEFINE c == [of |-> of, came |-> came, began |-> now, said |-> Never]
<1>1. now \in Clock
  BY DEF Good, TypeOK
<1>2. c \in Call
  BY <1>1, Constants DEF Call
<1>3. /\ pc' \in [Callers -> {"idle", "reading", "queued", "readingSun"}]
      /\ call' \in [Callers -> Call \cup {None}]
      /\ answer' = answer
  BY <1>2 DEF LookUp, Good, TypeOK
<1>4. StateIsRecent'
  BY <1>3 DEF Good, StateIsRecent
<1>5. ASSUME NEW q \in Callers PROVE PlaceOf(q)'
  <2>1. CASE q = p
    <3>1. pc'[q] = at /\ call'[q] = c
      BY <2>1 DEF LookUp, Good, TypeOK
    <3>2. now - now <= LookupTimeout
      BY <1>1, Constants
    <3> QED BY <1>1, <1>2, <3>1, <3>2, Constants DEF PlaceOf
  <2>2. CASE q # p
    <3>1. pc'[q] = pc[q] /\ call'[q] = call[q]
      BY <2>2 DEF LookUp, Good, TypeOK
    <3>2. PlaceOf(q)
      BY DEF Good, Places
    <3> QED BY <3>1, <3>2 DEF PlaceOf
  <2> QED BY <2>1, <2>2
<1> QED BY <1>3, <1>4, <1>5 DEF Places

LEMMA EntriesKept ==
  ASSUME Good, UNCHANGED <<entities, now>>
  PROVE  Entries'
  BY DEF Good, Entries, EntryOf

LEMMA StateKeeps ==
  ASSUME Good, NEW p \in Callers, NEW e \in Entities, State(p, e)
  PROVE  Good'
<1>1. now \in Clock /\ UNCHANGED <<entities, solar, solarMu, canceled, now>>
  BY DEF Good, TypeOK, State
<1>2. CASE Fresh(e)
  <2>1. entities[e] \in Entry /\ EntryOf(e)
    BY DEF Good, TypeOK, Entries
  <2>2. /\ entities[e].kind \in {"value", "error"}
        /\ entities[e].said \in Clock
        /\ now - entities[e].said <
             (IF entities[e].kind = "error" THEN FailTTL ELSE EntityTTL + LookupTimeout)
    BY <1>1, <1>2, <2>1, Constants DEF Fresh, Entry, EntryOf
  <2>3. Return(p, e, entities[e].kind, entities[e].said, now)
    BY <1>2 DEF State
  <2>4. /\ pc' \in [Callers -> {"idle", "reading", "queued", "readingSun"}]
        /\ call' \in [Callers -> Call \cup {None}]
        /\ answer' \in Answer \cup {None}
        /\ Places' /\ StateIsRecent'
    <3>1. entities[e].said \in Time /\ e \in Entities \cup {Sun} /\ now' = now
      BY <1>1, <2>2, Constants
    <3> QED BY <1>1, <2>2, <2>3, <3>1, ReturnKeeps
  <2> QED BY <1>1, <2>4, EntriesKept DEF Good, TypeOK
<1>3. CASE ~Fresh(e)
  <2>1. LookUp(p, e, now, "reading")
    BY <1>3 DEF State
  <2> QED BY <1>1, <2>1, Constants, LookUpKeeps, EntriesKept DEF Good, TypeOK
<1> QED BY <1>2, <1>3

LEMMA SaysKeeps ==
  ASSUME Good, NEW p \in Callers, Says(p)
  PROVE  Good'
<1>1. /\ now \in Clock /\ UNCHANGED <<entities, solar, solarMu, pc, canceled, now, answer>>
      /\ call[p] \in Call /\ PlaceOf(p)
  BY DEF Good, TypeOK, Says, Places, PlaceOf
<1> DEFINE c == [call[p] EXCEPT !.said = now]
<1>2. c \in Call /\ call' = [call EXCEPT ![p] = c]
  BY <1>1, Constants DEF Call, Says
<1>3. /\ c.of = call[p].of /\ c.came = call[p].came /\ c.began = call[p].began
      /\ c.said = now
  BY <1>1 DEF Call
<1>4. call' \in [Callers -> Call \cup {None}]
  BY <1>2 DEF Good, TypeOK
<1>5. ASSUME NEW q \in Callers PROVE PlaceOf(q)'
  <2>1. PlaceOf(q)
    BY DEF Good, Places
  <2>2. CASE q = p
    <3>1. call'[q] = c
      BY <1>2, <2>2 DEF Good, TypeOK
    <3> HIDE DEF c
    <3>2. call[p].began <= now /\ now <= now
      BY <1>1 DEF PlaceOf, Says, Clock
    <3> QED BY <1>1, <1>2, <1>3, <2>2, <3>1, <3>2 DEF PlaceOf
  <2>3. CASE q # p
    <3>1. call'[q] = call[q]
      BY <1>2, <2>3 DEF Good, TypeOK
    <3> QED BY <1>1, <2>1, <3>1 DEF PlaceOf
  <2> QED BY <2>2, <2>3
<1>6. StateIsRecent'
  BY <1>1 DEF Good, StateIsRecent
<1> QED BY <1>1, <1>4, <1>5, <1>6, EntriesKept DEF Good, TypeOK, Places

LEMMA StateEndsKeeps ==
  ASSUME Good, NEW p \in Callers, StateArrives(p) \/ StateFails(p)
  PROVE  Good'
<1> DEFINE e == call[p].of
<1>1. /\ now \in Clock /\ UNCHANGED <<solar, solarMu, canceled, now>>
      /\ pc[p] = "reading" /\ call[p] \in Call /\ PlaceOf(p)
  BY DEF Good, TypeOK, StateArrives, StateFails, Places, PlaceOf
<1>2. e \in Entities /\ call[p].came \in Clock /\ call[p].began \in Clock
      /\ call[p].said \in Time
  BY <1>1 DEF PlaceOf, Call
<1>3. CASE StateArrives(p)
  <2>1. /\ call[p].said \in Clock
        /\ call[p].said <= now /\ now - call[p].said <= LookupTimeout
    <3>1. call[p].said # Never
      BY <1>3 DEF StateArrives
    <3>2. /\ now - call[p].began <= LookupTimeout
          /\ call[p].began <= call[p].said /\ call[p].said <= now
      BY <1>1, <3>1 DEF PlaceOf
    <3>3. now \in Nat /\ call[p].began \in Nat /\ call[p].said \in Clock /\ call[p].said \in Nat
      BY <1>1, <1>2, <3>1, Constants
    <3> QED BY <3>2, <3>3, Constants
  <2>2. now - call[p].said < EntityTTL + LookupTimeout
    <3>1. now \in Nat /\ call[p].said \in Nat
      BY <1>1, <2>1, Constants
    <3> QED BY <2>1, <3>1, Constants
  <2>3. Return(p, e, "value", call[p].said, call[p].came)
    BY <1>3 DEF StateArrives
  <2>4. entities' = [entities EXCEPT ![e] =
                      [kind |-> "value", said |-> call[p].said, fetched |-> now]]
    BY <1>3 DEF StateArrives
  <2>5. entities' \in [Entities -> Entry]
    <3>1. [kind |-> "value", said |-> call[p].said, fetched |-> now] \in Entry
      BY <1>1, <2>1, Constants DEF Entry
    <3> QED BY <1>2, <2>4, <3>1 DEF Good, TypeOK
  <2>6. Entries'
    <3> SUFFICES ASSUME NEW g \in Entities PROVE EntryOf(g)'
      BY DEF Entries
    <3>1. EntryOf(g)
      BY DEF Good, Entries
    <3>2. CASE g = e
      <4>1. entities'[g] = [kind |-> "value", said |-> call[p].said, fetched |-> now]
        BY <2>4, <3>2 DEF Good, TypeOK
      <4>2. now <= now
        BY <1>1, Constants
      <4> QED BY <1>1, <2>1, <4>1, <4>2 DEF EntryOf
    <3>3. CASE g # e
      <4>1. entities'[g] = entities[g]
        BY <2>4, <3>3 DEF Good, TypeOK
      <4> QED BY <1>1, <3>1, <4>1 DEF EntryOf
    <3> QED BY <3>2, <3>3
  <2> QED BY <1>1, <1>2, <2>1, <2>2, <2>3, <2>5, <2>6, ReturnKeeps DEF Good, TypeOK
<1>4. CASE StateFails(p)
  <2>1. now - now = 0 /\ now <= now
    BY <1>1, Constants
  <2>2. Return(p, e, "error", now, call[p].came)
    BY <1>4 DEF StateFails
  <2>3. entities' = entities
        \/ entities' = [entities EXCEPT ![e] = [kind |-> "error", said |-> now, fetched |-> now]]
    BY <1>4 DEF StateFails
  <2>4. entities' \in [Entities -> Entry]
    <3>1. [kind |-> "error", said |-> now, fetched |-> now] \in Entry
      BY <1>1, Constants DEF Entry
    <3> QED BY <1>2, <2>3, <3>1 DEF Good, TypeOK
  <2>5. Entries'
    <3> SUFFICES ASSUME NEW g \in Entities PROVE EntryOf(g)'
      BY DEF Entries
    <3>1. EntryOf(g)
      BY DEF Good, Entries
    <3>2. CASE entities'[g] = entities[g]
      BY <1>1, <3>1, <3>2 DEF EntryOf
    <3>3. CASE entities'[g] # entities[g]
      <4>1. entities'[g] = [kind |-> "error", said |-> now, fetched |-> now]
        BY <2>3, <3>3 DEF Good, TypeOK
      <4> QED BY <1>1, <2>1, <4>1, Constants DEF EntryOf
    <3> QED BY <3>2, <3>3
  <2>6. now \in Time /\ now - now < FailTTL
    BY <1>1, <2>1, Constants
  <2> QED BY <1>1, <1>2, <2>2, <2>4, <2>5, <2>6, ReturnKeeps DEF Good, TypeOK
<1> QED BY <1>3, <1>4

LEMMA SolarKeeps ==
  ASSUME Good, NEW p \in Callers, AsksSolar(p) \/ EntersSolar(p) \/ SolarArrives(p) \/ SolarFails(p)
  PROVE  Good'
<1>1. /\ now \in Clock /\ UNCHANGED <<entities, canceled, now>>
      /\ solar \in Solar /\ now \in Time /\ now <= now
  BY Constants DEF Good, TypeOK, AsksSolar, EntersSolar, SolarArrives, SolarFails
<1>2. solar.said \in Time /\ solar.errAt \in Time
  BY <1>1 DEF Solar
<1>3. Sun \in Entities \cup {Sun}
  OBVIOUS
<1>4. CASE AsksSolar(p)
  <2>1. LookUp(p, Sun, now, "queued")
    BY <1>4 DEF AsksSolar
  <2>2. UNCHANGED <<solar, solarMu>>
    BY <1>4 DEF AsksSolar
  <2> QED BY <1>1, <2>1, <2>2, LookUpKeeps, EntriesKept DEF Good, TypeOK
<1>5. CASE EntersSolar(p)
  <2>1. call[p].came \in Clock /\ call[p].came <= now
    BY <1>1, <1>5, Constants DEF EntersSolar, Good, Places, PlaceOf, Call
  <2>2. \/ Return(p, Sun, "value", solar.said, call[p].came)
        \/ Return(p, Sun, "error", solar.errAt, call[p].came)
        \/ LookUp(p, Sun, call[p].came, "readingSun")
    BY <1>5 DEF EntersSolar
  <2>3. solar' = solar /\ solarMu' \in BOOLEAN
    BY <1>5 DEF EntersSolar, Good, TypeOK
  <2> QED BY <1>1, <1>2, <2>1, <2>2, <2>3, ReturnKeeps, LookUpKeeps, EntriesKept
          DEF Good, TypeOK
<1>6. CASE SolarArrives(p) \/ SolarFails(p)
  <2>1. call[p].came \in Clock /\ call[p].said \in Time
    BY <1>6 DEF SolarArrives, SolarFails, Good, Places, PlaceOf, Call
  <2>2. \/ Return(p, Sun, "value", call[p].said, call[p].came)
        \/ Return(p, Sun, "value", solar.said, call[p].came)
        \/ Return(p, Sun, "error", now, call[p].came)
    BY <1>6 DEF SolarArrives, SolarFails
  <2>3. solar' \in Solar /\ solarMu' \in BOOLEAN
    <3>1. \/ solar' = [said |-> call[p].said, at |-> now, errAt |-> Never]
          \/ solar' = solar
          \/ solar' = [solar EXCEPT !.errAt = now]
      BY <1>6 DEF SolarArrives, SolarFails
    <3>2. [said |-> call[p].said, at |-> now, errAt |-> Never] \in Solar
      BY <1>1, <2>1, Constants DEF Solar
    <3>3. [solar EXCEPT !.errAt = now] \in Solar
      BY <1>1 DEF Solar
    <3>4. solarMu' = FALSE
      BY <1>6 DEF SolarArrives, SolarFails
    <3> QED BY <1>1, <3>1, <3>2, <3>3, <3>4
  <2> QED BY <1>1, <1>2, <2>1, <2>2, <2>3, ReturnKeeps, EntriesKept DEF Good, TypeOK
<1> QED BY <1>4, <1>5, <1>6

LEMMA TickKeeps ==
  ASSUME Good, Tick
  PROVE  Good'
<1>1. /\ now \in Clock /\ now' = now + 1 /\ now' \in Clock
      /\ UNCHANGED <<entities, solar, solarMu, pc, call, canceled, answer>>
  BY CacheAssumption DEF Good, TypeOK, Tick, Clock
<1>2. ASSUME NEW q \in Callers PROVE PlaceOf(q)'
  <2>1. PlaceOf(q) /\ Waiting(q)
    BY DEF Good, Places, Tick
  <2>2. CASE pc[q] = "idle"
    BY <1>1, <2>2 DEF PlaceOf
  <2>3. CASE pc[q] # "idle"
    <3>1. call[q] \in Call /\ call[q].came <= call[q].began /\ call[q].began <= now
      BY <2>1, <2>3 DEF PlaceOf
    <3>2. call[q].began \in Nat /\ call[q].came \in Nat /\ now \in Nat
          /\ (call[q].said # Never => call[q].said \in Nat)
      BY <1>1, <3>1, Constants DEF Call
    <3>3. call[q].began <= now'
      BY <1>1, <3>1, <3>2
    <3>4. ASSUME pc[q] \in {"reading", "readingSun"}
          PROVE  /\ now' - call[q].began <= LookupTimeout
                 /\ call[q].said # Never => call[q].began <= call[q].said /\ call[q].said <= now'
      <4>1. now - call[q].began < LookupTimeout
        BY <2>1, <3>4 DEF Waiting
      <4>2. call[q].said # Never => call[q].began <= call[q].said /\ call[q].said <= now
        BY <2>1, <3>4 DEF PlaceOf
      <4>3. now' - call[q].began <= LookupTimeout
        BY <1>1, <3>2, <4>1, Constants
      <4> QED BY <1>1, <3>2, <4>2, <4>3
    <3> QED BY <1>1, <2>1, <3>1, <3>3, <3>4 DEF PlaceOf
  <2> QED BY <2>2, <2>3
<1>3. ASSUME NEW e \in Entities PROVE EntryOf(e)'
  <2>1. EntryOf(e)
    BY DEF Good, Entries
  <2>2. entities'[e] = entities[e] /\ now \in Nat
    BY <1>1, Constants
  <2>3. entities[e].kind # "absent" => entities[e].fetched \in Nat
    BY <2>1, Constants DEF EntryOf
  <2> QED BY <1>1, <2>1, <2>2, <2>3 DEF EntryOf
<1>4. StateIsRecent'
  BY <1>1 DEF Good, StateIsRecent
<1> QED BY <1>1, <1>2, <1>3, <1>4 DEF Good, TypeOK, Places, Entries

LEMMA GoodStep ==
  ASSUME Good, [Next]_vars
  PROVE  Good'
<1>1. CASE Cancel \/ UNCHANGED vars
  <2>1. /\ UNCHANGED <<entities, solar, solarMu, pc, call, now, answer>>
        /\ canceled' \in BOOLEAN
    BY <1>1 DEF Cancel, vars, Good, TypeOK
  <2> QED BY <2>1 DEF Good, TypeOK, Places, PlaceOf, Entries, EntryOf, StateIsRecent
<1> QED BY <1>1, StateKeeps, SaysKeeps, StateEndsKeeps, SolarKeeps, TickKeeps
        DEF Next, GoesOn

LEMMA GoodInit ==
  ASSUME Init
  PROVE  Good
<1>1. TypeOK
  BY Constants DEF Init, TypeOK, Entry, Solar
<1>2. Places /\ Entries /\ StateIsRecent
  BY DEF Init, Places, PlaceOf, Entries, EntryOf, StateIsRecent
<1> QED BY <1>1, <1>2 DEF Good

\* Every variable of the cache keeps its type.
THEOREM CacheTypeCorrect == Spec => []TypeOK
<1>1. Good => TypeOK
  BY DEF Good
<1> QED BY <1>1, GoodInit, GoodStep, PTL DEF Spec

\* What State answers was so less than a TTL and one lookup ago, in whatever
\* order lookups of an entity end; an error less than FailTTL ago.
THEOREM StateRecent == Spec => []StateIsRecent
<1>1. Good => StateIsRecent
  BY DEF Good
<1> QED BY <1>1, GoodInit, GoodStep, PTL DEF Spec

-----------------------------------------------------------------------------
(***************************************************************************)
(* The wait for Solar.  A goroutine that queues behind a lookup came no    *)
(* earlier than that lookup began.  When it ends, either times or a        *)
(* failure are remembered from this very moment, and whoever enters next   *)
(* answers from them: no second lookup is ever waited for.                 *)
(***************************************************************************)
Reads(p) == pc[p] = "readingSun"

\* Why q has not waited longer than one lookup.
Excused(q) ==
  \/ canceled
  \/ call[q].came = now
  \/ \E p \in Callers : Reads(p) /\ call[p].began <= call[q].came
  \/ ~solarMu /\ (solar.at = now \/ solar.errAt = now)

Mutex ==
  /\ solarMu => \E p \in Callers : Reads(p)
  /\ \A p \in Callers : Reads(p) => solarMu
  /\ \A p, q \in Callers : Reads(p) /\ Reads(q) => p = q

Lookups == \A p \in Callers : Reads(p) => canceled \/ call[p].came = call[p].began
Queue   == \A q \in Callers : pc[q] = "queued" => Excused(q)

Orderly == Mutex /\ Lookups /\ Queue

\* State leaves the sun alone.
LEMMA StateOrderly ==
  ASSUME Good, Orderly, NEW p \in Callers,
         (\E e \in Entities : State(p, e)) \/ StateArrives(p) \/ StateFails(p)
  PROVE  Orderly'
<1>1. /\ UNCHANGED <<solar, solarMu, canceled, now>>
      /\ ~Reads(p) /\ ~Reads(p)' /\ pc[p] # "queued" /\ pc'[p] # "queued"
  BY DEF State, StateArrives, StateFails, Return, LookUp, Reads, Good, TypeOK
<1>2. \A q \in Callers : q # p => pc'[q] = pc[q] /\ call'[q] = call[q]
  BY DEF State, StateArrives, StateFails, Return, LookUp, Good, TypeOK
<1>3. Mutex'
  BY <1>1, <1>2 DEF Orderly, Mutex, Reads
<1>4. Lookups'
  BY <1>1, <1>2 DEF Orderly, Lookups, Reads
<1>5. Queue'
  BY <1>1, <1>2 DEF Orderly, Queue, Excused, Reads
<1> QED BY <1>3, <1>4, <1>5 DEF Orderly

LEMMA SaysOrderly ==
  ASSUME Good, Orderly, NEW p \in Callers, Says(p)
  PROVE  Orderly'
<1>1. UNCHANGED <<solar, solarMu, pc, canceled, now>>
  BY DEF Says
<1>2. \A q \in Callers : call'[q].came = call[q].came /\ call'[q].began = call[q].began
  <2>1. call[p] \in Call /\ call \in [Callers -> Call \cup {None}]
    BY DEF Says, Good, TypeOK, Places, PlaceOf
  <2> QED BY <2>1 DEF Says, Call
<1> QED BY <1>1, <1>2 DEF Orderly, Mutex, Lookups, Queue, Excused, Reads

LEMMA AsksOrderly ==
  ASSUME Good, Orderly, NEW p \in Callers, AsksSolar(p)
  PROVE  Orderly'
<1>1. /\ UNCHANGED <<solar, solarMu, canceled, now>>
      /\ ~Reads(p) /\ ~Reads(p)' /\ call'[p].came = now
  BY DEF AsksSolar, LookUp, Reads, Good, TypeOK
<1>2. \A q \in Callers : q # p => pc'[q] = pc[q] /\ call'[q] = call[q]
  BY DEF AsksSolar, LookUp, Good, TypeOK
<1>3. Mutex'
  BY <1>1, <1>2 DEF Orderly, Mutex, Reads
<1>4. Lookups'
  BY <1>1, <1>2 DEF Orderly, Lookups, Reads
<1>5. Queue'
  BY <1>1, <1>2 DEF Orderly, Queue, Excused, Reads
<1> QED BY <1>3, <1>4, <1>5 DEF Orderly

LEMMA EntersOrderly ==
  ASSUME Good, Orderly, NEW p \in Callers, EntersSolar(p)
  PROVE  Orderly'
<1>1. /\ UNCHANGED <<solar, canceled, now>> /\ ~solarMu /\ pc[p] = "queued"
      /\ \A q \in Callers : ~Reads(q)
  BY DEF EntersSolar, Orderly, Mutex
<1>2. \A q \in Callers : q # p => pc'[q] = pc[q] /\ call'[q] = call[q]
  BY DEF EntersSolar, Return, LookUp, Good, TypeOK
<1>3. CASE solarMu' = FALSE /\ pc'[p] = "idle"
  BY <1>1, <1>2, <1>3 DEF Orderly, Mutex, Lookups, Queue, Excused, Reads
<1>4. CASE /\ ~SolarIsFresh /\ ~FailedLately
           /\ LookUp(p, Sun, call[p].came, "readingSun") /\ solarMu' = TRUE
  <2>1. solar.at # now /\ solar.errAt # now
    <3>1. now \in Nat /\ now # Never /\ now - now = 0
      BY Constants DEF Good, TypeOK
    <3> QED BY <1>4, <3>1, Constants DEF SolarIsFresh, HaveLast, FailedLately
  <2>2. \A q \in Callers : pc[q] = "queued" => canceled \/ call[q].came = now
    BY <1>1, <2>1 DEF Orderly, Queue, Excused
  <2>3. pc'[p] = "readingSun" /\ call'[p].came = call[p].came /\ call'[p].began = now
    BY <1>4 DEF LookUp, Good, TypeOK
  <2>4. Mutex'
    BY <1>1, <1>2, <1>4, <2>3 DEF Mutex, Reads
  <2>5. Lookups'
    BY <1>1, <1>2, <2>2, <2>3 DEF Lookups, Reads
  <2>6. Queue'
    BY <1>1, <1>2, <2>2, <2>3 DEF Queue, Excused
  <2> QED BY <2>4, <2>5, <2>6 DEF Orderly
<1> QED BY <1>1, <1>3, <1>4 DEF EntersSolar, Return, Good, TypeOK

LEMMA EndsOrderly ==
  ASSUME Good, Orderly, NEW p \in Callers, SolarArrives(p) \/ SolarFails(p)
  PROVE  Orderly'
<1>1. /\ UNCHANGED <<canceled, now>> /\ ~solarMu' /\ Reads(p) /\ pc'[p] = "idle"
  BY DEF SolarArrives, SolarFails, Return, Reads, Good, TypeOK
<1>2. \A q \in Callers : q # p => pc'[q] = pc[q] /\ call'[q] = call[q]
  BY DEF SolarArrives, SolarFails, Return, Good, TypeOK
<1>3. canceled \/ solar'.at = now \/ solar'.errAt = now
  BY DEF SolarArrives, SolarFails, Good, TypeOK, Solar
<1>4. \A q \in Callers : ~Reads(q)'
  BY <1>1, <1>2 DEF Orderly, Mutex, Reads
<1>5. Mutex' /\ Lookups'
  BY <1>1, <1>4 DEF Mutex, Lookups
<1>6. Queue'
  BY <1>1, <1>3 DEF Queue, Excused
<1> QED BY <1>5, <1>6 DEF Orderly

\* When time passes, whoever queues does so behind a lookup.
LEMMA TickOrderly ==
  ASSUME Good, Orderly, Tick
  PROVE  /\ Orderly'
         /\ \A q \in Callers : pc[q] # "idle" => now - call[q].came < LookupTimeout
<1>1. UNCHANGED <<solar, solarMu, pc, call, canceled>> /\ now' = now + 1 /\ now \in Nat
  BY Constants DEF Tick, Good, TypeOK
<1>2. \A q \in Callers : Waiting(q)
  BY DEF Tick
<1>3. \A q \in Callers : pc[q] # "idle" => call[q].came \in Nat /\ call[q].began \in Nat
  BY Constants DEF Good, Places, PlaceOf, Call
<1>4. \A q \in Callers : pc[q] \in {"reading", "readingSun"} =>
        /\ ~canceled /\ call[q].came = call[q].began
        /\ now - call[q].began < LookupTimeout
  BY <1>2 DEF Waiting, Orderly, Lookups, Reads, Good, Places, PlaceOf
<1>5. ASSUME NEW q \in Callers, pc[q] = "queued"
      PROVE  \E p \in Callers : Reads(p) /\ call[p].began <= call[q].came
  <2>1. solarMu
    BY <1>2, <1>5 DEF Waiting
  <2>2. PICK p \in Callers : Reads(p)
    BY <2>1 DEF Orderly, Mutex
  <2>3. ~canceled /\ call[p].began <= now
    BY <1>4, <2>2 DEF Reads, Good, Places, PlaceOf
  <2> QED BY <1>5, <2>1, <2>2, <2>3 DEF Orderly, Queue, Excused
<1>6. ASSUME NEW q \in Callers, pc[q] # "idle" PROVE now - call[q].came < LookupTimeout
  <2>1. CASE pc[q] \in {"reading", "readingSun"}
    BY <1>4, <2>1
  <2>2. CASE pc[q] = "queued"
    <3>1. PICK p \in Callers : Reads(p) /\ call[p].began <= call[q].came
      BY <1>5, <2>2
    <3>2. now - call[p].began < LookupTimeout /\ call[p].began \in Nat
      BY <1>3, <1>4, <3>1 DEF Reads
    <3>3. call[q].came \in Nat
      BY <1>3, <1>6
    <3> QED BY <1>1, <3>1, <3>2, <3>3, Constants
  <2> QED BY <1>6, <2>1, <2>2 DEF Good, TypeOK
<1>7. Mutex' /\ Lookups'
  BY <1>1 DEF Orderly, Mutex, Lookups, Reads
<1>8. Queue'
  BY <1>1, <1>5 DEF Queue, Excused, Reads
<1> QED BY <1>6, <1>7, <1>8 DEF Orderly

LEMMA OrderlyStep ==
  ASSUME Good, Orderly, [Next]_vars
  PROVE  Orderly'
<1>1. CASE Cancel \/ UNCHANGED vars
  <2>1. UNCHANGED <<solar, solarMu, pc, call, now>> /\ (canceled => canceled')
    BY <1>1 DEF Cancel, vars
  <2> QED BY <2>1 DEF Orderly, Mutex, Lookups, Queue, Excused, Reads
<1> QED BY <1>1, StateOrderly, SaysOrderly, AsksOrderly, EntersOrderly, EndsOrderly, TickOrderly
        DEF Next, GoesOn

LEMMA WaitStep ==
  ASSUME Good, Orderly, WaitIsBounded, [Next]_vars
  PROVE  WaitIsBounded'
<1>1. now \in Nat /\ now - now <= LookupTimeout
  BY Constants DEF Good, TypeOK
<1>2. CASE Tick
  <2>1. UNCHANGED <<pc, call, answer>> /\ now' = now + 1
    BY <1>2 DEF Tick
  <2>2. ASSUME NEW q \in Callers, pc[q] # "idle" PROVE now' - call[q].came <= LookupTimeout
    <3>1. now - call[q].came < LookupTimeout
      BY <1>2, <2>2, TickOrderly
    <3>2. call[q].came \in Nat
      BY <2>2, Constants DEF Good, Places, PlaceOf, Call
    <3> QED BY <1>1, <2>1, <3>1, <3>2, Constants
  <2> QED BY <2>1, <2>2 DEF WaitIsBounded
<1>3. ASSUME NEW p \in Callers, NEW of, NEW kind, NEW said, NEW came,
             Return(p, of, kind, said, came), now - came <= LookupTimeout, now' = now
      PROVE  WaitIsBounded'
  <2>1. answer'.at = now /\ answer'.came = came
    BY <1>3 DEF Return
  <2>2. \A q \in Callers : pc'[q] # "idle" => pc[q] # "idle" /\ call'[q] = call[q]
    BY <1>3 DEF Return, Good, TypeOK
  <2> QED BY <1>3, <2>1, <2>2 DEF WaitIsBounded
<1>4. ASSUME NEW p \in Callers, NEW of, NEW came, NEW at,
             LookUp(p, of, came, at), now - came <= LookupTimeout, now' = now
      PROVE  WaitIsBounded'
  <2>1. \A q \in Callers : \/ pc'[q] = pc[q] /\ call'[q] = call[q]
                           \/ call'[q].came = came
    BY <1>4 DEF LookUp, Good, TypeOK
  <2>2. answer' = answer
    BY <1>4 DEF LookUp
  <2> QED BY <1>4, <2>1, <2>2 DEF WaitIsBounded
<1>5. ASSUME NEW p \in Callers, NEW e \in Entities, State(p, e) PROVE WaitIsBounded'
  BY <1>1, <1>3, <1>4, <1>5 DEF State
<1>6. ASSUME NEW p \in Callers, AsksSolar(p) PROVE WaitIsBounded'
  BY <1>1, <1>4, <1>6 DEF AsksSolar
<1>7. ASSUME NEW p \in Callers,
             StateArrives(p) \/ StateFails(p) \/ EntersSolar(p) \/ SolarArrives(p) \/ SolarFails(p)
      PROVE  WaitIsBounded'
  <2>1. pc[p] # "idle" /\ now' = now
    BY <1>7 DEF StateArrives, StateFails, EntersSolar, SolarArrives, SolarFails
  <2>2. now - call[p].came <= LookupTimeout
    BY <2>1 DEF WaitIsBounded
  <2> QED BY <1>3, <1>4, <1>7, <2>1, <2>2
          DEF StateArrives, StateFails, EntersSolar, SolarArrives, SolarFails
<1>8. ASSUME NEW p \in Callers, Says(p) PROVE WaitIsBounded'
  <2>1. UNCHANGED <<pc, now, answer>>
    BY <1>8 DEF Says
  <2>2. \A q \in Callers : call'[q].came = call[q].came
    <3>1. call[p] \in Call /\ call \in [Callers -> Call \cup {None}]
      BY <1>8 DEF Says, Good, TypeOK, Places, PlaceOf
    <3> QED BY <1>8, <3>1 DEF Says, Call
  <2> QED BY <2>1, <2>2 DEF WaitIsBounded
<1>9. CASE Cancel \/ UNCHANGED vars
  BY <1>9 DEF Cancel, vars, WaitIsBounded
<1> QED BY <1>2, <1>5, <1>6, <1>7, <1>8, <1>9 DEF Next, GoesOn

\* No call waits for more than one lookup, however many goroutines queue for
\* Solar's mutex.
THEOREM WaitBounded == Spec => []WaitIsBounded
<1>1. Init => Orderly /\ WaitIsBounded
  BY DEF Init, Orderly, Mutex, Lookups, Queue, Reads, WaitIsBounded
<1>2. Init => Good
  BY GoodInit
<1>3. Good /\ [Next]_vars => Good'
  BY GoodStep
<1>4. Good /\ Orderly /\ [Next]_vars => Orderly'
  BY OrderlyStep
<1>5. Good /\ Orderly /\ WaitIsBounded /\ [Next]_vars => WaitIsBounded'
  BY WaitStep
<1> QED BY <1>1, <1>2, <1>3, <1>4, <1>5, PTL DEF Spec

-----------------------------------------------------------------------------
(***************************************************************************)
(* What Solar answers.  Times it keeps were said within a lookup of being  *)
(* fetched, so they are older than that only when they were not fetched    *)
(* again, which a failure is the one reason for.                           *)
(***************************************************************************)
SolarKept ==
  solar.at # Never =>
    /\ solar.at \in Clock /\ solar.said \in Clock /\ solar.at <= now
    /\ solar.at - solar.said <= LookupTimeout

\* What arrives now was said within the lookup.
LEMMA ArrivesInTime ==
  ASSUME Good, NEW p \in Callers, SolarArrives(p)
  PROVE  /\ now \in Nat /\ call[p].said \in Clock
         /\ call[p].said <= now /\ now - call[p].said <= LookupTimeout
<1>1. /\ pc[p] = "readingSun" /\ call[p].said # Never /\ now \in Nat /\ now \in Clock
      /\ PlaceOf(p)
  BY Constants DEF SolarArrives, Good, TypeOK, Places
<1>2. /\ call[p] \in Call /\ now - call[p].began <= LookupTimeout
      /\ call[p].began <= call[p].said /\ call[p].said <= now
  BY <1>1 DEF PlaceOf
<1>3. call[p].said \in Clock /\ call[p].said \in Nat /\ call[p].began \in Nat
  BY <1>1, <1>2, Constants DEF Call
<1> QED BY <1>1, <1>2, <1>3, Constants

LEMMA SolarKeptStep ==
  ASSUME Good, SolarKept, [Next]_vars
  PROVE  SolarKept'
<1>1. CASE solar' = solar /\ now' = now
  BY <1>1 DEF SolarKept
<1>2. CASE Tick
  <2>1. solar' = solar /\ now' = now + 1 /\ now \in Nat
    BY <1>2, Constants DEF Tick, Good, TypeOK
  <2>2. solar.at \in Clock => solar.at \in Nat
    BY Constants
  <2> QED BY <2>1, <2>2 DEF SolarKept
<1>3. ASSUME NEW p \in Callers, SolarArrives(p) PROVE SolarKept'
  <2>1. solar' = [said |-> call[p].said, at |-> now, errAt |-> Never] /\ now' = now
    BY <1>3 DEF SolarArrives
  <2>2. now \in Clock /\ now <= now
    BY <1>3, ArrivesInTime DEF Good, TypeOK
  <2> QED BY <1>3, <2>1, <2>2, ArrivesInTime DEF SolarKept
<1>4. ASSUME NEW p \in Callers, SolarFails(p) PROVE SolarKept'
  <2>1. solar'.at = solar.at /\ solar'.said = solar.said /\ now' = now
    BY <1>4 DEF SolarFails, Good, TypeOK, Solar
  <2> QED BY <2>1 DEF SolarKept
<1>5. \/ solar' = solar /\ now' = now
      \/ Tick
      \/ \E p \in Callers : SolarArrives(p) \/ SolarFails(p)
  BY DEF Next, GoesOn, State, AsksSolar, Says, StateArrives, StateFails, EntersSolar,
         Cancel, vars
<1> QED BY <1>1, <1>2, <1>3, <1>4, <1>5

\* Only the steps that end a call of Solar change what it last answered.
LEMMA SolarAnswered ==
  ASSUME Good, [Next]_vars, answer' # answer, answer'.of = Sun
  PROVE  \E p \in Callers : EntersSolar(p) \/ SolarArrives(p) \/ SolarFails(p)
<1>1. ASSUME NEW p \in Callers, NEW e \in Entities, State(p, e) PROVE FALSE
  BY <1>1, Constants DEF State, Return, LookUp
<1>2. ASSUME NEW p \in Callers, StateArrives(p) \/ StateFails(p) PROVE FALSE
  <2>1. call[p].of \in Entities /\ answer'.of = call[p].of
    BY <1>2 DEF StateArrives, StateFails, Return, Good, Places, PlaceOf
  <2> QED BY <2>1, Constants
<1>3. ASSUME NEW p \in Callers, AsksSolar(p) \/ Says(p) PROVE FALSE
  BY <1>3 DEF AsksSolar, LookUp, Says
<1>4. ~Tick /\ ~Cancel /\ ~UNCHANGED vars
  BY DEF Tick, Cancel, vars
<1> QED BY <1>1, <1>2, <1>3, <1>4 DEF Next, GoesOn

\* A good time is old, or there is none, only while Home Assistant fails.
LEMMA SolarBestStep ==
  ASSUME Good, SolarKept, [Next]_vars, answer' # answer, answer'.of = Sun
  PROVE  /\ answer'.kind = "value" /\ now - answer'.said >= SolarTTL + LookupTimeout
            => canceled \/ (solar'.errAt # Never /\ now - solar'.errAt < FailTTL)
         /\ solar.at # Never => answer'.kind = "value"
<1>1. PICK p \in Callers : EntersSolar(p) \/ SolarArrives(p) \/ SolarFails(p)
  BY SolarAnswered
<1>2. now \in Nat /\ now # Never /\ now - now = 0
  BY Constants DEF Good, TypeOK
<1>3. CASE EntersSolar(p)
  <2>1. solar' = solar
    BY <1>3 DEF EntersSolar
  <2>2. CASE SolarIsFresh
    <3>1. answer'.kind = "value" /\ answer'.said = solar.said
      BY <1>3, <2>2 DEF EntersSolar, Return
    <3>2. /\ now - solar.at < SolarTTL /\ solar.at - solar.said <= LookupTimeout
          /\ solar.at \in Nat /\ solar.said \in Nat
      BY <2>2, Constants DEF SolarIsFresh, HaveLast, SolarKept
    <3> QED BY <1>2, <3>1, <3>2, Constants
  <2>3. CASE ~SolarIsFresh /\ FailedLately
    <3>1. solar.errAt # Never /\ now - solar.errAt < FailTTL
      BY <2>3 DEF FailedLately
    <3>2. HaveLast => answer'.kind = "value"
      BY <1>3, <2>3 DEF EntersSolar, Return
    <3> QED BY <2>1, <3>1, <3>2 DEF HaveLast
  <2>4. CASE ~SolarIsFresh /\ ~FailedLately
    BY <1>3, <2>4 DEF EntersSolar, LookUp
  <2> QED BY <2>2, <2>3, <2>4
<1>4. CASE SolarArrives(p)
  <2>1. answer'.kind = "value" /\ answer'.said = call[p].said
    BY <1>4 DEF SolarArrives, Return
  <2>2. now - call[p].said <= LookupTimeout /\ call[p].said \in Nat
    BY <1>4, ArrivesInTime, Constants
  <2> QED BY <1>2, <2>1, <2>2, Constants
<1>5. CASE SolarFails(p)
  <2>1. HaveLast => answer'.kind = "value"
    BY <1>5 DEF SolarFails, Return
  <2>2. ~canceled => solar'.errAt = now
    BY <1>5 DEF SolarFails, Good, TypeOK, Solar
  <2> QED BY <1>2, <2>1, <2>2, Constants DEF HaveLast
<1> QED BY <1>1, <1>3, <1>4, <1>5

\* Solar gives the best answer there is: an old time only during an outage that
\* was noticed less than FailTTL ago, and never an error once a time is known.
THEOREM SolarAnswersBest == Spec => SolarAnswersItsBest
<1>1. Init => SolarKept
  BY DEF Init, SolarKept
<1>2. Init => Good
  BY GoodInit
<1>3. Good /\ [Next]_vars => Good'
  BY GoodStep
<1>4. Good /\ SolarKept /\ [Next]_vars => SolarKept'
  BY SolarKeptStep
<1>5. Good /\ SolarKept /\ [Next]_vars =>
        [answer' # answer /\ answer'.of = Sun =>
           /\ answer'.kind = "value" /\ now - answer'.said >= SolarTTL + LookupTimeout
              => canceled \/ (solar'.errAt # Never /\ now - solar'.errAt < FailTTL)
           /\ solar.at # Never => answer'.kind = "value"]_vars
  BY SolarBestStep
<1> QED BY <1>1, <1>2, <1>3, <1>4, <1>5, PTL DEF Spec, SolarAnswersItsBest
=============================================================================
