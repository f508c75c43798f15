--------------------------- MODULE BackendsProofs ---------------------------
(***************************************************************************)
(* Every backend implements KeyValue, and a claim is only won while nobody *)
(* holds it, for every set of callers and keys, every TTL and every length *)
(* of a call up to it.                                                     *)
(*                                                                         *)
(* The invariant behind both: a call judges expiry by an instant of its    *)
(* own time, and it lasts no longer than a key does.  So the document that *)
(* makes an insert collide was written too late to have expired when the   *)
(* insert's call began, and a lost claim was held at that instant.         *)
(***************************************************************************)
EXTENDS Backends, TLAPS

\* A record of a call; its fields may be anything.
IsCall(c) ==
  \E S : c \in [at : S, op : S, key : S, val : S, since : S, answer : S, now : S, attempt : S]

\* What the variables are; the values of the keys may be anything.
Types ==
  /\ backend \in {"memory", "redis", "postgres", "mongo"}
  /\ clock \in Nat
  /\ rows = [k \in Keys |-> rows[k]]
  /\ \A k \in Keys : rows[k].expires \in Nat
  /\ calls = [p \in Callers |-> calls[p]]
  /\ \A p \in Callers : IsCall(calls[p])

\* A call at work has its instants in order, and is within its time.
InTime(c) ==
  /\ c.key \in Keys /\ c.op \in Operations(c.key)
  /\ c.since \in Nat /\ c.now \in Nat
  /\ c.since <= c.now /\ c.now <= clock /\ clock - c.since <= CallTime

\* Only an upsert takes two steps.
TwoSteps(c) == c.at \in {"updating", "inserting"} => Upserts(c)

\* What stands in the way of a claim's insert was held when its call began.
Meets(c) ==
  c.at = "inserting" /\ c.op = "SetNX" /\ Holds(c.key) => rows[c.key].expires >= c.since

CallOK(c) == Working(c) => InTime(c) /\ TwoSteps(c) /\ Meets(c)

Calls == \A p \in Callers : CallOK(calls[p])

IInv == Types /\ Calls

-----------------------------------------------------------------------------
\* What a step may leave of the rows: old ones, none, and ones that last for at
\* least as long as a call still may.
Lasting(r) ==
  /\ r = [k \in Keys |-> r[k]]
  /\ \A k \in Keys : r[k].expires \in Nat /\ (r[k] \in {rows[k], NoRow} \/ r[k].expires >= clock)

LEMMA PutLasts ==
  ASSUME BackendsAssumption, Types, NEW k \in Keys, NEW v, NEW now \in Nat,
         now <= clock, clock - now <= TTL
  PROVE  Lasting(Put(k, v, now))
<1> DEFINE r == Put(k, v, now)
<1>1. r = [j \in Keys |-> r[j]]
  BY DEF Types, Put
<1>2. \A j \in Keys : IF j = k THEN r[j].expires = now + TTL ELSE r[j] = rows[j]
  BY DEF Types, Put
<1>3. now + TTL \in Nat /\ now + TTL >= clock
  BY DEF BackendsAssumption, Types
<1> QED BY <1>1, <1>2, <1>3 DEF Lasting, Types

LEMMA DropLasts ==
  ASSUME Types, NEW r, Lasting(r), NEW gone
  PROVE  Lasting(Dropped(r, gone))
  BY DEF Lasting, Dropped, NoRow

LEMMA RowsLast == ASSUME Types PROVE Lasting(rows)
  BY DEF Types, Lasting

\* Whatever a call does at an instant of its time.
LEMMA EffectLasts ==
  ASSUME BackendsAssumption, Types, NEW c, InTime(c), NEW now \in Nat,
         c.since <= now, now <= clock
  PROVE  Lasting(Effect(c, now))
<1>1. clock - now <= TTL
  BY DEF InTime, BackendsAssumption, Types
<1>2. \A v : Lasting(Put(c.key, v, now))
  BY <1>1, PutLasts DEF InTime
<1>3. \A v : Lasting(Swept(Put(c.key, v, now)))
  BY <1>2, DropLasts DEF Swept
<1>4. Lasting(Peeked(c.key))
  BY RowsLast, DropLasts DEF Peeked
<1>5. Lasting(Dropped(rows, {c.key}))
  BY RowsLast, DropLasts
<1>6. c.op \in {"SetNX", "Get", "Set", "Del", "Incr"}
  BY DEF InTime, Operations
<1> QED BY <1>2, <1>3, <1>4, <1>5, <1>6, RowsLast DEF Effect

\* A step of one call that keeps to this keeps the invariant: the other calls'
\* obstacles are the old ones or younger than the calls.
LEMMA Kept ==
  ASSUME BackendsAssumption, IInv, UNCHANGED <<backend, clock>>, Lasting(rows'),
         NEW p \in Callers, IsCall(calls[p])', CallOK(calls[p])',
         calls' = [q \in Callers |-> IF q = p THEN calls'[p] ELSE calls[q]]
  PROVE  IInv'
<1>1. Types'
  BY DEF IInv, Types, Lasting
<1>2. ASSUME NEW q \in Callers PROVE CallOK(calls[q])'
  <2>1. CASE q = p
    BY <2>1
  <2>2. CASE q # p
    <3>1. calls'[q] = calls[q]
      BY <2>2
    <3>2. SUFFICES ASSUME Working(calls[q])
                   PROVE  InTime(calls[q])' /\ TwoSteps(calls[q])' /\ Meets(calls[q])'
      BY <3>1 DEF CallOK, Working
    <3>3. InTime(calls[q]) /\ TwoSteps(calls[q]) /\ Meets(calls[q])
      BY <3>2 DEF IInv, Calls, CallOK
    <3>4. rows'[calls[q].key] \in {rows[calls[q].key], NoRow}
            \/ rows'[calls[q].key].expires >= clock
      BY <3>3 DEF InTime, Lasting
    <3>5. clock >= calls[q].since
      BY <3>3 DEF InTime, IInv, Types
    <3>6. rows'[calls[q].key].expires \in Nat
      BY <3>3 DEF InTime, Lasting
    <3>7. Meets(calls[q])'
      BY <3>1, <3>3, <3>4, <3>5, <3>6 DEF Meets, InTime, Holds, IInv, Types
    <3>8. InTime(calls[q])' /\ TwoSteps(calls[q])'
      BY <3>1, <3>3 DEF InTime, TwoSteps, Upserts
    <3> QED BY <3>7, <3>8
  <2> QED BY <2>1, <2>2
<1> QED BY <1>1, <1>2 DEF IInv, Calls

\* A step of the backend alone.
LEMMA KeptBySweep ==
  ASSUME BackendsAssumption, IInv, UNCHANGED <<backend, clock, calls>>, NEW gone,
         rows' = Dropped(rows, gone)
  PROVE  IInv'
<1>1. Lasting(rows')
  BY RowsLast, DropLasts DEF IInv
<1>2. Types'
  BY <1>1 DEF IInv, Types, Lasting
<1>3. \A k \in Keys : rows'[k] \in {rows[k], NoRow}
  BY DEF Dropped
<1>4. Calls'
  BY <1>3 DEF IInv, Calls, CallOK, Working, InTime, TwoSteps, Upserts, Meets, Holds
<1> QED BY <1>2, <1>4 DEF IInv

-----------------------------------------------------------------------------
(***************************************************************************)
(* What a call does at an instant of its time is what KeyValue performs.   *)
(***************************************************************************)
LEMMA CallFields ==
  ASSUME NEW c, IsCall(c), NEW a
  PROVE  /\ IsCall(Answered(c, a)) /\ ~Working(Answered(c, a))
         /\ AsCall(Answered(c, a)) = KV!Answered(AsCall(c), a)
<1> DEFINE d == Answered(c, a)
<1>1. PICK S : c \in [at : S, op : S, key : S, val : S, since : S, answer : S,
                      now : S, attempt : S]
  BY DEF IsCall
<1> DEFINE T == S \cup {"answered", a}
<1>2. d \in [at : T, op : T, key : T, val : T, since : T, answer : T, now : T, attempt : T]
  BY <1>1 DEF Answered
<1>3. /\ d.at = "answered" /\ d.op = c.op /\ d.key = c.key /\ d.val = c.val
      /\ d.since = c.since /\ d.answer = a
  BY <1>1 DEF Answered
<1> HIDE DEF d
<1>4. IsCall(d) /\ ~Working(d)
  BY <1>2, <1>3 DEF IsCall, Working
<1>5. AsCall(d) = KV!Answered(AsCall(c), a)
  BY <1>3 DEF AsCall, Working, KV!Answered
<1> QED BY <1>4, <1>5 DEF d

\* The key is there unless it is gone, and then it has not expired at the
\* instant the call judges by.
LEMMA FoundAsJudged ==
  ASSUME Types, NEW k \in Keys, NEW now \in Nat
  PROVE  KV!Found(k, now, ~Gone(k, now))
  BY DEF KV!Found, KV!Absent, NoRow, Gone, Holds, Expired, Types

\* A sweep takes expired entries only.
LEMMA SweptForgets ==
  ASSUME NEW r, r = [k \in Keys |-> r[k]], \A k \in Keys : r[k].expires \in Nat,
         clock \in Nat
  PROVE  \E gone \in SUBSET KV!Expired(r) : Swept(r) = KV!Forgets(r, gone)
<1>1. CASE Swept(r) = r
  <2>1. r = KV!Forgets(r, {})
    BY DEF KV!Forgets
  <2> QED BY <1>1, <2>1
<1>2. CASE Swept(r) # r
  <2> DEFINE gone == {k \in Keys : clock > r[k].expires}
  <2>1. Swept(r) = KV!Forgets(r, gone)
    BY <1>2 DEF Swept, Dropped, KV!Forgets, KV!Absent, NoRow
  <2>2. gone \in SUBSET KV!Expired(r)
    BY DEF KV!Expired
  <2> QED BY <2>1, <2>2
<1> QED BY <1>1, <1>2

LEMMA EffectIsAfter ==
  ASSUME BackendsAssumption, Types, NEW c, InTime(c), NEW now \in Nat,
         c.since <= now, now <= clock
  PROVE  LET t == KV!After(AsCall(c), now, ~Gone(c.key, now)) IN
         \E gone \in SUBSET KV!Expired(t) : Effect(c, now) = KV!Forgets(t, gone)
<1> DEFINE t == KV!After(AsCall(c), now, ~Gone(c.key, now))
<1>a. AsCall(c).op = c.op /\ AsCall(c).key = c.key /\ AsCall(c).val = c.val
  BY DEF AsCall
<1>b. c.key \in Keys /\ c.op \in {"SetNX", "Get", "Set", "Del", "Incr"}
  BY DEF InTime, Operations
<1>c. rows = KV!Forgets(rows, {})
  BY DEF KV!Forgets, Types
<1>d. \A v : KV!Put(c.key, v, now) = Put(c.key, v, now)
  BY DEF KV!Put, Put
<1>e. \A v : Put(c.key, v, now) = KV!Forgets(Put(c.key, v, now), {})
  BY DEF KV!Forgets, Put, Types
<1>1. CASE c.op = "SetNX"
  <2>1. CASE Gone(c.key, now)
    <3>1. t = Put(c.key, c.val, now) /\ Effect(c, now) = Swept(t)
      BY <1>1, <1>a, <1>d, <2>1 DEF KV!After, Effect
    <3>2. Lasting(t)
      BY <1>b, <3>1, PutLasts DEF InTime, BackendsAssumption, Types
    <3> QED BY <3>1, <3>2, SweptForgets DEF Lasting, Types
  <2>2. CASE ~Gone(c.key, now)
    <3>1. t = rows /\ Effect(c, now) = rows
      BY <1>1, <1>a, <2>2 DEF KV!After, Effect
    <3> QED BY <3>1, <1>c
  <2> QED BY <2>1, <2>2
<1>2. CASE c.op = "Get"
  <2>1. t = rows /\ Effect(c, now) = Peeked(c.key)
    BY <1>2, <1>a DEF KV!After, Effect
  <2>2. CASE Peeked(c.key) = rows
    BY <2>1, <2>2, <1>c
  <2>3. CASE Peeked(c.key) # rows
    <3>1. Peeked(c.key) = KV!Forgets(rows, {c.key}) /\ Expired(c.key, clock)
      BY <2>3 DEF Peeked, Dropped, KV!Forgets, KV!Absent, NoRow
    <3>2. c.key \in KV!Expired(rows)
      BY <3>1, <1>b DEF KV!Expired, Expired, Types
    <3> QED BY <2>1, <3>1, <3>2
  <2> QED BY <2>2, <2>3
<1>3. CASE c.op = "Set"
  <2>1. t = Put(c.key, c.val, now) /\ Effect(c, now) = t
    BY <1>3, <1>a, <1>d DEF KV!After, Effect
  <2> QED BY <2>1, <1>e
<1>4. CASE c.op = "Del"
  <2>1. t = [rows EXCEPT ![c.key] = NoRow] /\ Effect(c, now) = Dropped(rows, {c.key})
    BY <1>4, <1>a DEF KV!After, Effect, KV!Absent, NoRow
  <2>2. Dropped(rows, {c.key}) = KV!Forgets(t, {})
    BY <2>1, <1>b DEF Dropped, KV!Forgets, Types
  <2> QED BY <2>1, <2>2
<1>5. CASE c.op = "Incr"
  <2>1. t = Put(c.key, Counted(c.key, now), now) /\ Effect(c, now) = t
    BY <1>5, <1>a, <1>d DEF KV!After, Effect, Counted, KV!NextCount
  <2> QED BY <2>1, <1>e
<1> QED BY <1>1, <1>2, <1>3, <1>4, <1>5, <1>b

LEMMA TakesEffectAsJudged ==
  ASSUME BackendsAssumption, Types, NEW c, InTime(c), NEW now \in Nat,
         c.since <= now, now <= clock, rows' = Effect(c, now)
  PROVE  KV!TakesEffect(AsCall(c), now, ~Gone(c.key, now))
<1>1. AsCall(c).key = c.key
  BY DEF AsCall
<1>2. KV!Found(AsCall(c).key, now, ~Gone(c.key, now))
  BY <1>1, FoundAsJudged DEF InTime
<1> QED BY <1>2, EffectIsAfter DEF KV!TakesEffect

LEMMA ReplyIsReply ==
  ASSUME NEW c, InTime(c), NEW now, NEW a \in Replies(c, now)
  PROVE  a \in {KV!Reply(AsCall(c), ~Gone(c.key, now)), Error}
<1>1. Reply(c, now) = KV!Reply(AsCall(c), ~Gone(c.key, now))
  <2>1. AsCall(c).op = c.op /\ AsCall(c).key = c.key
    BY DEF AsCall
  <2>2. c.op \in {"SetNX", "Get", "Set", "Del", "Incr"}
    BY DEF InTime, Operations
  <2>3. CASE c.op = "SetNX"
    <3>1. Reply(c, now) = Gone(c.key, now)
      BY <2>3 DEF Reply
    <3>2. KV!Reply(AsCall(c), ~Gone(c.key, now)) = ~~Gone(c.key, now)
      BY <2>1, <2>3 DEF KV!Reply
    <3>3. Gone(c.key, now) \in BOOLEAN
      BY DEF Gone
    <3> QED BY <3>1, <3>2, <3>3
  <2>4. CASE c.op = "Get"
    BY <2>1, <2>4 DEF Reply, KV!Reply
  <2>5. CASE c.op = "Incr"
    BY <2>1, <2>5 DEF Reply, KV!Reply, Counted, KV!NextCount
  <2>6. CASE c.op \in {"Set", "Del"}
    BY <2>1, <2>6 DEF Reply, KV!Reply
  <2> QED BY <2>2, <2>3, <2>4, <2>5, <2>6
<1> QED BY <1>1 DEF Replies

LEMMA Performs ==
  ASSUME BackendsAssumption, IInv, UNCHANGED <<backend, clock>>,
         NEW p \in Callers, Working(calls[p]),
         NEW now \in Nat, calls[p].since <= now, now <= clock,
         rows' = Effect(calls[p], now), NEW a \in Replies(calls[p], now),
         calls' = [calls EXCEPT ![p] = Answered(@, a)]
  PROVE  IInv' /\ KV!Perform(p)
<1> DEFINE c == calls[p]
           there == ~Gone(c.key, now)
<1>1. InTime(c) /\ IsCall(c) /\ c.since \in Nat /\ clock \in Nat
  BY DEF IInv, Calls, CallOK, Types, InTime
<1>2. Lasting(rows')
  BY <1>1, EffectLasts DEF IInv
<1>3. calls' = [q \in Callers |-> IF q = p THEN Answered(c, a) ELSE calls[q]]
  BY DEF IInv, Types
<1>4. IsCall(Answered(c, a)) /\ ~Working(Answered(c, a))
        /\ AsCall(Answered(c, a)) = KV!Answered(AsCall(c), a)
  BY <1>1, CallFields
<1>5. IInv'
  <2>1. calls'[p] = Answered(c, a)
    BY <1>3
  <2>2. IsCall(calls[p])' /\ CallOK(calls[p])'
    BY <1>4, <2>1 DEF CallOK, IsCall, Working
  <2> QED BY <1>2, <1>3, <2>1, <2>2, Kept
<1>6. KV!Perform(p)
  <2> DEFINE cs == [q \in Callers |-> AsCall(calls[q])]
  <2>1. cs[p] = AsCall(c) /\ cs[p].at = "called" /\ cs[p].since = c.since
    BY DEF AsCall, Working
  <2>2. now \in cs[p].since..clock /\ there \in BOOLEAN
    BY <1>1, <2>1 DEF Gone
  <2>3. KV!TakesEffect(cs[p], now, there)
    BY <1>1, <2>1, TakesEffectAsJudged DEF IInv
  <2>4. a \in {KV!Reply(cs[p], there), Error}
    BY <1>1, <2>1, ReplyIsReply
  <2>5. [q \in Callers |-> AsCall(calls[q])]' = [cs EXCEPT ![p] = KV!Answered(@, a)]
    BY <1>3, <1>4, <2>1
  <2>6. UNCHANGED <<backend = "redis", clock>>
    OBVIOUS
  <2> HIDE DEF there, cs
  <2> QED BY <2>1, <2>2, <2>3, <2>4, <2>5, <2>6 DEF KV!Perform, cs
<1> QED BY <1>5, <1>6

-----------------------------------------------------------------------------
(***************************************************************************)
(* The steps, one by one: each keeps the invariant and is a step of        *)
(* KeyValue or leaves its variables alone.                                 *)
(***************************************************************************)
kvVars == <<backend = "redis", clock, rows, [p \in Callers |-> AsCall(calls[p])]>>

\* A step in which call p is worked on out of sight.
LEMMA WorksOn ==
  ASSUME BackendsAssumption, IInv, UNCHANGED <<backend, clock, rows>>,
         NEW p \in Callers, IsCall(calls[p])', CallOK(calls[p])',
         calls' = [q \in Callers |-> IF q = p THEN calls'[p] ELSE calls[q]],
         AsCall(calls[p])' = AsCall(calls[p])
  PROVE  IInv' /\ UNCHANGED kvVars
<1>1. Lasting(rows')
  BY RowsLast DEF IInv
<1>2. IInv'
  BY <1>1, Kept
<1>3. \A q \in Callers : AsCall(calls[q])' = AsCall(calls[q])
  BY DEF AsCall, Working
<1> QED BY <1>2, <1>3 DEF kvVars

LEMMA CallMoves ==
  ASSUME NEW c, IsCall(c), NEW at
  PROVE  LET d == [c EXCEPT !.at = at] IN
         /\ IsCall(d) /\ d.at = at /\ d.op = c.op /\ d.key = c.key /\ d.val = c.val
         /\ d.since = c.since /\ d.answer = c.answer /\ d.now = c.now
<1> DEFINE d == [c EXCEPT !.at = at]
<1>1. PICK S : c \in [at : S, op : S, key : S, val : S, since : S, answer : S,
                      now : S, attempt : S]
  BY DEF IsCall
<1> DEFINE T == S \cup {at}
<1>2. d \in [at : T, op : T, key : T, val : T, since : T, answer : T, now : T, attempt : T]
  BY <1>1
<1>3. IsCall(d)
  <2> HIDE DEF T
  <2> QED BY <1>2 DEF IsCall
<1>4. /\ d.at = at /\ d.op = c.op /\ d.key = c.key /\ d.val = c.val
      /\ d.since = c.since /\ d.answer = c.answer /\ d.now = c.now
  BY <1>1
<1> QED BY <1>3, <1>4

LEMMA CallTriesAgain ==
  ASSUME NEW c, IsCall(c), NEW now
  PROVE  LET d == [c EXCEPT !.at = "called", !.now = now, !.attempt = 1] IN
         /\ IsCall(d) /\ d.at = "called" /\ d.op = c.op /\ d.key = c.key /\ d.val = c.val
         /\ d.since = c.since /\ d.answer = c.answer /\ d.now = now
<1> DEFINE d == [c EXCEPT !.at = "called", !.now = now, !.attempt = 1]
<1>1. PICK S : c \in [at : S, op : S, key : S, val : S, since : S, answer : S,
                      now : S, attempt : S]
  BY DEF IsCall
<1> DEFINE T == S \cup {"called", now, 1}
<1>2. d \in [at : T, op : T, key : T, val : T, since : T, answer : T, now : T, attempt : T]
  BY <1>1
<1>3. IsCall(d)
  <2> HIDE DEF T
  <2> QED BY <1>2 DEF IsCall
<1>4. /\ d.at = "called" /\ d.op = c.op /\ d.key = c.key /\ d.val = c.val
      /\ d.since = c.since /\ d.answer = c.answer /\ d.now = now
  BY <1>1
<1> QED BY <1>3, <1>4

LEMMA CallTriedOnce ==
  ASSUME NEW c, IsCall(c)
  PROVE  LET d == [c EXCEPT !.attempt = @ + 1] IN
         /\ IsCall(d) /\ d.at = c.at /\ d.op = c.op /\ d.key = c.key /\ d.val = c.val
         /\ d.since = c.since /\ d.answer = c.answer /\ d.now = c.now
<1> DEFINE d == [c EXCEPT !.attempt = @ + 1]
<1>1. PICK S : c \in [at : S, op : S, key : S, val : S, since : S, answer : S,
                      now : S, attempt : S]
  BY DEF IsCall
<1>2. PICK n : n = c.attempt + 1
  OBVIOUS
<1> DEFINE T == S \cup {n}
<1>3. d \in [at : T, op : T, key : T, val : T, since : T, answer : T, now : T, attempt : T]
  BY <1>1, <1>2
<1>4. IsCall(d)
  <2> HIDE DEF T
  <2> QED BY <1>3 DEF IsCall
<1>5. /\ d.at = c.at /\ d.op = c.op /\ d.key = c.key /\ d.val = c.val
      /\ d.since = c.since /\ d.answer = c.answer /\ d.now = c.now
  BY <1>1
<1> QED BY <1>4, <1>5

LEMMA BeginStep ==
  ASSUME BackendsAssumption, IInv, NEW p \in Callers, Begin(p)
  PROVE  IInv' /\ KV!Begin(p)
<1>0. PICK k \in Keys, v \in Values : \E op \in Operations(k) :
        calls' = [calls EXCEPT ![p] = [Idle EXCEPT !.at = "called", !.op = op, !.key = k,
                                         !.val = v, !.since = clock, !.now = clock]]
  BY DEF Begin
<1>1. PICK op \in Operations(k) :
        calls' = [calls EXCEPT ![p] = [Idle EXCEPT !.at = "called", !.op = op, !.key = k,
                                         !.val = v, !.since = clock, !.now = clock]]
  BY <1>0
<1> DEFINE c == [Idle EXCEPT !.at = "called", !.op = op, !.key = k, !.val = v,
                             !.since = clock, !.now = clock]
<1>2. /\ c.at = "called" /\ c.op = op /\ c.key = k /\ c.val = v /\ c.since = clock
      /\ c.answer = None /\ c.now = clock
  BY DEF Idle
<1> DEFINE S == {"called", op, k, v, clock, None, 0}
<1>5. c \in [at : S, op : S, key : S, val : S, since : S, answer : S, now : S, attempt : S]
  BY DEF Idle
<1>3. calls' = [q \in Callers |-> IF q = p THEN c ELSE calls[q]]
  BY <1>1 DEF IInv, Types
<1> HIDE DEF c
<1>4. calls'[p] = c /\ UNCHANGED <<backend, clock, rows>>
  BY <1>3 DEF Begin
<1> HIDE DEF S
<1>6. CallOK(calls[p])'
  BY <1>2, <1>4 DEF CallOK, Working, InTime, TwoSteps, Meets, Operations, IInv, Types,
                    BackendsAssumption
<1>7. IInv'
  <2>1. IsCall(calls[p])'
    BY <1>4, <1>5 DEF IsCall
  <2> QED BY <1>3, <1>4, <1>6, <2>1, Kept, RowsLast DEF IInv
<1>8. KV!Begin(p)
  <2> DEFINE cs == [q \in Callers |-> AsCall(calls[q])]
  <2>1. AsCall(c) = KV!Called(op, k, v)
    BY <1>2 DEF AsCall, Working, KV!Called
  <2>2. cs' = [cs EXCEPT ![p] = KV!Called(op, k, v)]
    BY <1>3, <2>1
  <2>3. cs[p].at = "idle"
    BY DEF Begin, AsCall, Working
  <2>4. op \in KV!Operations(k)
    BY DEF Operations, KV!Operations
  <2> HIDE DEF cs
  <2> QED BY <1>4, <2>2, <2>3, <2>4 DEF KV!Begin, cs
<1> QED BY <1>7, <1>8

LEMMA AtOnceStep ==
  ASSUME BackendsAssumption, IInv, NEW p \in Callers, AtOnce(p)
  PROVE  IInv' /\ KV!Perform(p)
<1>0. PICK now \in Instants(calls[p]) :
        /\ rows' = Effect(calls[p], now)
        /\ \E a \in Replies(calls[p], now) : calls' = [calls EXCEPT ![p] = Answered(@, a)]
  BY DEF AtOnce
<1>1. PICK a \in Replies(calls[p], now) : calls' = [calls EXCEPT ![p] = Answered(@, a)]
  BY <1>0
<1>2. Working(calls[p]) /\ InTime(calls[p]) /\ UNCHANGED <<backend, clock>>
  BY DEF AtOnce, Working, IInv, Calls, CallOK
<1>3. now \in Nat /\ calls[p].since <= now /\ now <= clock
  <2>1. CASE backend \in {"memory", "redis"}
    BY <1>2, <2>1 DEF Instants, InTime, IInv, Types
  <2>2. CASE backend = "postgres"
    BY <1>2, <2>2 DEF Instants, InTime, IInv, Types
  <2>3. CASE backend = "mongo"
    BY <1>2, <2>3 DEF Instants, InTime, IInv, Types
  <2> QED BY <2>1, <2>2, <2>3 DEF IInv, Types
<1> QED BY <1>0, <1>1, <1>2, <1>3, Performs

\* An attempt whose answer is lost.
LEMMA ResendStep ==
  ASSUME BackendsAssumption, IInv, NEW p \in Callers, Resend(p)
  PROVE  IInv' /\ KV!PerformUnanswered(p)
<1> DEFINE c == calls[p]
           d == [c EXCEPT !.attempt = @ + 1]
           cs == [q \in Callers |-> AsCall(calls[q])]
<1>1. /\ backend = "redis" /\ c.at = "called" /\ UNCHANGED <<backend, clock>>
      /\ rows' = Effect(c, clock)
  BY DEF Resend, Instants
<1>2. calls' = [q \in Callers |-> IF q = p THEN d ELSE calls[q]] /\ calls'[p] = d
  BY DEF Resend, IInv, Types
<1>3. Working(c) /\ InTime(c) /\ IsCall(c) /\ c.since \in Nat /\ clock \in Nat
        /\ c.since <= clock
  BY <1>1 DEF IInv, Calls, CallOK, Working, Types, InTime
<1>4. /\ IsCall(d) /\ d.at = c.at /\ d.op = c.op /\ d.key = c.key /\ d.val = c.val
      /\ d.since = c.since /\ d.answer = c.answer /\ d.now = c.now
  BY <1>3, CallTriedOnce
<1> HIDE DEF d
<1>5. InTime(calls[p])' /\ TwoSteps(calls[p])' /\ Meets(calls[p])'
  BY <1>1, <1>2, <1>3, <1>4 DEF InTime, TwoSteps, Meets
<1>6. IsCall(calls[p])' /\ AsCall(calls[p])' = AsCall(calls[p])
  BY <1>2, <1>4 DEF IsCall, AsCall, Working
<1>7. IInv'
  <2>1. Lasting(rows')
    BY <1>1, <1>3, EffectLasts DEF IInv
  <2> QED BY <1>1, <1>2, <1>5, <1>6, <2>1, Kept DEF CallOK
<1>8. KV!PerformUnanswered(p)
  <2>1. cs[p] = AsCall(c) /\ cs[p].at = "called" /\ cs[p].since = c.since
    BY <1>1 DEF AsCall, Working
  <2>2. \E there \in BOOLEAN : KV!TakesEffect(cs[p], clock, there)
    <3>1. PICK there : there = ~Gone(c.key, clock)
      OBVIOUS
    <3>2. there \in BOOLEAN
      BY <3>1 DEF Gone
    <3>3. KV!TakesEffect(AsCall(c), clock, ~Gone(c.key, clock))
      BY <1>1, <1>3, TakesEffectAsJudged DEF IInv
    <3>4. KV!TakesEffect(cs[p], clock, there)
      BY <2>1, <3>1, <3>3
    <3> HIDE DEF cs
    <3> QED BY <3>2, <3>4
  <2>3. clock \in cs[p].since..clock
    BY <1>3, <2>1
  <2>4. cs' = cs
    BY <1>2, <1>6
  <2>5. (backend = "redis")' = (backend = "redis")
    BY <1>1
  <2> HIDE DEF cs
  <2> QED BY <1>1, <2>1, <2>2, <2>3, <2>4, <2>5 DEF KV!PerformUnanswered, cs
<1> QED BY <1>7, <1>8

\* An upsert at its second step, when nothing is in its way.
LEMMA UpsertStep ==
  ASSUME BackendsAssumption, IInv, NEW p \in Callers, calls[p].at \in {"updating", "inserting"},
         UNCHANGED <<backend, clock>>, rows' = Effect(calls[p], calls[p].now),
         \E a \in Replies(calls[p], calls[p].now) :
           calls' = [calls EXCEPT ![p] = Answered(@, a)]
  PROVE  IInv' /\ KV!Perform(p)
<1>1. PICK now : now = calls[p].now
  OBVIOUS
<1>2. Working(calls[p]) /\ InTime(calls[p])
  BY DEF Working, IInv, Calls, CallOK
<1> QED BY <1>1, <1>2, Performs DEF InTime

LEMMA LookStep ==
  ASSUME BackendsAssumption, IInv, NEW p \in Callers, Look(p)
  PROVE  IInv' /\ UNCHANGED kvVars
<1> DEFINE at == IF Matches(calls[p]) THEN "updating" ELSE "inserting"
           d == [calls[p] EXCEPT !.at = at]
<1>1. UNCHANGED <<backend, clock, rows>> /\ calls[p].at = "called" /\ Upserts(calls[p])
  BY DEF Look
<1>2. calls' = [q \in Callers |-> IF q = p THEN d ELSE calls[q]] /\ calls'[p] = d
  BY DEF Look, IInv, Types
<1>3. InTime(calls[p])
  BY <1>1 DEF IInv, Calls, CallOK, Working
<1>4. IsCall(calls[p])
  BY DEF IInv, Types
<1>5. /\ IsCall(d) /\ d.at = at /\ d.op = calls[p].op /\ d.key = calls[p].key
      /\ d.val = calls[p].val /\ d.since = calls[p].since /\ d.answer = calls[p].answer
      /\ d.now = calls[p].now
  <2> HIDE DEF at
  <2> QED BY <1>4, CallMoves
<1> HIDE DEF d
<1>7. InTime(d) /\ TwoSteps(d)
  BY <1>1, <1>3, <1>5 DEF InTime, TwoSteps, Upserts
<1>8. Meets(d)
  BY <1>1, <1>3, <1>5 DEF Meets, Matches, Holds, Expired, InTime, Upserts, IInv, Types
<1>9. CallOK(calls[p])'
  BY <1>1, <1>2, <1>7, <1>8 DEF CallOK, InTime, TwoSteps, Upserts, Meets, Holds
<1>10. IsCall(calls[p])'
  BY <1>2, <1>5 DEF IsCall
<1>11. AsCall(calls[p])' = AsCall(calls[p])
  BY <1>1, <1>2, <1>5 DEF AsCall, Working
<1> QED BY <1>1, <1>2, <1>9, <1>10, <1>11, WorksOn

LEMMA UpdateStep ==
  ASSUME BackendsAssumption, IInv, NEW p \in Callers, Update(p)
  PROVE  IInv' /\ (KV!Perform(p) \/ UNCHANGED kvVars)
<1>1. CASE Matches(calls[p])
  BY <1>1, UpsertStep DEF Update
<1>2. CASE ~Matches(calls[p])
  <2> DEFINE d == [calls[p] EXCEPT !.at = "called"]
  <2>1. UNCHANGED <<backend, clock, rows>> /\ calls[p].at = "updating"
    BY <1>2 DEF Update
  <2>2. calls' = [q \in Callers |-> IF q = p THEN d ELSE calls[q]] /\ calls'[p] = d
    BY <1>2 DEF Update, IInv, Types
  <2>3. InTime(calls[p]) /\ IsCall(calls[p])
    BY <2>1 DEF IInv, Calls, CallOK, Working, Types
  <2>4. /\ IsCall(d) /\ d.at = "called" /\ d.op = calls[p].op /\ d.key = calls[p].key
        /\ d.val = calls[p].val /\ d.since = calls[p].since /\ d.answer = calls[p].answer
        /\ d.now = calls[p].now
    BY <2>3, CallMoves
  <2> HIDE DEF d
  <2>5. InTime(calls[p])' /\ TwoSteps(calls[p])' /\ Meets(calls[p])'
    BY <2>1, <2>2, <2>3, <2>4 DEF InTime, TwoSteps, Meets
  <2>6. IsCall(calls[p])' /\ AsCall(calls[p])' = AsCall(calls[p])
    BY <2>1, <2>2, <2>4 DEF IsCall, AsCall, Working
  <2> QED BY <2>1, <2>2, <2>5, <2>6, WorksOn DEF CallOK
<1> QED BY <1>1, <1>2

\* A call that is answered without a trace.
LEMMA FailStep ==
  ASSUME BackendsAssumption, IInv, NEW p \in Callers, Working(calls[p]),
         UNCHANGED <<backend, clock, rows>>, NEW a, calls' = [calls EXCEPT ![p] = Answered(@, a)]
  PROVE  /\ IInv' /\ (a = Error => KV!Fail(p))
         /\ [q \in Callers |-> AsCall(calls[q])]'
              = [[q \in Callers |-> AsCall(calls[q])] EXCEPT ![p] = KV!Answered(@, a)]
<1> DEFINE c == calls[p]
           cs == [q \in Callers |-> AsCall(calls[q])]
<1>1. calls' = [q \in Callers |-> IF q = p THEN Answered(c, a) ELSE calls[q]]
        /\ calls'[p] = Answered(c, a)
  BY DEF IInv, Types
<1>2. IsCall(Answered(c, a)) /\ ~Working(Answered(c, a))
        /\ AsCall(Answered(c, a)) = KV!Answered(AsCall(c), a)
  BY CallFields DEF IInv, Types
<1>3. IsCall(calls[p])' /\ CallOK(calls[p])'
  BY <1>1, <1>2 DEF IsCall, CallOK, Working
<1>4. IInv'
  BY <1>1, <1>3, Kept, RowsLast DEF IInv
<1>5. cs' = [cs EXCEPT ![p] = KV!Answered(@, a)]
  BY <1>1, <1>2
<1>6. cs[p].at = "called"
  BY DEF AsCall
<1> HIDE DEF cs
<1>7. a = Error => KV!Fail(p)
  BY <1>5, <1>6 DEF KV!Fail, cs
<1> QED BY <1>4, <1>5, <1>7 DEF cs

LEMMA ReturnStep ==
  ASSUME BackendsAssumption, IInv, NEW p \in Callers, Return(p)
  PROVE  IInv' /\ KV!Return(p)
<1> DEFINE cs == [q \in Callers |-> AsCall(calls[q])]
<1>1. calls' = [q \in Callers |-> IF q = p THEN Idle ELSE calls[q]] /\ calls'[p] = Idle
        /\ calls[p].at = "answered" /\ UNCHANGED <<backend, clock, rows>>
  BY DEF Return, IInv, Types
<1>2. IsCall(Idle)
  <2> DEFINE S == {"idle", None, 0}
  <2>1. Idle \in [at : S, op : S, key : S, val : S, since : S, answer : S, now : S, attempt : S]
    BY DEF Idle
  <2> HIDE DEF S
  <2> QED BY <2>1 DEF IsCall
<1>3. Idle.at = "idle" /\ AsCall(Idle) = KV!NoCall
  BY DEF Idle, AsCall, Working, KV!NoCall
<1>4. IsCall(calls[p])' /\ CallOK(calls[p])'
  BY <1>1, <1>2, <1>3 DEF IsCall, CallOK, Working
<1>5. IInv'
  BY <1>1, <1>4, Kept, RowsLast DEF IInv
<1>6. cs' = [cs EXCEPT ![p] = KV!NoCall]
  BY <1>1, <1>3
<1>7. cs[p].at = "answered"
  BY <1>1 DEF AsCall, Working
<1> HIDE DEF cs
<1> QED BY <1>1, <1>5, <1>6, <1>7 DEF KV!Return, cs

\* An insert that collides: the claim is lost to a key that was held when it
\* began, the count tries again, and a plain write has failed.
LEMMA CollisionStep ==
  ASSUME BackendsAssumption, IInv, NEW p \in Callers, Insert(p), Holds(calls[p].key)
  PROVE  IInv' /\ (KV!Perform(p) \/ KV!Fail(p) \/ UNCHANGED kvVars)
<1> DEFINE c == calls[p]
           cs == [q \in Callers |-> AsCall(calls[q])]
<1>1. /\ c.at = "inserting" /\ UNCHANGED <<backend, clock, rows>>
      /\ calls' = [calls EXCEPT ![p] = Collided(c)]
  BY DEF Insert
<1>2. Working(c) /\ InTime(c) /\ TwoSteps(c) /\ Meets(c) /\ IsCall(c)
  BY <1>1 DEF IInv, Calls, CallOK, Working, Types
<1>3. CASE c.op = "SetNX"
  <2>1. calls' = [calls EXCEPT ![p] = Answered(@, FALSE)]
    BY <1>1, <1>3 DEF Collided
  <2>2. IInv' /\ cs' = [cs EXCEPT ![p] = KV!Answered(@, FALSE)]
    BY <1>1, <1>2, <2>1, FailStep
  <2>3. cs[p] = AsCall(c) /\ cs[p].at = "called" /\ cs[p].since = c.since /\ cs[p].key = c.key
          /\ cs[p].op = "SetNX"
    BY <1>2, <1>3 DEF AsCall
  <2>4. PICK now : now = c.since
    OBVIOUS
  <2>5. now \in cs[p].since..clock
    BY <1>2, <2>3, <2>4 DEF InTime, IInv, Types
  <2>6. KV!Found(cs[p].key, now, TRUE)
    BY <1>1, <1>2, <1>3, <2>3, <2>4
       DEF KV!Found, KV!Absent, NoRow, Meets, Holds, InTime, IInv, Types
  <2>7. KV!After(cs[p], now, TRUE) = rows /\ KV!Reply(cs[p], TRUE) = FALSE
    BY <2>3 DEF KV!After, KV!Reply
  <2>8. rows' = KV!Forgets(rows, {})
    BY <1>1 DEF KV!Forgets, IInv, Types
  <2> HIDE DEF cs
  <2>9. KV!TakesEffect(cs[p], now, TRUE)
    BY <2>6, <2>7, <2>8 DEF KV!TakesEffect
  <2>10. KV!Perform(p)
    BY <1>1, <2>2, <2>3, <2>5, <2>7, <2>9 DEF KV!Perform, cs
  <2> QED BY <2>2, <2>10
<1>4. CASE c.op # "SetNX" /\ Collided(c) = Answered(c, Error)
  <2>1. calls' = [calls EXCEPT ![p] = Answered(@, Error)]
    BY <1>1, <1>4
  <2> QED BY <1>1, <1>2, <2>1, FailStep
<1>5. CASE c.op # "SetNX" /\ Collided(c) = [c EXCEPT !.at = "called", !.now = clock, !.attempt = 1]
  <2> DEFINE d == [c EXCEPT !.at = "called", !.now = clock, !.attempt = 1]
  <2>1. calls' = [q \in Callers |-> IF q = p THEN d ELSE calls[q]] /\ calls'[p] = d
    BY <1>1, <1>5 DEF IInv, Types
  <2>2. /\ IsCall(d) /\ d.at = "called" /\ d.op = c.op /\ d.key = c.key /\ d.val = c.val
        /\ d.since = c.since /\ d.answer = c.answer /\ d.now = clock
    BY <1>2, CallTriesAgain
  <2> HIDE DEF d
  <2>3. InTime(calls[p])' /\ TwoSteps(calls[p])' /\ Meets(calls[p])'
    BY <1>1, <1>2, <2>1, <2>2 DEF InTime, TwoSteps, Meets, IInv, Types
  <2>4. IsCall(calls[p])' /\ AsCall(calls[p])' = AsCall(calls[p])
    BY <1>2, <2>1, <2>2 DEF IsCall, AsCall, Working
  <2> QED BY <1>1, <2>1, <2>3, <2>4, WorksOn DEF CallOK
<1>6. c.op \in {"SetNX", "Set", "Incr"}
  BY <1>1, <1>2 DEF TwoSteps, Upserts
<1> QED BY <1>3, <1>4, <1>5, <1>6 DEF Collided

\* A sweep or a reaper takes what has expired.
LEMMA SweepStep ==
  ASSUME BackendsAssumption, IInv, UNCHANGED <<backend, clock, calls>>,
         NEW gone \in SUBSET Keys, \A k \in gone : rows[k].expires <= clock,
         rows' = Dropped(rows, gone)
  PROVE  IInv' /\ KV!Forget
<1>1. IInv'
  BY KeptBySweep
<1>2. gone \in SUBSET KV!Expired(rows) /\ rows' = KV!Forgets(rows, gone)
  BY DEF KV!Expired, Dropped, KV!Forgets, KV!Absent, NoRow
<1> QED BY <1>1, <1>2 DEF KV!Forget

LEMMA TickStep ==
  ASSUME BackendsAssumption, IInv, Tick
  PROVE  IInv' /\ KV!Tick
<1>1. Types'
  BY DEF Tick, IInv, Types
<1>2. Calls'
  BY DEF Tick, IInv, Types, Calls, CallOK, Working, InTime, TwoSteps, Upserts, Meets, Holds,
         BackendsAssumption
<1> QED BY <1>1, <1>2 DEF Tick, KV!Tick, IInv

LEMMA Start == Init => IInv /\ KV!Init
<1> SUFFICES ASSUME Init PROVE IInv /\ KV!Init
  OBVIOUS
<1>1. IsCall(Idle)
  <2> DEFINE S == {"idle", None, 0}
  <2>1. Idle \in [at : S, op : S, key : S, val : S, since : S, answer : S, now : S, attempt : S]
    BY DEF Idle
  <2> HIDE DEF S
  <2> QED BY <2>1 DEF IsCall
<1>2. Idle.at = "idle" /\ AsCall(Idle) = KV!NoCall /\ NoRow = KV!Absent /\ NoRow.expires = 0
  BY DEF Idle, AsCall, Working, KV!NoCall, NoRow, KV!Absent
<1>3. IInv
  BY <1>1, <1>2 DEF Init, IInv, Types, Calls, CallOK, Working
<1>4. KV!Init
  BY <1>2 DEF Init, KV!Init
<1> QED BY <1>3, <1>4

LEMMA Step ==
  ASSUME BackendsAssumption, IInv, [Next]_vars
  PROVE  IInv' /\ (KV!Next \/ UNCHANGED kvVars)
<1>1. CASE UNCHANGED vars
  <2>1. UNCHANGED <<backend, clock, rows, calls>>
    BY <1>1 DEF vars
  <2> QED BY <2>1 DEF kvVars, AsCall, Working, IInv, Types, IsCall, Calls, CallOK, InTime,
                      TwoSteps, Upserts, Meets, Holds
<1>2. ASSUME NEW p \in Callers, Begin(p) PROVE IInv' /\ KV!Next
  BY <1>2, BeginStep DEF KV!Next
<1>3. ASSUME NEW p \in Callers, AtOnce(p) PROVE IInv' /\ KV!Next
  BY <1>3, AtOnceStep DEF KV!Next
<1>12. ASSUME NEW p \in Callers, Resend(p) PROVE IInv' /\ KV!Next
  BY <1>12, ResendStep DEF KV!Next
<1>4. ASSUME NEW p \in Callers, Look(p) PROVE IInv' /\ UNCHANGED kvVars
  BY <1>4, LookStep
<1>5. ASSUME NEW p \in Callers, Update(p) PROVE IInv' /\ (KV!Next \/ UNCHANGED kvVars)
  BY <1>5, UpdateStep DEF KV!Next
<1>6. ASSUME NEW p \in Callers, Insert(p) PROVE IInv' /\ (KV!Next \/ UNCHANGED kvVars)
  <2>1. CASE Holds(calls[p].key)
    BY <1>6, <2>1, CollisionStep DEF KV!Next
  <2>2. CASE ~Holds(calls[p].key)
    BY <1>6, <2>2, UpsertStep DEF Insert, KV!Next
  <2> QED BY <2>1, <2>2
<1>7. ASSUME NEW p \in Callers, Fail(p) PROVE IInv' /\ KV!Next
  BY <1>7, FailStep DEF Fail, KV!Next
<1>8. ASSUME NEW p \in Callers, Return(p) PROVE IInv' /\ KV!Next
  BY <1>8, ReturnStep DEF KV!Next
<1>9. CASE Sweep
  <2>1. \A k \in Keys : Expired(k, clock) => rows[k].expires <= clock
    BY DEF Expired, IInv, Types
  <2> QED BY <1>9, <2>1, SweepStep DEF Sweep, KV!Next
<1>10. ASSUME NEW k \in Keys, Reap(k) PROVE IInv' /\ KV!Next
  <2>1. rows[k].expires <= clock
    BY <1>10 DEF Reap, Expired, IInv, Types
  <2> QED BY <1>10, <2>1, SweepStep DEF Reap, KV!Next
<1>11. CASE Tick
  BY <1>11, TickStep DEF KV!Next
<1> QED BY <1>1, <1>2, <1>3, <1>4, <1>5, <1>6, <1>7, <1>8, <1>9, <1>10, <1>11, <1>12 DEF Next

LEMMA Invariant == Spec => []IInv
<1>1. Init => IInv
  BY Start
<1>2. IInv /\ [Next]_vars => IInv'
  BY BackendsAssumption, Step
<1> QED BY <1>1, <1>2, PTL DEF Spec

\* Whichever backend it is, however its calls overlap and whenever they fail, its
\* answers and its table are those of KeyValue; on Valkey, whose client sends a
\* command again when its answer is lost, those of KeyValue with resends.
THEOREM BackendsImplementKeyValue == Spec => Implements
<1>1. Init => KV!Init
  BY Start
<1>2. IInv /\ [Next]_vars => [KV!Next]_kvVars
  BY BackendsAssumption, Step
<1> QED BY <1>1, <1>2, Invariant, PTL DEF Spec, Implements, KV!Spec, KV!vars, kvVars

\* No answer wins a claim but one that finds the key gone.
LEMMA WonAtOnce ==
  ASSUME BackendsAssumption, IInv, NEW c, InTime(c), c.op = "SetNX", NEW now,
         now <= clock, now \in Nat, backend = "memory" => now = clock, TRUE \in Replies(c, now)
  PROVE  rows[c.key] = NoRow \/ rows[c.key].expires <= clock
<1>1. Reply(c, now) = Gone(c.key, now)
  BY DEF Reply
<1>2. Gone(c.key, now)
  BY <1>1 DEF Replies, BackendsAssumption
<1> QED BY <1>2 DEF Gone, Holds, Expired, InTime, IInv, Types

LEMMA WonStep ==
  ASSUME BackendsAssumption, IInv, [Next]_vars, NEW p \in Callers,
         calls[p].op = "SetNX", calls[p].answer = None, calls'[p].answer = TRUE
  PROVE  rows[calls[p].key] = NoRow \/ rows[calls[p].key].expires <= clock
<1> DEFINE Free == rows[calls[p].key] = NoRow \/ rows[calls[p].key].expires <= clock
<1>1. calls'[p] # calls[p]
  BY DEF BackendsAssumption
<1>2. IsCall(calls[p]) /\ clock \in Nat
  BY DEF IInv, Types
<1>3. Working(calls[p]) => InTime(calls[p])
  BY DEF IInv, Calls, CallOK
<1>4. ASSUME NEW now, NEW a \in Replies(calls[p], now), now \in Nat, now <= clock,
             backend = "memory" => now = clock, Working(calls[p]),
             calls' = [calls EXCEPT ![p] = Answered(@, a)]
      PROVE  Free
  <2>1. calls'[p].answer = a
    <3>1. PICK S : calls[p] \in [at : S, op : S, key : S, val : S, since : S, answer : S,
                                 now : S, attempt : S]
      BY <1>2 DEF IsCall
    <3>2. Answered(calls[p], a).answer = a
      BY <3>1 DEF Answered
    <3> QED BY <1>4, <3>2 DEF IInv, Types
  <2> QED BY <1>3, <1>4, <2>1, WonAtOnce
<1>5. ASSUME calls'[p].answer = calls[p].answer \/ calls'[p].answer \in {None, FALSE, Error}
      PROVE  FALSE
  BY <1>5 DEF BackendsAssumption
<1>6. ASSUME NEW q \in Callers, q # p, NEW d, calls' = [calls EXCEPT ![q] = d] PROVE FALSE
  BY <1>1, <1>6 DEF IInv, Types
<1>7. ASSUME Begin(p) PROVE FALSE
  <2>1. PICK k \in Keys, v \in Values : \E op \in Operations(k) :
          calls' = [calls EXCEPT ![p] = [Idle EXCEPT !.at = "called", !.op = op, !.key = k,
                                           !.val = v, !.since = clock, !.now = clock]]
    BY <1>7 DEF Begin
  <2>2. calls'[p].answer = None
    BY <2>1 DEF Idle, IInv, Types
  <2> QED BY <1>5, <2>2
<1>8. ASSUME AtOnce(p) PROVE Free
  <2>1. PICK now \in Instants(calls[p]) :
          \E a \in Replies(calls[p], now) : calls' = [calls EXCEPT ![p] = Answered(@, a)]
    BY <1>8 DEF AtOnce
  <2>2. Working(calls[p])
    BY <1>8 DEF AtOnce, Working
  <2>3. now \in Nat /\ now <= clock /\ (backend = "memory" => now = clock)
    <3>1. CASE backend \in {"memory", "redis"}
      BY <1>2, <2>1, <3>1 DEF Instants
    <3>2. CASE backend = "postgres"
      BY <1>2, <1>3, <2>1, <2>2, <3>2 DEF Instants, InTime
    <3>3. CASE backend = "mongo"
      BY <1>2, <1>3, <2>1, <2>2, <3>3 DEF Instants, InTime
    <3> QED BY <3>1, <3>2, <3>3 DEF IInv, Types
  <2> QED BY <1>4, <2>1, <2>2, <2>3
<1>9. ASSUME calls[p].at \in {"updating", "inserting"},
             \E a \in Replies(calls[p], calls[p].now) :
               calls' = [calls EXCEPT ![p] = Answered(@, a)]
      PROVE  Free
  <2>1. Working(calls[p])
    BY <1>9 DEF Working
  <2>2. TwoSteps(calls[p]) /\ InTime(calls[p])
    BY <1>3, <2>1 DEF IInv, Calls, CallOK
  <2>3. backend # "memory"
    BY <1>9, <2>2 DEF TwoSteps, Upserts
  <2>4. PICK now : now = calls[p].now
    OBVIOUS
  <2> QED BY <1>4, <1>9, <2>1, <2>2, <2>3, <2>4 DEF InTime
<1>10. ASSUME NEW at, calls' = [calls EXCEPT ![p] = [calls[p] EXCEPT !.at = at]] PROVE FALSE
  <2>1. [calls[p] EXCEPT !.at = at].answer = calls[p].answer
    BY <1>2, CallMoves
  <2> QED BY <1>5, <1>10, <2>1 DEF IInv, Types
<1>11. ASSUME NEW a \in {FALSE, Error}, calls' = [calls EXCEPT ![p] = Answered(calls[p], a)]
       PROVE  FALSE
  <2>1. Answered(calls[p], a).answer = a
    <3>1. PICK S : calls[p] \in [at : S, op : S, key : S, val : S, since : S, answer : S,
                                 now : S, attempt : S]
      BY <1>2 DEF IsCall
    <3> QED BY <3>1 DEF Answered
  <2> QED BY <1>5, <1>11, <2>1 DEF IInv, Types
<1>12. ASSUME Look(p) PROVE FALSE
  BY <1>10, <1>12 DEF Look
<1>18. ASSUME Resend(p) PROVE FALSE
  <2>1. [calls[p] EXCEPT !.attempt = @ + 1].answer = calls[p].answer
    BY <1>2, CallTriedOnce
  <2> QED BY <1>5, <1>18, <2>1 DEF Resend, IInv, Types
<1>13. ASSUME Update(p) PROVE Free
  BY <1>9, <1>10, <1>13 DEF Update
<1>14. ASSUME Insert(p) PROVE Free
  <2>1. CASE Holds(calls[p].key)
    BY <1>11, <1>14, <2>1 DEF Insert, Collided
  <2>2. CASE ~Holds(calls[p].key)
    BY <1>9, <1>14, <2>2 DEF Insert
  <2> QED BY <2>1, <2>2
<1>15. ASSUME Fail(p) \/ Return(p) PROVE FALSE
  <2>1. CASE Fail(p)
    BY <1>11, <2>1 DEF Fail
  <2>2. CASE Return(p)
    <3>1. calls'[p].answer = None
      BY <2>2 DEF Return, Idle, IInv, Types
    <3> QED BY <1>5, <3>1
  <2> QED BY <1>15, <2>1, <2>2
<1>16. ASSUME NEW q \in Callers, q # p,
              \/ Begin(q) \/ AtOnce(q) \/ Resend(q) \/ Look(q) \/ Update(q) \/ Insert(q)
              \/ Fail(q) \/ Return(q)
       PROVE  FALSE
  BY <1>6, <1>16 DEF Begin, AtOnce, Resend, Look, Update, Insert, Fail, Return
<1>17. ASSUME UNCHANGED calls PROVE FALSE
  BY <1>1, <1>17
<1> QED BY <1>7, <1>8, <1>12, <1>13, <1>14, <1>15, <1>16, <1>17, <1>18
        DEF Next, Sweep, Reap, Tick, vars

\* No backend lets a claim be won while somebody holds the key.
THEOREM ClaimsWonOnlyIfFree == Spec => WonOnlyIfFree
<1>1. IInv /\ [Next]_vars =>
        [\A p \in Callers :
           calls[p].op = "SetNX" /\ calls[p].answer = None /\ calls'[p].answer = TRUE =>
             rows[calls[p].key] = NoRow \/ rows[calls[p].key].expires <= clock]_vars
  BY BackendsAssumption, WonStep
<1> QED BY <1>1, Invariant, PTL DEF Spec, WonOnlyIfFree
=============================================================================
