----------------------------- MODULE ProxyProofs -----------------------------
(***************************************************************************)
(* The proxy's slots and what a client may keep, for every set of          *)
(* requests, number of slots and timeout.                                  *)
(*                                                                         *)
(* Neither property is inductive.  InLine adds that nobody stands in line  *)
(* twice, so that the head of the line is waiting and holds no slot yet.   *)
(* OnTime adds how far a request can be from the instant its link was      *)
(* verified: it waited at most SlotWait for its slot, and then at most     *)
(* HeaderTimeout for Frigate.                                              *)
(***************************************************************************)
EXTENDS Proxy, FiniteSetTheorems, SequenceTheorems, TLAPS

-----------------------------------------------------------------------------
(***************************************************************************)
(* Lines of requests.                                                      *)
(***************************************************************************)
\* Nobody stands in line twice.
Distinct(q) == \A i, j \in 1..Len(q) : q[i] = q[j] => i = j

\* What is left of a line when its i-th leaves.
LEMMA RemovedAt ==
  ASSUME NEW S, NEW q \in Seq(S), NEW i \in 1..Len(q)
  PROVE  /\ RemoveAt(q, i) \in Seq(S)
         /\ Len(RemoveAt(q, i)) = Len(q) - 1
         /\ \A k \in 1..(Len(q) - 1) : RemoveAt(q, i)[k] = IF k < i THEN q[k] ELSE q[k + 1]
<1> DEFINE x == SubSeq(q, 1, i - 1)
           y == SubSeq(q, i + 1, Len(q))
<1>1. x \in Seq(S) /\ Len(x) = i - 1 /\ \A k \in 1..(i - 1) : x[k] = q[k]
  OBVIOUS
<1>2. y \in Seq(S) /\ Len(y) = Len(q) - i /\ \A k \in 1..(Len(q) - i) : y[k] = q[i + k]
  OBVIOUS
<1>3. RemoveAt(q, i) = x \o y
  BY DEF RemoveAt
<1>4. Len(q) \in Nat /\ i \in Nat
  OBVIOUS
<1> HIDE DEF x, y
<1>5. /\ x \o y \in Seq(S) /\ Len(x \o y) = Len(x) + Len(y)
      /\ \A k \in 1..(Len(x) + Len(y)) : (x \o y)[k] = IF k <= Len(x) THEN x[k] ELSE y[k - Len(x)]
  BY <1>1, <1>2, ConcatProperties
<1>6. ASSUME NEW k \in 1..(Len(q) - 1), k < i PROVE (x \o y)[k] = q[k]
  BY <1>1, <1>2, <1>4, <1>5, <1>6
<1>7. ASSUME NEW k \in 1..(Len(q) - 1), ~(k < i) PROVE (x \o y)[k] = q[k + 1]
  <2>1. k - (i - 1) \in 1..(Len(q) - i) /\ i + (k - (i - 1)) = k + 1
    BY <1>4, <1>7
  <2>2. (x \o y)[k] = y[k - (i - 1)]
    BY <1>1, <1>2, <1>4, <1>5, <1>7
  <2> QED BY <1>2, <2>1, <2>2
<1>8. (x \o y) \in Seq(S) /\ Len(x \o y) = Len(q) - 1
  BY <1>1, <1>2, <1>4, <1>5
<1>9. \A k \in 1..(Len(q) - 1) : RemoveAt(q, i)[k] = IF k < i THEN q[k] ELSE q[k + 1]
  BY <1>3, <1>6, <1>7, Zenon
<1> QED BY <1>3, <1>8, <1>9

\* One leaves a line: the others stay, and still nobody is in it twice.
LEMMA LeavesLine ==
  ASSUME NEW S, NEW q \in Seq(S), NEW i \in 1..Len(q), Distinct(q)
  PROVE  /\ RemoveAt(q, i) \in Seq(S) /\ Distinct(RemoveAt(q, i))
         /\ \A r \in S : Contains(RemoveAt(q, i), r) <=> Contains(q, r) /\ r # q[i]
<1> DEFINE s == RemoveAt(q, i)
<1>0. Len(q) \in Nat /\ i \in Nat
  OBVIOUS
<1>1. /\ s \in Seq(S) /\ Len(s) = Len(q) - 1 /\ Len(q) \in Nat /\ i \in Nat
      /\ \A k \in 1..(Len(q) - 1) : s[k] = IF k < i THEN q[k] ELSE q[k + 1]
  BY <1>0, RemovedAt, Zenon
<1> HIDE DEF s
<1>2. Distinct(s)
  BY <1>1 DEF Distinct
<1>3. ASSUME NEW r \in S, Contains(s, r) PROVE Contains(q, r) /\ r # q[i]
  <2>1. PICK k \in 1..Len(s) : s[k] = r
    BY <1>3 DEF Contains
  <2>2. \E j \in 1..Len(q) : q[j] = r /\ j # i
    BY <1>1, <2>1
  <2> QED BY <2>2 DEF Contains, Distinct
<1>4. ASSUME NEW r \in S, Contains(q, r), r # q[i] PROVE Contains(s, r)
  <2>1. PICK j \in 1..Len(q) : q[j] = r /\ j # i
    BY <1>4 DEF Contains
  <2>2. CASE j < i
    BY <1>1, <2>1, <2>2 DEF Contains
  <2>3. CASE j > i
    <3>1. j - 1 \in 1..Len(s) /\ s[j - 1] = r
      BY <1>1, <2>1, <2>3
    <3> QED BY <3>1 DEF Contains
  <2> QED BY <1>1, <2>1, <2>2, <2>3
<1> QED BY <1>1, <1>2, <1>3, <1>4 DEF s

\* So it is when the first is served.
LEMMA HeadLeaves ==
  ASSUME NEW S, NEW q \in Seq(S), q # <<>>, Distinct(q)
  PROVE  /\ Tail(q) \in Seq(S) /\ Distinct(Tail(q)) /\ Head(q) \in S /\ Contains(q, Head(q))
         /\ \A r \in S : Contains(Tail(q), r) <=> Contains(q, r) /\ r # Head(q)
<1> DEFINE s == Tail(q)
<1>1. /\ s \in Seq(S) /\ Len(s) = Len(q) - 1 /\ Len(q) \in Nat \ {0}
      /\ Head(q) = q[1] /\ Head(q) \in S
      /\ \A k \in 1..(Len(q) - 1) : s[k] = q[k + 1]
  OBVIOUS
<1> HIDE DEF s
<1>2. Distinct(s)
  BY <1>1 DEF Distinct
<1>3. ASSUME NEW r \in S, Contains(s, r) PROVE Contains(q, r) /\ r # Head(q)
  <2>1. PICK k \in 1..Len(s) : s[k] = r
    BY <1>3 DEF Contains
  <2>2. \E j \in 1..Len(q) : q[j] = r /\ j # 1
    BY <1>1, <2>1
  <2> QED BY <1>1, <2>2 DEF Contains, Distinct
<1>4. ASSUME NEW r \in S, Contains(q, r), r # Head(q) PROVE Contains(s, r)
  <2>1. PICK j \in 1..Len(q) : q[j] = r /\ j # 1
    BY <1>1, <1>4 DEF Contains
  <2>2. j - 1 \in 1..Len(s) /\ s[j - 1] = r
    BY <1>1, <2>1
  <2> QED BY <2>2 DEF Contains
<1>5. Contains(q, Head(q))
  BY <1>1 DEF Contains
<1> QED BY <1>1, <1>2, <1>3, <1>4, <1>5 DEF s

\* And when somebody who is not in the line joins it.
LEMMA JoinsLine ==
  ASSUME NEW S, NEW q \in Seq(S), NEW n \in S, Distinct(q), ~Contains(q, n)
  PROVE  /\ Append(q, n) \in Seq(S) /\ Distinct(Append(q, n)) /\ Append(q, n) # <<>>
         /\ \A r \in S : Contains(Append(q, n), r) <=> Contains(q, r) \/ r = n
<1> DEFINE s == Append(q, n)
<1>1. /\ s \in Seq(S) /\ Len(s) = Len(q) + 1 /\ Len(q) \in Nat /\ s[Len(q) + 1] = n
      /\ \A k \in 1..Len(q) : s[k] = q[k]
  OBVIOUS
<1> HIDE DEF s
<1>2. \A k \in 1..Len(q) : q[k] # n
  BY DEF Contains
<1>3. Distinct(s) /\ s # <<>>
  BY <1>1, <1>2 DEF Distinct
<1>4. ASSUME NEW r \in S, Contains(q, r) \/ r = n PROVE Contains(s, r)
  BY <1>1, <1>4 DEF Contains
<1>5. ASSUME NEW r \in S, Contains(s, r) PROVE Contains(q, r) \/ r = n
  BY <1>1, <1>5 DEF Contains
<1> QED BY <1>1, <1>3, <1>4, <1>5 DEF s

-----------------------------------------------------------------------------
(***************************************************************************)
(* The invariant.                                                          *)
(***************************************************************************)
Request == [at : {"none", "waiting", "fetching", "streaming", "done"}, head : BOOLEAN,
            exp : Nat, remaining : Int, since : Nat,
            answer : {"none", "ok", "error"}, until : Int]

TypeOK ==
  /\ clock \in Nat
  /\ listener \in [at : {"up", "draining", "closed"}, since : Nat]
  /\ slots \in Nat
  /\ queue \in Seq(Requests)
  /\ reqs \in [Requests -> Request]

InLine == Distinct(queue) /\ SlotsAreKept

\* Request q at instant now: what it may keep, and how long it has been waiting.
OnTime(q, now) ==
  /\ q.answer # "ok" => q.until = Never
  /\ q.until <= q.exp + SlotWait + HeaderTimeout
  /\ q.at = "waiting"  => q.remaining + q.since = q.exp /\ now - q.since <= SlotWait
  /\ q.at = "fetching" => q.remaining + q.since <= q.exp + SlotWait /\ now - q.since <= HeaderTimeout

Timely == \A r \in Requests : OnTime(reqs[r], clock)

\* A request that is over asks for nothing any more.
LEMMA EndedType ==
  ASSUME NEW q \in Request, NEW answer \in {"none", "ok", "error"}, NEW until \in Int,
         answer # "ok" => until = Never, until <= q.exp + SlotWait + HeaderTimeout
  PROVE  /\ Ended(q, answer, until) \in Request /\ Ended(q, answer, until).at = "done"
         /\ OnTime(Ended(q, answer, until), clock)
<1> DEFINE e == Ended(q, answer, until)
<1>0. NoRequest \in Request /\ q.exp \in Nat
  BY DEF NoRequest, Request, Never
<1>1. /\ e \in Request /\ e.at = "done" /\ e.exp = q.exp
      /\ e.answer = answer /\ e.until = until
  BY <1>0 DEF Ended, Request
<1> HIDE DEF e
<1>2. OnTime(e, clock)
  BY <1>1 DEF OnTime
<1> QED BY <1>1, <1>2 DEF e

LEMMA EndsType ==
  ASSUME NEW q \in Request, NEW answer \in {"none", "error"}
  PROVE  /\ Ended(q, answer, Never) \in Request /\ Ended(q, answer, Never).at = "done"
         /\ OnTime(Ended(q, answer, Never), clock)
  BY ProxyAssumption, EndedType DEF Never, Request

\* The answer of Frigate to a request that was on time may be kept.
LEMMA KeptType ==
  ASSUME TypeOK, NEW q \in Request, OnTime(q, clock), q.at = "fetching", NEW answer \in {"ok", "error"}
  PROVE  /\ Ended(q, answer, Kept(q, answer)) \in Request
         /\ Ended(q, answer, Kept(q, answer)).at = "done"
         /\ OnTime(Ended(q, answer, Kept(q, answer)), clock)
<1>1. /\ Kept(q, answer) \in Int
      /\ answer # "ok" => Kept(q, answer) = Never
      /\ Kept(q, answer) <= q.exp + SlotWait + HeaderTimeout
  <2>1. /\ q.remaining \in Int /\ q.since \in Nat /\ q.exp \in Nat /\ clock \in Nat
    BY DEF Request, TypeOK
  <2> QED BY <2>1, ProxyAssumption DEF Kept, Never, OnTime
<1> QED BY <1>1, EndedType

\* A request that waited in time is served in time.
LEMMA ServedType ==
  ASSUME TypeOK, NEW q \in Request, OnTime(q, clock), q.at = "waiting"
  PROVE  /\ [q EXCEPT !.at = "fetching", !.since = clock] \in Request
         /\ OnTime([q EXCEPT !.at = "fetching", !.since = clock], clock)
<1> DEFINE e == [q EXCEPT !.at = "fetching", !.since = clock]
<1>1. /\ e \in Request /\ e.at = "fetching" /\ e.since = clock /\ e.exp = q.exp
      /\ e.remaining = q.remaining /\ e.answer = q.answer /\ e.until = q.until
  BY DEF Request, TypeOK
<1>2. /\ q.remaining \in Int /\ q.since \in Nat /\ q.exp \in Nat /\ clock \in Nat
  BY DEF Request, TypeOK
<1> HIDE DEF e
<1>3. OnTime(e, clock)
  BY <1>1, <1>2, ProxyAssumption DEF OnTime
<1> QED BY <1>1, <1>3 DEF e

-----------------------------------------------------------------------------
(***************************************************************************)
(* Counting those who hold a slot.                                         *)
(***************************************************************************)
LEMMA HoldersFinite == IsFiniteSet(Holders) /\ Cardinality(Holders) \in Nat
<1>1. Holders \subseteq Requests
  BY DEF Holders
<1> QED BY <1>1, ProxyAssumption, FS_Subset, FS_CardinalityType

LEMMA HoldersStay ==
  ASSUME \A o \in Requests : reqs'[o].at \in {"fetching", "streaming"} <=> reqs[o].at \in {"fetching", "streaming"}
  PROVE  Holders' = Holders
  BY DEF Holders

LEMMA OneMoreHolder ==
  ASSUME NEW r \in Requests, r \notin Holders, reqs'[r].at \in {"fetching", "streaming"},
         \A o \in Requests \ {r} : reqs'[o].at \in {"fetching", "streaming"} <=> reqs[o].at \in {"fetching", "streaming"}
  PROVE  Cardinality(Holders') = Cardinality(Holders) + 1
<1>1. Holders' = Holders \cup {r}
  BY DEF Holders
<1> QED BY <1>1, HoldersFinite, FS_AddElement

LEMMA OneHolderLess ==
  ASSUME NEW r \in Holders, reqs'[r].at \notin {"fetching", "streaming"},
         \A o \in Requests \ {r} : reqs'[o].at \in {"fetching", "streaming"} <=> reqs[o].at \in {"fetching", "streaming"}
  PROVE  Cardinality(Holders') = Cardinality(Holders) - 1
<1>1. Holders' = Holders \ {r}
  BY DEF Holders
<1> QED BY <1>1, HoldersFinite, FS_RemoveElement

\* A slot handed on is still held.
LEMMA HolderReplaced ==
  ASSUME NEW r \in Holders, NEW n \in Requests \ Holders,
         reqs'[r].at \notin {"fetching", "streaming"}, reqs'[n].at \in {"fetching", "streaming"},
         \A o \in Requests \ {r, n} : reqs'[o].at \in {"fetching", "streaming"} <=> reqs[o].at \in {"fetching", "streaming"}
  PROVE  Cardinality(Holders') = Cardinality(Holders)
<1>1. Holders' = (Holders \ {r}) \cup {n}
  BY DEF Holders
<1>2. IsFiniteSet(Holders \ {r}) /\ Cardinality(Holders \ {r}) = Cardinality(Holders) - 1
  BY HoldersFinite, FS_RemoveElement
<1> DEFINE R == Holders \ {r}
<1>3. n \notin R /\ IsFiniteSet(R) /\ Cardinality(R) = Cardinality(Holders) - 1 /\ Holders' = R \cup {n}
  BY <1>1, <1>2
<1> HIDE DEF R
<1>4. Cardinality(R \cup {n}) = Cardinality(R) + 1
  BY <1>3, FS_AddElement
<1> QED BY <1>3, <1>4, HoldersFinite

-----------------------------------------------------------------------------
(***************************************************************************)
(* One step at a time.                                                     *)
(***************************************************************************)
\* A request that holds a slot is over: its slot is given back, or handed to the
\* one that has waited longest.
LEMMA ReleaseKeeps ==
  ASSUME TypeOK, InLine, Timely, NEW r \in Holders, NEW q \in Request, q.at = "done",
         OnTime(q, clock), Release(r, q), UNCHANGED <<clock, listener>>
  PROVE  TypeOK' /\ InLine' /\ Timely'
<1>1. r \in Requests /\ reqs[r].at \in {"fetching", "streaming"}
  BY DEF Holders
<1>2. CASE queue = <<>>
  <2>1. /\ slots' = slots - 1 /\ reqs' = [reqs EXCEPT ![r] = q] /\ UNCHANGED queue
    BY <1>2 DEF Release
  <2>2. reqs'[r] = q /\ \A o \in Requests \ {r} : reqs'[o] = reqs[o]
    BY <1>1, <2>1 DEF TypeOK
  <2>3. Cardinality(Holders') = Cardinality(Holders) - 1
    BY <2>2, OneHolderLess
  <2>4. Cardinality(Holders') \in Nat
    <3>1. Holders' \subseteq Requests
      BY DEF Holders
    <3> QED BY <3>1, ProxyAssumption, FS_Subset, FS_CardinalityType
  <2>5. TypeOK'
    BY <2>1, <2>3, <2>4, <1>1 DEF TypeOK, InLine, SlotsAreKept
  <2>6. InLine'
    BY <1>1, <1>2, <2>1, <2>2, <2>3, HoldersFinite, ProxyAssumption DEF InLine, SlotsAreKept
  <2>7. Timely'
    BY <2>2 DEF Timely
  <2> QED BY <2>5, <2>6, <2>7
<1>3. CASE queue # <<>>
  <2> DEFINE n == Head(queue)
  <2>1. /\ Tail(queue) \in Seq(Requests) /\ Distinct(Tail(queue)) /\ n \in Requests
        /\ Contains(queue, n)
        /\ \A o \in Requests : Contains(Tail(queue), o) <=> Contains(queue, o) /\ o # n
    BY <1>3, HeadLeaves DEF TypeOK, InLine
  <2>2. reqs[n].at = "waiting" /\ n # r
    BY <1>1, <2>1 DEF InLine, SlotsAreKept
  <2>3. /\ queue' = Tail(queue) /\ UNCHANGED slots
        /\ reqs' = [reqs EXCEPT ![r] = q, ![n].at = "fetching", ![n].since = clock]
    BY <1>3 DEF Release
  <2> HIDE DEF n
  <2>4. /\ reqs'[r] = q /\ reqs'[n] = [reqs[n] EXCEPT !.at = "fetching", !.since = clock]
        /\ \A o \in Requests \ {r, n} : reqs'[o] = reqs[o]
        /\ DOMAIN reqs' = Requests /\ reqs' = [o \in Requests |-> reqs'[o]]
    BY <1>1, <2>1, <2>2, <2>3 DEF TypeOK
  <2>5. reqs[n] \in Request /\ OnTime(reqs[n], clock)
    BY <2>1 DEF TypeOK, Timely
  <2>6. reqs'[n] \in Request /\ OnTime(reqs'[n], clock) /\ reqs'[n].at = "fetching"
    <3>1. [reqs[n] EXCEPT !.at = "fetching", !.since = clock].at = "fetching"
      BY <2>5 DEF Request
    <3> QED BY <2>2, <2>4, <2>5, <3>1, ServedType
  <2>7. TypeOK'
    <3>1. \A o \in Requests : reqs'[o] \in Request
      BY <2>4, <2>6 DEF TypeOK
    <3>2. reqs' \in [Requests -> Request]
      BY <2>4, <3>1
    <3> QED BY <2>1, <2>3, <3>2 DEF TypeOK
  <2>8. Cardinality(Holders') = Cardinality(Holders)
    <3>1. n \in Requests \ Holders
      BY <2>1, <2>2 DEF Holders
    <3>2. /\ reqs'[r].at \notin {"fetching", "streaming"} /\ reqs'[n].at \in {"fetching", "streaming"}
          /\ \A o \in Requests \ {r, n} : reqs'[o].at = reqs[o].at
      BY <2>4, <2>6
    <3> QED BY <3>1, <3>2, HolderReplaced
  <2>9. InLine'
    <3>1. \A o \in Requests : reqs'[o].at = "waiting" <=> Contains(queue', o)
      BY <1>1, <2>1, <2>2, <2>3, <2>4, <2>6 DEF InLine, SlotsAreKept
    <3>2. slots' = Cardinality(Holders') /\ slots' <= Slots /\ slots' = Slots
      BY <1>3, <2>3, <2>8 DEF InLine, SlotsAreKept
    <3> QED BY <2>1, <2>3, <3>1, <3>2 DEF InLine, SlotsAreKept
  <2>10. Timely'
    BY <2>4, <2>6 DEF Timely
  <2> QED BY <2>7, <2>9, <2>10
<1> QED BY <1>2, <1>3

\* Somebody in the line gives up.
LEMMA LeaveQueueKeeps ==
  ASSUME TypeOK, InLine, Timely, NEW r \in Requests, reqs[r].at = "waiting", LeaveQueue(r),
         NEW answer \in {"none", "error"}, reqs' = [reqs EXCEPT ![r] = Ended(@, answer, Never)],
         UNCHANGED <<clock, listener, slots>>
  PROVE  TypeOK' /\ InLine' /\ Timely'
<1>1. PICK i \in 1..Len(queue) : queue[i] = r /\ queue' = RemoveAt(queue, i)
  BY DEF LeaveQueue, TypeOK
<1>2. /\ queue' \in Seq(Requests) /\ Distinct(queue')
      /\ \A o \in Requests : Contains(queue', o) <=> Contains(queue, o) /\ o # r
  BY <1>1, LeavesLine DEF TypeOK, InLine
<1> DEFINE q == Ended(reqs[r], answer, Never)
<1>3. q \in Request /\ q.at = "done" /\ OnTime(q, clock)
  BY EndsType DEF TypeOK
<1>4. reqs' = [reqs EXCEPT ![r] = q]
  OBVIOUS
<1> HIDE DEF q
<1>5. reqs'[r] = q /\ \A o \in Requests \ {r} : reqs'[o] = reqs[o]
  BY <1>4 DEF TypeOK
<1>6. Holders' = Holders
  BY <1>3, <1>5, HoldersStay
<1>7. TypeOK'
  BY <1>2, <1>3, <1>4 DEF TypeOK
<1>8. queue' # <<>> => queue # <<>>
  BY <1>1
<1>9. InLine'
  BY <1>2, <1>3, <1>5, <1>6, <1>8 DEF InLine, SlotsAreKept
<1>10. Timely'
  BY <1>3, <1>5 DEF Timely
<1> QED BY <1>7, <1>9, <1>10

\* A step of one request that leaves the line, and whether it holds a slot.
LEMMA OneMoves ==
  ASSUME TypeOK, InLine, Timely, NEW r \in Requests, NEW q \in Request, OnTime(q, clock),
         reqs' = [reqs EXCEPT ![r] = q], UNCHANGED <<clock, listener, slots, queue>>,
         reqs[r].at # "waiting" /\ q.at # "waiting",
         q.at \in {"fetching", "streaming"} <=> r \in Holders
  PROVE  TypeOK' /\ InLine' /\ Timely'
<1>1. reqs'[r] = q /\ \A o \in Requests \ {r} : reqs'[o] = reqs[o]
  BY DEF TypeOK
<1>2. Holders' = Holders
  BY <1>1, HoldersStay DEF Holders
<1>3. TypeOK'
  BY DEF TypeOK
<1>4. InLine'
  BY <1>1, <1>2 DEF InLine, SlotsAreKept
<1>5. Timely'
  BY <1>1 DEF Timely
<1> QED BY <1>3, <1>4, <1>5

-----------------------------------------------------------------------------
LEMMA ProxyInit == Init => TypeOK /\ InLine /\ Timely
<1> SUFFICES ASSUME Init PROVE TypeOK /\ InLine /\ Timely
  OBVIOUS
<1>1. TypeOK
  BY DEF Init, TypeOK, NoRequest, Request, Never
<1>2. Holders = {}
  BY DEF Init, Holders, NoRequest
<1>3. InLine
  <2>1. Cardinality(Holders) = 0
    BY <1>2, FS_EmptySet
  <2>2. Distinct(queue) /\ \A r \in Requests : ~Contains(queue, r)
    BY DEF Init, Distinct, Contains
  <2>3. slots = 0 /\ queue = <<>> /\ \A r \in Requests : reqs[r].at = "none"
    BY DEF Init, NoRequest
  <2> QED BY <2>1, <2>2, <2>3, ProxyAssumption DEF InLine, SlotsAreKept
<1>4. Timely
  <2>1. \A r \in Requests : reqs[r] = NoRequest
    BY DEF Init
  <2>2. OnTime(NoRequest, clock)
    BY ProxyAssumption DEF OnTime, NoRequest, Never
  <2> QED BY <2>1, <2>2 DEF Timely
<1> QED BY <1>1, <1>3, <1>4

LEMMA ArriveKeeps ==
  ASSUME TypeOK, InLine, Timely, NEW r \in Requests, Arrive(r)
  PROVE  TypeOK' /\ InLine' /\ Timely'
<1>0. /\ reqs[r].at = "none" /\ r \notin Holders /\ UNCHANGED <<clock, listener>> /\ clock \in Nat
      /\ ~Contains(queue, r)
  BY DEF Arrive, Holders, TypeOK, InLine, SlotsAreKept
<1>1. PICK ask \in Asks, exp \in Expiries, head \in BOOLEAN :
        LET q == [NoRequest EXCEPT !.head = head, !.exp = exp, !.remaining = Remaining(exp),
                                   !.since = clock]
            answer == Verdict(ask, exp)
        IN CASE answer # "none" ->
                  /\ reqs' = [reqs EXCEPT ![r] = Ended(q, answer, Kept(q, answer))]
                  /\ UNCHANGED <<slots, queue>>
             [] answer = "none" /\ HasRoom ->
                  /\ slots' = slots + 1
                  /\ reqs' = [reqs EXCEPT ![r] = [q EXCEPT !.at = "fetching"]]
                  /\ UNCHANGED queue
             [] answer = "none" /\ ~HasRoom ->
                  /\ queue' = Append(queue, r)
                  /\ reqs' = [reqs EXCEPT ![r] = [q EXCEPT !.at = "waiting"]]
                  /\ UNCHANGED slots
  BY DEF Arrive
<1> DEFINE q == [NoRequest EXCEPT !.head = head, !.exp = exp, !.remaining = Remaining(exp),
                                  !.since = clock]
           answer == Verdict(ask, exp)
<1>2. /\ q \in Request /\ q.exp = exp /\ q.remaining = exp - clock /\ q.since = clock
      /\ q.answer = "none" /\ q.until = Never /\ exp \in Nat
  <2>1. NoRequest \in Request /\ NoRequest.answer = "none" /\ NoRequest.until = Never
    BY DEF NoRequest, Request, Never
  <2>2. exp \in Nat /\ Remaining(exp) = exp - clock /\ Remaining(exp) \in Int
    BY <1>0, ProxyAssumption DEF Remaining
  <2> QED BY <1>0, <2>1, <2>2 DEF Request
<1>3. answer \in {"none", "ok", "error"}
  BY <1>0, <1>2 DEF Verdict, Asks, Remaining
<1> HIDE DEF q, answer
<1>4. CASE answer # "none"
  <2> DEFINE e == Ended(q, answer, Kept(q, answer))
  <2>1. reqs' = [reqs EXCEPT ![r] = e] /\ UNCHANGED <<slots, queue>>
    BY <1>1, <1>4 DEF q, answer
  <2>2. /\ Kept(q, answer) \in Int
        /\ answer # "ok" => Kept(q, answer) = Never
        /\ Kept(q, answer) <= q.exp + SlotWait + HeaderTimeout
    BY <1>0, <1>2, ProxyAssumption DEF Kept, Never
  <2>3. e \in Request /\ e.at = "done" /\ OnTime(e, clock)
    BY <1>2, <1>3, <2>2, EndedType
  <2> HIDE DEF e
  <2> QED BY <1>0, <2>1, <2>3, OneMoves
<1>5. CASE answer = "none" /\ HasRoom
  <2> DEFINE e == [q EXCEPT !.at = "fetching"]
  <2>1. slots' = slots + 1 /\ reqs' = [reqs EXCEPT ![r] = e] /\ UNCHANGED queue
    BY <1>1, <1>5 DEF q, answer
  <2>2. /\ e \in Request /\ e.at = "fetching" /\ e.exp = exp /\ e.remaining = exp - clock
        /\ e.since = clock /\ e.answer = "none" /\ e.until = Never
    BY <1>2 DEF Request
  <2> HIDE DEF e
  <2>3. OnTime(e, clock)
    BY <1>0, <1>2, <2>2, ProxyAssumption DEF OnTime, Never
  <2>4. reqs'[r] = e /\ \A o \in Requests \ {r} : reqs'[o] = reqs[o]
    BY <2>1 DEF TypeOK
  <2>5. Cardinality(Holders') = Cardinality(Holders) + 1
    BY <1>0, <2>2, <2>4, OneMoreHolder
  <2>6. queue = <<>>
    <3>1. slots # Slots
      BY <1>5, ProxyAssumption DEF HasRoom, TypeOK
    <3> QED BY <3>1 DEF InLine, SlotsAreKept
  <2>7. TypeOK'
    BY <1>0, <2>1, <2>2 DEF TypeOK
  <2>8. slots' = Cardinality(Holders') /\ slots' <= Slots
    BY <1>5, <2>1, <2>5, ProxyAssumption DEF TypeOK, HasRoom, InLine, SlotsAreKept
  <2>9. InLine'
    BY <1>0, <2>1, <2>2, <2>4, <2>6, <2>8 DEF InLine, SlotsAreKept
  <2>10. Timely'
    BY <1>0, <2>3, <2>4 DEF Timely
  <2> QED BY <2>7, <2>9, <2>10
<1>6. CASE answer = "none" /\ ~HasRoom
  <2> DEFINE e == [q EXCEPT !.at = "waiting"]
  <2>1. queue' = Append(queue, r) /\ reqs' = [reqs EXCEPT ![r] = e] /\ UNCHANGED slots
    BY <1>1, <1>6 DEF q, answer
  <2>2. /\ e \in Request /\ e.at = "waiting" /\ e.exp = exp /\ e.remaining = exp - clock
        /\ e.since = clock /\ e.answer = "none" /\ e.until = Never
    BY <1>2 DEF Request
  <2> HIDE DEF e
  <2>3. OnTime(e, clock)
    BY <1>0, <1>2, <2>2, ProxyAssumption DEF OnTime, Never
  <2>4. reqs'[r] = e /\ \A o \in Requests \ {r} : reqs'[o] = reqs[o]
    BY <2>1 DEF TypeOK
  <2>5. Holders' = Holders
    BY <1>0, <2>2, <2>4, HoldersStay
  <2>6. /\ queue' \in Seq(Requests) /\ Distinct(queue') /\ queue' # <<>>
        /\ \A o \in Requests : Contains(queue', o) <=> Contains(queue, o) \/ o = r
    BY <1>0, <2>1, JoinsLine DEF TypeOK, InLine
  <2>7. TypeOK'
    BY <1>0, <2>1, <2>2, <2>6 DEF TypeOK
  <2>8. slots' = Cardinality(Holders') /\ slots' <= Slots /\ slots' = Slots
    BY <1>6, <2>1, <2>5, ProxyAssumption DEF TypeOK, HasRoom, InLine, SlotsAreKept
  <2>9. \A o \in Requests : reqs'[o].at = "waiting" <=> Contains(queue', o)
    BY <2>2, <2>4, <2>6 DEF InLine, SlotsAreKept
  <2>10. InLine'
    BY <2>6, <2>8, <2>9 DEF InLine, SlotsAreKept
  <2>11. Timely'
    BY <1>0, <2>3, <2>4 DEF Timely
  <2> QED BY <2>7, <2>10, <2>11
<1> QED BY <1>4, <1>5, <1>6

LEMMA ProxyNext == TypeOK /\ InLine /\ Timely /\ [Next]_vars => TypeOK' /\ InLine' /\ Timely'
<1> SUFFICES ASSUME TypeOK, InLine, Timely, [Next]_vars PROVE TypeOK' /\ InLine' /\ Timely'
  OBVIOUS
<1>1. ASSUME NEW r \in Requests, TurnAway(r) PROVE TypeOK' /\ InLine' /\ Timely'
  BY <1>1, LeaveQueueKeeps DEF TurnAway, TimesOut
<1>2. ASSUME NEW r \in Requests, Leave(r) PROVE TypeOK' /\ InLine' /\ Timely'
  <2>1. CASE reqs[r].at = "waiting" /\ LeaveQueue(r) /\ UNCHANGED slots
             /\ reqs' = [reqs EXCEPT ![r] = Ended(@, "none", Never)]
    BY <1>2, <2>1, LeaveQueueKeeps DEF Leave
  <2>2. CASE r \in Holders /\ Release(r, Ended(reqs[r], "none", Never))
    <3>1. reqs[r] \in Request
      BY DEF TypeOK
    <3> QED BY <1>2, <2>2, <3>1, EndsType, ReleaseKeeps DEF Leave
  <2> QED BY <1>2, <2>1, <2>2 DEF Leave, Holders
<1>3. ASSUME NEW r \in Requests, FetchFails(r) PROVE TypeOK' /\ InLine' /\ Timely'
  <2>1. reqs[r] \in Request /\ r \in Holders
    BY <1>3 DEF TypeOK, FetchFails, Holders
  <2> QED BY <1>3, <2>1, EndsType, ReleaseKeeps DEF FetchFails
<1>4. ASSUME NEW r \in Requests, Respond(r) PROVE TypeOK' /\ InLine' /\ Timely'
  <2>1. reqs[r] \in Request /\ r \in Holders /\ reqs[r].at = "fetching" /\ OnTime(reqs[r], clock)
    BY <1>4 DEF TypeOK, Respond, Holders, Timely
  <2>2. PICK answer \in {"ok", "error"} :
          LET q == Ended(reqs[r], answer, Kept(reqs[r], answer))
          IN IF reqs[r].head THEN Release(r, q)
             ELSE reqs' = [reqs EXCEPT ![r] = [q EXCEPT !.at = "streaming"]] /\ UNCHANGED <<slots, queue>>
    BY <1>4 DEF Respond
  <2> DEFINE q == Ended(reqs[r], answer, Kept(reqs[r], answer))
             e == [q EXCEPT !.at = "streaming"]
  <2>3. q \in Request /\ q.at = "done" /\ OnTime(q, clock)
    BY <2>1, KeptType
  <2>4. UNCHANGED <<clock, listener>>
    BY <1>4 DEF Respond
  <2>5. CASE reqs[r].head
    <3>1. Release(r, q)
      BY <2>2, <2>5
    <3> HIDE DEF q
    <3> QED BY <2>1, <2>3, <2>4, <3>1, ReleaseKeeps
  <2>6. CASE ~reqs[r].head
    <3>1. reqs' = [reqs EXCEPT ![r] = e] /\ UNCHANGED <<slots, queue>>
      BY <2>2, <2>6
    <3> HIDE DEF q
    <3>2. /\ e \in Request /\ e.at = "streaming" /\ e.answer = q.answer /\ e.until = q.until
          /\ e.exp = q.exp
      BY <2>3 DEF Request
    <3> HIDE DEF e
    <3>3. OnTime(e, clock)
      BY <2>3, <3>2 DEF OnTime
    <3> QED BY <2>1, <2>4, <3>1, <3>2, <3>3, OneMoves
  <2> QED BY <2>5, <2>6
<1>5. ASSUME NEW r \in Requests, StreamEnds(r) PROVE TypeOK' /\ InLine' /\ Timely'
  <2> DEFINE e == [reqs[r] EXCEPT !.at = "done"]
  <2>1. reqs[r] \in Request /\ OnTime(reqs[r], clock) /\ r \in Holders
    BY <1>5 DEF TypeOK, Timely, StreamEnds, Holders
  <2>2. /\ e \in Request /\ e.at = "done" /\ e.answer = reqs[r].answer /\ e.until = reqs[r].until
        /\ e.exp = reqs[r].exp
    BY <2>1 DEF Request
  <2>3. Release(r, e) /\ UNCHANGED <<clock, listener>>
    BY <1>5 DEF StreamEnds
  <2> HIDE DEF e
  <2>4. OnTime(e, clock)
    BY <2>1, <2>2 DEF OnTime
  <2> QED BY <2>1, <2>2, <2>3, <2>4, ReleaseKeeps
<1>6. ASSUME Stop PROVE TypeOK' /\ InLine' /\ Timely'
  <2>1. UNCHANGED <<clock, slots, queue, reqs>>
    BY <1>6 DEF Stop
  <2>2. TypeOK'
    BY <1>6 DEF Stop, TypeOK
  <2> QED BY <2>1, <2>2 DEF InLine, SlotsAreKept, Holders, Timely
<1>7. ASSUME Close PROVE TypeOK' /\ InLine' /\ Timely'
  <2>1. ASSUME NEW r \in Requests
        PROVE  reqs'[r] \in Request /\ reqs'[r].at \in {"none", "done"} /\ OnTime(reqs'[r], clock)
    <3>0. reqs[r] \in Request /\ OnTime(reqs[r], clock)
      BY DEF TypeOK, Timely
    <3>1. CASE r \in Active
      <4>1. reqs'[r] = Ended(reqs[r], "none", Never)
        BY <1>7, <3>1 DEF Close
      <4> QED BY <3>0, <4>1, EndsType
    <3>2. CASE r \notin Active
      <4>1. reqs'[r] = reqs[r]
        BY <1>7, <3>2 DEF Close
      <4> QED BY <3>0, <3>2, <4>1 DEF Active, Request
    <3> QED BY <3>1, <3>2
  <2>2. /\ slots' = 0 /\ queue' = <<>> /\ UNCHANGED clock
        /\ listener' = [listener EXCEPT !.at = "closed"]
        /\ reqs' = [r \in Requests |-> reqs'[r]]
    BY <1>7 DEF Close
  <2>3. TypeOK'
    BY <2>1, <2>2 DEF TypeOK
  <2>4. Holders' = {}
    BY <2>1 DEF Holders
  <2>5. Cardinality(Holders') = 0
    BY <2>4, FS_EmptySet
  <2>6. Distinct(queue') /\ \A r \in Requests : ~Contains(queue', r)
    BY <2>2 DEF Distinct, Contains
  <2>7. InLine'
    BY <2>1, <2>2, <2>5, <2>6, ProxyAssumption DEF InLine, SlotsAreKept
  <2>8. Timely'
    BY <2>1, <2>2 DEF Timely
  <2> QED BY <2>3, <2>7, <2>8
<1>8. ASSUME Tick PROVE TypeOK' /\ InLine' /\ Timely'
  <2>1. clock' = clock + 1 /\ UNCHANGED <<listener, slots, queue, reqs>> /\ clock \in Nat
    BY <1>8 DEF Tick, TypeOK
  <2>2. TypeOK'
    BY <2>1 DEF TypeOK
  <2>3. InLine'
    BY <2>1 DEF InLine, SlotsAreKept, Holders
  <2>4. ASSUME NEW r \in Requests PROVE OnTime(reqs[r], clock + 1)
    <3>1. /\ reqs[r].at = "waiting" => ~(clock - reqs[r].since >= SlotWait)
          /\ reqs[r].at = "fetching" => clock - reqs[r].since < HeaderTimeout
      BY <1>8 DEF Tick, TimesOut
    <3>2. reqs[r].since \in Nat /\ OnTime(reqs[r], clock)
      BY DEF TypeOK, Request, Timely
    <3> QED BY <2>1, <3>1, <3>2, ProxyAssumption DEF OnTime
  <2>5. Timely'
    BY <2>1, <2>4 DEF Timely
  <2> QED BY <2>2, <2>3, <2>5
<1>9. CASE UNCHANGED vars
  BY <1>9 DEF vars, TypeOK, InLine, SlotsAreKept, Holders, Timely
<1> QED BY <1>1, <1>2, <1>3, <1>4, <1>5, <1>6, <1>7, <1>8, <1>9, ArriveKeeps DEF Next

LEMMA ProxyInvariant == Spec => [](TypeOK /\ InLine /\ Timely)
  BY ProxyInit, ProxyNext, PTL DEF Spec

\* Whichever way requests end (served, refused by load, given up by their client,
\* failed upstream, cut off at shutdown), a token is in the channel for each that
\* holds a slot, and nobody waits while one is free.
THEOREM SlotsKept == Spec => []SlotsAreKept
<1>1. InLine => SlotsAreKept
  BY DEF InLine
<1> QED BY <1>1, ProxyInvariant, PTL

\* An error may not be kept, and a file not longer than its link lives plus the two
\* waits between verifying the link and answering.
THEOREM KeptInTime == Spec => []KeptNoLonger
<1>1. Timely => KeptNoLonger
  BY DEF Timely, OnTime, KeptNoLonger
<1> QED BY <1>1, ProxyInvariant, PTL
=============================================================================
