------------------------------- MODULE Policy -------------------------------
(***************************************************************************)
(* internal/notifier/policy.go: a recipient's hourly cap, and the digest   *)
(* that stands for what it holds back.                                     *)
(*                                                                         *)
(* Callers are the goroutines that fan a push out (the dispatch goroutine  *)
(* and the holdoff timers): two of them may apply one recipient's policy   *)
(* at a time.  A step is one call on a backend.  AddToDigest is a read and *)
(* a write that Store.do runs again on memory when either call fails, with *)
(* what the first run left in "entry".                                     *)
(*                                                                         *)
(* Abstractions.  A digest entry is its count; its SinceTS is wording.     *)
(* The critical form, SkipWhenOnly and the active hours settle a verdict   *)
(* before the cap ("settled").  A rate key outlives every hour of its name *)
(* (Incr renews its two hours), so it does not expire here.                *)
(***************************************************************************)
EXTENDS FailOpen

CONSTANTS
  Callers,     \* goroutines that fan out
  Recipients, Cameras,
  MaxPerHour,  \* MaxPerHour[r]: the cap of recipient r; 0 is none
  LastHour,    \* the hours are 0..LastHour
  HourName,    \* HourName[h]: hour h on the wall clock, as in the rate key
  MaxAsks, MaxFaults, MaxSendFaults, MaxRestarts,
  MaxExpiries, \* digest windows that run out
  MaxLapses    \* digest entries whose TTL runs out

Hours == 0..LastHour
Names == {HourName[h] : h \in Hours}

\* The digest keys, "digest:"+name+":"+camera.
Keys == Recipients \X Cameras

ASSUME PolicyAssumption ==
  /\ MaxPerHour \in [Recipients -> Nat]
  /\ LastHour \in Nat
  /\ Recipients # {} /\ Cameras # {}
  /\ {MaxAsks, MaxFaults, MaxSendFaults, MaxRestarts, MaxExpiries, MaxLapses} \subseteq Nat

VARIABLES
  \* the store and the process's context
  rate,     \* fn:rate             [Backends -> [Recipients -> [Names -> Nat]]]
  digest,   \* fn:digest           [Backends -> [Keys -> Nat]], 0 if absent
  window,   \* fn:cooldown:digest  [Backends -> SUBSET Keys]
  fellBack, \* the StoreFallback metric: some call failed on the primary
  canceled, \* SIGTERM was received
  \* the goroutines
  pc, job,
  \* the world
  hour,     \* the time
  asked,    \* asked[r][h]: verdicts of hour h the cap decided
  allowed,  \* allowed[r][h]: those it let through
  held,     \* held[k]: those it held back, by recipient and camera
  told,     \* told[k]: how many the digests said it held back
  digests,  \* digests[k]: digests that went out
  recounted, \* recounted[r][h]: counts of hour h that were made a second time
  budget    \* what is left of every bound

store   == <<rate, digest, window>>
journal == <<asked, allowed, held, told, digests, recounted>>
vars    == <<store, fellBack, canceled, pc, job, hour, journal, budget>>

\* A verdict in the making: whose, for which camera, at what time, and the
\* count of the digest entry at hand.
Job   == [to : Recipients, camera : Cameras, hour : Hours, entry : Nat]
Blank == [to |-> CHOOSE r \in Recipients : TRUE, camera |-> CHOOSE c \in Cameras : TRUE,
          hour |-> 0, entry |-> 0]
Budget == [asks : Nat, faults : Nat, sends : Nat, restarts : Nat, expiries : Nat, lapses : Nat]
PcValues == {"idle", "count", "read", "write", "reread", "rewrite", "window", "clear", "tell"}

KeyOf(p) == <<job[p].to, job[p].camera>>

Goto(p, l) == pc' = [pc EXCEPT ![p] = l]

\* A call on the store that takes effect on w.
Calls(w) ==
  /\ w \in Reach(canceled, budget.faults)
  /\ budget' = [budget EXCEPT !.faults = Spend(canceled, @, w)]
  /\ fellBack' = (fellBack \/ (HasPrimary /\ w # {"primary"}))

-----------------------------------------------------------------------------
\* applyPolicy up to the cap.
Ask(p, r, c, settled) ==
  /\ pc[p] = "idle"
  /\ budget.asks > 0
  /\ budget' = [budget EXCEPT !.asks = @ - 1]
  /\ IF settled \/ MaxPerHour[r] = 0
     THEN UNCHANGED <<pc, job>>
     ELSE /\ Goto(p, "count")
          /\ job' = [job EXCEPT ![p] = [to |-> r, camera |-> c, hour |-> hour, entry |-> 0]]
  /\ UNCHANGED <<store, fellBack, canceled, hour, journal>>

\* Faults: one too few, one too many.
OverAtTheCap(r, n) == n >= MaxPerHour[r]
OverPastTheCap(r, n) == n > MaxPerHour[r] + 1

Over(r, n) == n > MaxPerHour[r]

\* The counts after an Incr of the key of p's recipient and hour.
Incremented(p, w) == Applied(rate, w, [b \in Backends |->
                       [rate[b] EXCEPT ![job[p].to][HourName[job[p].hour]] = @ + 1]])

\* CountForHour, an atomic Incr, and the verdict.
Count(p, w) ==
  LET r == job[p].to
      h == job[p].hour
      n == rate[Answer(w)][r][HourName[h]] + 1 IN
  /\ pc[p] = "count"
  /\ Calls(w)
  /\ rate' = Incremented(p, w)
  /\ asked' = [asked EXCEPT ![r][h] = @ + 1]
  /\ IF Over(r, n)
     THEN /\ Goto(p, IF HasPrimary THEN "read" ELSE "reread")
          /\ held' = [held EXCEPT ![KeyOf(p)] = @ + 1]
          /\ UNCHANGED allowed
     ELSE /\ Goto(p, "idle")
          /\ allowed' = [allowed EXCEPT ![r][h] = @ + 1]
          /\ UNCHANGED held
  /\ UNCHANGED <<digest, window, canceled, job, hour, told, digests, recounted>>

-----------------------------------------------------------------------------
(***************************************************************************)
(* sendDigest.                                                             *)
(***************************************************************************)
\* Fault: the entry starts over on every event.
FoundNothing(p, b) == 0

\* The count AddToDigest starts from: the entry it finds, else what it has.
Found(p, b) == IF digest[b][KeyOf(p)] > 0 THEN digest[b][KeyOf(p)] ELSE job[p].entry

Counted(p, b) == job' = [job EXCEPT ![p].entry = Found(p, b) + 1]

\* AddToDigest's Get on the primary.
ReadDigest(p, w) ==
  /\ pc[p] = "read"
  /\ Calls(w)
  /\ IF w = {"primary"}
     THEN Goto(p, "write") /\ Counted(p, "primary")
     ELSE Goto(p, "reread") /\ UNCHANGED job
  /\ UNCHANGED <<store, canceled, hour, journal>>

Rewritten(p, b) == [digest EXCEPT ![b][KeyOf(p)] = job[p].entry]

\* Its Set there; if that fails, applied or not, all is done again on memory.
WriteDigest(p, w) ==
  /\ pc[p] = "write"
  /\ Calls(w)
  /\ digest' = IF "primary" \in w THEN Rewritten(p, "primary") ELSE digest
  /\ Goto(p, IF w = {"primary"} THEN "window" ELSE "reread")
  /\ UNCHANGED <<rate, window, canceled, job, hour, journal>>

\* Get and Set on memory, two critical sections of its mutex.
RereadDigest(p) ==
  /\ pc[p] = "reread"
  /\ Goto(p, "rewrite")
  /\ Counted(p, "memory")
  /\ UNCHANGED <<store, fellBack, canceled, hour, journal, budget>>

RewriteDigest(p) ==
  /\ pc[p] = "rewrite"
  /\ digest' = Rewritten(p, "memory")
  /\ Goto(p, "window")
  /\ UNCHANGED <<rate, window, fellBack, canceled, job, hour, journal, budget>>

\* Fault: the interval is checked and not started.
NotStarted(b, k) == window[b]

Started(b, k) == window[b] \cup {k}

\* The windows after a SetNX of p's.
Opened(p, w) == Applied(window, w, [b \in Backends |-> Started(b, KeyOf(p))])

\* AcquireCooldown for digestInterval: one digest at a time.
TryWindow(p, w) ==
  /\ pc[p] = "window"
  /\ Calls(w)
  /\ window' = Opened(p, w)
  /\ Goto(p, IF KeyOf(p) \in window[Answer(w)] THEN "idle" ELSE "clear")
  /\ UNCHANGED <<rate, digest, canceled, job, hour, journal>>

ClearDigest(p, w) ==
  /\ pc[p] = "clear"
  /\ Calls(w)
  /\ digest' = Written(digest, w, KeyOf(p), 0)
  /\ Goto(p, "tell")
  /\ UNCHANGED <<rate, window, canceled, job, hour, journal>>

\* The summary, which says what AddToDigest returned.
Tell(p, out) ==
  /\ pc[p] = "tell"
  /\ out => ~canceled
  /\ ~out /\ ~canceled => budget.sends > 0
  /\ IF out
     THEN /\ told' = [told EXCEPT ![KeyOf(p)] = @ + job[p].entry]
          /\ digests' = [digests EXCEPT ![KeyOf(p)] = @ + 1]
     ELSE UNCHANGED <<told, digests>>
  /\ budget' = IF out \/ canceled THEN budget ELSE [budget EXCEPT !.sends = @ - 1]
  /\ Goto(p, "idle")
  /\ UNCHANGED <<store, fellBack, canceled, job, hour, asked, allowed, held, recounted>>

-----------------------------------------------------------------------------
(***************************************************************************)
(* Commands that Valkey carried out and that go-redis is to send again:    *)
(* the goroutine is where it was, no call has failed, and others may come  *)
(* between.  A read is the same a second time.                             *)
(***************************************************************************)
Unanswered ==
  /\ Resendable(canceled, budget.faults)
  /\ budget' = [budget EXCEPT !.faults = @ - 1]
  /\ UNCHANGED <<fellBack, canceled, pc, job, hour, asked, allowed, held, told, digests>>

\* A verdict is counted again.
ResendCount(p) ==
  /\ pc[p] = "count"
  /\ Unanswered
  /\ rate' = Incremented(p, {"primary"})
  /\ recounted' = [recounted EXCEPT ![job[p].to][job[p].hour] = @ + 1]
  /\ UNCHANGED <<digest, window>>

ResendWrite(p) ==
  /\ pc[p] = "write"
  /\ Unanswered
  /\ digest' = Rewritten(p, "primary")
  /\ UNCHANGED <<rate, window, recounted>>

\* The interval is started, and refused to the one who started it.
ResendWindow(p) ==
  /\ pc[p] = "window"
  /\ Unanswered
  /\ window' = Opened(p, {"primary"})
  /\ UNCHANGED <<rate, digest, recounted>>

ResendClear(p) ==
  /\ pc[p] = "clear"
  /\ Unanswered
  /\ digest' = Written(digest, {"primary"}, KeyOf(p), 0)
  /\ UNCHANGED <<rate, window, recounted>>

Resend(p) == ResendCount(p) \/ ResendWrite(p) \/ ResendWindow(p) \/ ResendClear(p)

-----------------------------------------------------------------------------
ExpireWindow == \E b \in Backends : \E k \in window[b] :
  /\ budget.expiries > 0
  /\ budget' = [budget EXCEPT !.expiries = @ - 1]
  /\ window' = [window EXCEPT ![b] = @ \ {k}]
  /\ UNCHANGED <<rate, digest, fellBack, canceled, pc, job, hour, journal>>

ExpireDigest == \E b \in Backends, k \in Keys :
  /\ budget.lapses > 0
  /\ budget' = [budget EXCEPT !.lapses = @ - 1]
  /\ digest[b][k] > 0
  /\ digest' = [digest EXCEPT ![b][k] = 0]
  /\ UNCHANGED <<rate, window, fellBack, canceled, pc, job, hour, journal>>

Tick ==
  /\ hour < LastHour
  /\ hour' = hour + 1
  /\ UNCHANGED <<store, fellBack, canceled, pc, job, journal, budget>>

Shutdown ==
  /\ ~canceled
  /\ budget.restarts > 0
  /\ canceled' = TRUE
  /\ UNCHANGED <<store, fellBack, pc, job, hour, journal, budget>>

Restart ==
  /\ budget.restarts > 0
  /\ budget' = [budget EXCEPT !.restarts = @ - 1]
  /\ canceled' = FALSE
  /\ pc' = [p \in Callers |-> "idle"]
  /\ job' = [p \in Callers |-> Blank]
  /\ rate' = Survives(rate, [r \in Recipients |-> [k \in Names |-> 0]])
  /\ digest' = Survives(digest, [k \in Keys |-> 0])
  /\ window' = Survives(window, {})
  /\ UNCHANGED <<fellBack, hour, journal>>

Init ==
  /\ rate = [b \in Backends |-> [r \in Recipients |-> [k \in Names |-> 0]]]
  /\ digest = [b \in Backends |-> [k \in Keys |-> 0]]
  /\ window = [b \in Backends |-> {}]
  /\ fellBack = FALSE
  /\ canceled = FALSE
  /\ pc = [p \in Callers |-> "idle"]
  /\ job = [p \in Callers |-> Blank]
  /\ hour = 0
  /\ asked = [r \in Recipients |-> [h \in Hours |-> 0]]
  /\ allowed = [r \in Recipients |-> [h \in Hours |-> 0]]
  /\ held = [k \in Keys |-> 0]
  /\ told = [k \in Keys |-> 0]
  /\ digests = [k \in Keys |-> 0]
  /\ recounted = [r \in Recipients |-> [h \in Hours |-> 0]]
  /\ budget = [asks |-> MaxAsks, faults |-> MaxFaults, sends |-> MaxSendFaults,
               restarts |-> MaxRestarts, expiries |-> MaxExpiries, lapses |-> MaxLapses]

Run(p) ==
  \/ RereadDigest(p)
  \/ RewriteDigest(p)
  \/ \E out \in BOOLEAN : Tell(p, out)
  \/ \E w \in SUBSET Backends :
       \/ Count(p, w) \/ ReadDigest(p, w) \/ WriteDigest(p, w)
       \/ TryWindow(p, w) \/ ClearDigest(p, w)

Next ==
  \/ \E p \in Callers, r \in Recipients, c \in Cameras, settled \in BOOLEAN :
       Ask(p, r, c, settled)
  \/ \E p \in Callers : Run(p)
  \/ \E p \in Callers : Resend(p)
  \/ ExpireWindow \/ ExpireDigest
  \/ Tick
  \/ Shutdown \/ Restart

Spec == Init /\ [][Next]_vars

-----------------------------------------------------------------------------
\* Every variable holds what its declaration says.
TypeOK ==
  /\ rate \in [Backends -> [Recipients -> [Names -> Nat]]]
  /\ digest \in [Backends -> [Keys -> Nat]]
  /\ window \in [Backends -> SUBSET Keys]
  /\ fellBack \in BOOLEAN /\ canceled \in BOOLEAN
  /\ pc \in [Callers -> PcValues]
  /\ job \in [Callers -> Job]
  /\ hour \in Hours
  /\ asked \in [Recipients -> [Hours -> Nat]]
  /\ allowed \in [Recipients -> [Hours -> Nat]]
  /\ held \in [Keys -> Nat] /\ told \in [Keys -> Nat] /\ digests \in [Keys -> Nat]
  /\ recounted \in [Recipients -> [Hours -> Nat]]
  /\ budget \in Budget

\* Nobody is held back before their cap is used up, whichever backend counts and
\* whatever it forgets: when the cap decided against a push of an hour, it had let
\* MaxPerHour of that hour through ("No operation may ever suppress because of an
\* infrastructure error").  On Valkey a count that was made twice takes the place
\* of a push, and no other does.
HeldOnlyPastTheCap == \A r \in Recipients, h \in Hours :
  allowed[r][h] < asked[r][h] => allowed[r][h] + recounted[r][h] >= MaxPerHour[r]

\* While the primary answers, the cap holds across goroutines and restarts.
CapHolds == HasPrimary /\ ~fellBack =>
  \A r \in Recipients, h \in Hours : MaxPerHour[r] > 0 => allowed[r][h] <= MaxPerHour[r]

Quiet == \A p \in Callers : pc[p] = "idle"
Usual == IF HasPrimary THEN "primary" ELSE "memory"

\* Between verdicts, what was held back was told in a digest or waits for the
\* next one ("suppressed events should surface as a digest rather than
\* vanishing").
HeldIsTold == Quiet => \A k \in Keys : told[k] + digest[Usual][k] = held[k]

\* Nothing fails, stops or expires, and goroutines take turns past the cap.
Undisturbed ==
  /\ ~fellBack /\ ~canceled
  /\ budget.sends = MaxSendFaults
  /\ budget.restarts = MaxRestarts
  /\ budget.lapses = MaxLapses
  /\ \A p, q \in Callers : pc[p] = "idle" \/ pc[q] = "idle" \/ p = q

\* That much the digest does promise, whichever goroutines take turns and
\* however the intervals of its windows fall.
UndisturbedHeldIsTold == []Undisturbed => []HeldIsTold

\* What lets the next digest of a recipient and camera out: an interval that has
\* passed, or a restart that forgot it where no primary keeps it.
Intervals == (MaxExpiries - budget.expiries)
               + (IF HasPrimary THEN 0 ELSE MaxRestarts - budget.restarts)

\* digestInterval bounds the digests of a recipient and camera: one, and one
\* more for each interval that has passed or was forgotten.
DigestsAreSpaced == ~fellBack => \A k \in Keys : digests[k] <= 1 + Intervals
=============================================================================
