------------------------------ MODULE Notifier ------------------------------
(***************************************************************************)
(* internal/notifier: what the service does with Frigate's review messages *)
(* and GenAI descriptions.                                                 *)
(*                                                                         *)
(* Goroutines.  Paho dispatches every message on one goroutine (Mqtt), and *)
(* the handlers run on it to completion.  Each holdoff is a time.AfterFunc *)
(* timer whose function runs on a goroutine of its own (Holds), beside the *)
(* dispatch and beside each other.  A step is one store operation, one     *)
(* critical section of pendingMu, or one send to one target.               *)
(*                                                                         *)
(* Abstractions.  A payload is its fingerprint class ("content") and its   *)
(* phase; which rule matches it is any member of MayMatch[content], since  *)
(* clocks and Home Assistant also decide.  A target is one entry of a      *)
(* recipient's list.  Policy is the verdict alone; the hourly count and    *)
(* the digest behind it are module Policy's.                               *)
(***************************************************************************)
EXTENDS FailOpen, FiniteSets

CONSTANTS
  Reviews,       \* review ids
  Recipients,    \* configured recipients
  Targets,       \* every target of every recipient
  OwnerOf,       \* OwnerOf[t]: the recipient target t belongs to
  AllowCritical, \* recipients with allowCritical
  Restricted,    \* recipients with skipWhenOnly, activeHours or maxPerHour
  NumRules,      \* length of the rule list
  Rules,         \* Rules[i]: [to, critical, holdoff, cooldown, scope]
  CameraOf,      \* CameraOf[r]: the camera of review r
  Cameras,       \* cameras in the config
  HasEvent,      \* reviews whose payload names a detection
  MaxContent,    \* contents are 1..MaxContent, in the order Frigate reports them
  MayMatch,      \* MayMatch[c]: indexes Match may return; 0 is Go's -1
  Descriptions,  \* GenAI object descriptions
  Mqtt,          \* the dispatch goroutine
  Holds,         \* holdoff timers that may be live at once
  None,          \* an absent value
  WindowOutlivesSend, \* cooldowns are longer than a send takes
  Expirable,     \* key families whose TTL may run out
  MaxArrivals, MaxFaults, MaxSendFaults, MaxExpiries, MaxRestarts

Procs    == {Mqtt} \cup Holds
Contents == 1..MaxContent
RuleIds  == 1..NumRules
Scope    == {"camera", "rule", "global"}

ASSUME ConfigAssumption ==
  /\ OwnerOf \in [Targets -> Recipients]
  /\ AllowCritical \subseteq Recipients
  /\ Restricted \subseteq Recipients
  /\ NumRules \in Nat \ {0}
  /\ Rules \in [RuleIds -> [to : SUBSET Recipients, critical : BOOLEAN,
                            holdoff : BOOLEAN, cooldown : BOOLEAN, scope : Scope]]
  /\ HasEvent \subseteq Reviews
  /\ MaxContent \in Nat \ {0}
  /\ MayMatch \in [Contents -> SUBSET (0..NumRules)]

-----------------------------------------------------------------------------
(***************************************************************************)
(* Data.                                                                   *)
(***************************************************************************)
Phases   == {"new", "update", "end", "genai", "description"}
Tags     == {"fn", "fn-esc"}
SameTag  == ""    \* Delivery.Tag unset: the notification is under the state's tag
Message  == [review : Reviews, phase : Phases, content : Contents]

Delivery == [target : Targets, tag : Tags \cup {SameTag}]

\* What is remembered of a notified review.  "ended": the payload it was last
\* rendered from has an end time.
ReviewState == [ruleIndex : RuleIds, tag : Tags, deliveries : SUBSET Delivery,
                critical : BOOLEAN, ended : BOOLEAN]

\* A notification as the target shows it: the rule that styled it, whether it
\* is critical, whether it was rendered from an ended payload, its description.
Shown == [rule : RuleIds, critical : BOOLEAN, ended : BOOLEAN,
          text : Descriptions \cup {None}]

ASSUME ModelAssumption ==
  /\ Reviews # {}
  /\ Mqtt \notin Holds
  /\ None \notin Reviews \cup Holds \cup Descriptions
  /\ None \notin Message /\ None \notin ReviewState /\ None \notin Shown
  /\ WindowOutlivesSend \in BOOLEAN
  /\ Expirable \subseteq {"seen", "cooldown", "review", "event", "description"}
  /\ {MaxArrivals, MaxFaults, MaxSendFaults, MaxExpiries, MaxRestarts} \subseteq Nat

\* Fault: the global scope forgotten.
CooldownKeyWithoutGlobal(i, r) ==
  IF Rules[i].scope = "rule" THEN <<"rule", i>> ELSE <<"camera", i, CameraOf[r]>>

CooldownKey(i, r) ==
  CASE Rules[i].scope = "global" -> <<"global">>
    [] Rules[i].scope = "rule"   -> <<"rule", i>>
    [] OTHER                     -> <<"camera", i, CameraOf[r]>>

CooldownKeys == {CooldownKey(i, r) : i \in RuleIds, r \in Reviews}

VARIABLES
  \* the store, one table per key family, and the process's context
  seen,      \* fn:seen      [Backends -> SUBSET Message]
  cooling,   \* fn:cooldown  [Backends -> [key -> review that opened it or None]]
  reviews,   \* fn:review    [Backends -> [Reviews -> ReviewState or None]]
  events,    \* fn:event     [Backends -> reviews whose event key is set]
  descs,     \* fn:desc      [Backends -> [Reviews -> description or None]]
  canceled,  \* SIGTERM was received
  \* the process
  pc,        \* pc[p]: where goroutine p is
  job,       \* job[p]: its locals; for an armed timer, its pendingDecision
  pending,   \* pending[r]: the live holdoff of review r, or None
  \* the world
  phone,     \* phone[r][t][tag]: the notification target t shows, or None
  rings,     \* rings[r][t]: pushes of review r target t rang for
  life,      \* life[r]: the newest message Frigate published on review r
  last,      \* the last review message handed to the service
  budget     \* what is left of every bound

store == <<seen, cooling, reviews, events, descs>>
world == <<phone, rings>>
vars  == <<store, canceled, pc, job, pending, world, life, last, budget>>

Job == [review : Reviews, phase : Phases, content : Contents, holding : BOOLEAN,
        rule : RuleIds, tag : Tags, prior : ReviewState \cup {None},
        text : Descriptions \cup {None},
        todo : SUBSET Delivery, sent : SUBSET Delivery]

\* A goroutine that has nothing to do.
Blank == [review |-> CHOOSE r \in Reviews : TRUE, phase |-> "new", content |-> 1,
          holding |-> FALSE, rule |-> 1, tag |-> "fn", prior |-> None,
          text |-> None, todo |-> {}, sent |-> {}]

Budget == [arrivals : Nat, faults : Nat, sends : Nat, expiries : Nat, restarts : Nat]

PcValues == {"idle", "armed", "fired", "match", "load", "cooldown", "render",
             "send", "rerender", "edit", "index", "late"}

-----------------------------------------------------------------------------
(***************************************************************************)
(* Helpers.                                                                *)
(***************************************************************************)
Goto(p, l) == pc' = [pc EXCEPT ![p] = l]
Become(p, j) == job' = [job EXCEPT ![p] = j]
Done(p) == Goto(p, "idle") /\ Become(p, Blank)

\* One store operation and what it costs.
Reached(w) == w \in Reach(canceled, budget.faults)
Paid(w)    == [budget EXCEPT !.faults = Spend(canceled, @, w)]

\* Two operations in a row.
ReachedBoth(v, w) == Reached(v) /\ w \in Reach(canceled, Paid(v).faults)
PaidBoth(v, w)    == [budget EXCEPT !.faults = Spend(canceled, Paid(v).faults, w)]

\* AllowCritical && rule.Critical: the recipient gets the critical form.
Wakes(i, t) == Rules[i].critical /\ OwnerOf[t] \in AllowCritical

Escalating(p) == job[p].prior # None

\* Fault: the end of a review is not a phase that updates.
EndedByGenAIOnly(phase) == phase \in {"genai", "description"}

Ended(phase) == phase \in {"end", "genai", "description"}

\* The tag a notification was delivered under: cmp.Or(d.Tag, state.Tag).
TagOf(d, tag) == IF d.tag = SameTag THEN tag ELSE d.tag

\* Fault: nothing is carried over.
CarryNothingOver(sent, prior) == sent

\* The earlier notification of every target an escalation did not reach, under
\* the tag it was sent with.
CarryOver(sent, prior) ==
  sent \cup {[target |-> d.target, tag |-> TagOf(d, prior.tag)] :
               d \in {e \in prior.deliveries : \A s \in sent : s.target # e.target}}

-----------------------------------------------------------------------------
(***************************************************************************)
(* The broker.  Frigate publishes new, update*, end and genai messages of  *)
(* a review in that order, on growing contents; any of them is lost while  *)
(* the service is down, and the newest may be handed over again (QoS 1).   *)
(***************************************************************************)
Publishable(m) ==
  LET l == life[m.review] IN
  /\ m.phase # "description"
  /\ \/ l = None
     \/ /\ l # None
        /\ m.content >= l.content
        /\ \/ l.phase \in {"new", "update"} /\ m.phase # "new"
           \/ l.phase = "end" /\ m.phase = "genai"
           \/ l.phase = "genai" /\ m.phase = "genai" /\ m.content > l.content

\* Fault: an update replaces the phase of a waiting decision, not its payload.
NotedPhaseOnly(h, m) == [job[h] EXCEPT !.phase = m.phase]

\* A live holdoff's locals once it has taken the newer payload m.
Noted(h, m) == [job[h] EXCEPT !.phase = m.phase, !.content = m.content]

\* Fault: a decided review stays in the pending map.
StillHeld(r) == pending

\* The pending map without review r.
Unheld(r) == [pending EXCEPT ![r] = None]

\* HandleReview up to the redelivery guard, which answers "first".
Receive(m, w, first) ==
  /\ pc[Mqtt] = "idle"
  /\ budget.arrivals > 0
  /\ Publishable(m) \/ m = last
  /\ Reached(w)
  /\ first = (m \notin seen[Answer(w)])
  /\ seen' = Applied(seen, w, [b \in Backends |-> seen[b] \cup {m}])
  /\ life' = [life EXCEPT ![m.review] = m]
  /\ last' = m
  /\ budget' = [Paid(w) EXCEPT !.arrivals = @ - 1]
  /\ UNCHANGED <<cooling, reviews, events, descs, canceled, world>>

\* The same on Valkey, which refuses a claim that it granted before the answer
\* was lost: the message is taken for a redelivery of itself, and dropped.
LoseOwnMessage(m) ==
  /\ pc[Mqtt] = "idle"
  /\ budget.arrivals > 0
  /\ Publishable(m) \/ m = last
  /\ Resendable(canceled, budget.faults)
  /\ m \notin seen["primary"]
  /\ seen' = [seen EXCEPT !["primary"] = @ \cup {m}]
  /\ life' = [life EXCEPT ![m.review] = m]
  /\ last' = m
  /\ budget' = [budget EXCEPT !.arrivals = @ - 1, !.faults = @ - 1]
  /\ UNCHANGED <<cooling, reviews, events, descs, canceled, pc, job, pending, world>>

Configured(m) == CameraOf[m.review] \in Cameras
Started(m, holding) == [Blank EXCEPT !.review = m.review, !.phase = m.phase,
                                     !.content = m.content, !.holding = holding]

\* A redelivery, or a review of a camera that is not in the config.
IgnoreReview(m, w) ==
  /\ \/ Receive(m, w, FALSE)
     \/ Receive(m, w, TRUE) /\ ~Configured(m)
  /\ UNCHANGED <<pc, job, pending>>

\* A GenAI summary goes straight to the review's state, past the rules.
HandleGenAI(m, w) ==
  /\ m.phase = "genai"
  /\ Receive(m, w, TRUE)
  /\ Configured(m)
  /\ Goto(Mqtt, "load")
  /\ Become(Mqtt, Started(m, FALSE))
  /\ UNCHANGED pending

\* noteLatest without a live holdoff.
HandlePhase(m, w) ==
  /\ m.phase # "genai"
  /\ Receive(m, w, TRUE)
  /\ Configured(m)
  /\ pending[m.review] = None
  /\ Goto(Mqtt, "match")
  /\ Become(Mqtt, Started(m, FALSE))
  /\ UNCHANGED pending

\* noteLatest with one: it takes the newer payload and goes on waiting.
HandlePhaseWhileHeld(m, w) ==
  /\ m.phase \notin {"end", "genai"}
  /\ Receive(m, w, TRUE)
  /\ Configured(m)
  /\ pending[m.review] # None
  /\ Goto(Mqtt, "match")
  /\ job' = [job EXCEPT ![Mqtt] = Started(m, TRUE),
                        ![pending[m.review]] = Noted(pending[m.review], m)]
  /\ UNCHANGED pending

\* noteLatest at the end: timer.Stop and delete.  A timer that has fired and
\* waits for pendingMu is past stopping.
HandleEndWhileHeld(m, w) ==
  LET h == pending[m.review] IN
  /\ m.phase = "end"
  /\ Receive(m, w, TRUE)
  /\ Configured(m)
  /\ h # None
  /\ pc' = [pc EXCEPT ![Mqtt] = "match", ![h] = IF @ = "armed" THEN "idle" ELSE @]
  /\ job' = [job EXCEPT ![Mqtt] = Started(m, FALSE),
                        ![h] = IF pc[h] = "armed" THEN Blank ELSE @]
  /\ pending' = Unheld(m.review)

-----------------------------------------------------------------------------
(***************************************************************************)
(* Holdoffs (deferDecision).                                               *)
(***************************************************************************)
\* The delay is over: the timer's goroutine starts and asks for pendingMu.
TimerFires(h) ==
  /\ pc[h] = "armed"
  /\ Goto(h, "fired")
  /\ UNCHANGED <<store, canceled, job, pending, world, life, last, budget>>

\* Fault: an update replaces the entry the timer compares itself with.
LiveIfUntouched(h) == pending[job[h].review] = h /\ job[h].phase = "new"

\* The pending map still names this timer.
Live(h) == pending[job[h].review] = h

\* It finds itself live, takes the newest payload and decides, unless the
\* service is stopping.
TimerDecides(h) ==
  /\ pc[h] = "fired"
  /\ Live(h)
  /\ pending' = Unheld(job[h].review)
  /\ IF canceled THEN Done(h) ELSE Goto(h, "match") /\ UNCHANGED job
  /\ UNCHANGED <<store, canceled, world, life, last, budget>>

\* It finds that an end decided this review while it waited for the lock.
TimerIsLate(h) ==
  /\ pc[h] = "fired"
  /\ ~Live(h)
  /\ Done(h)
  /\ UNCHANGED <<store, canceled, pending, world, life, last, budget>>

\* A first match at "new", or one while a holdoff is live, may have to wait.
MustWait(p, i) ==
  /\ p = Mqtt
  /\ job[p].phase = "new" \/ job[p].holding
  /\ Rules[i].holdoff

\* decide: no rule matches.
Unmatched(p) ==
  /\ pc[p] = "match"
  /\ 0 \in MayMatch[job[p].content]
  /\ Done(p)
  /\ UNCHANGED <<store, canceled, pending, world, life, last, budget>>

\* decide: rule i matches and asks for a holdoff.  A live one takes the
\* payload; otherwise a new timer is armed.
DeferDecision(p, i) ==
  LET j == job[p] IN
  /\ pc[p] = "match"
  /\ i \in MayMatch[j.content] \ {0}
  /\ MustWait(p, i)
  /\ IF pending[j.review] # None
     THEN /\ Goto(p, "idle")
          /\ job' = [job EXCEPT ![p] = Blank,
                                ![pending[j.review]] = Noted(pending[j.review], j)]
          /\ UNCHANGED pending
     ELSE \E h \in Holds :
          /\ pc[h] = "idle"
          /\ pc' = [pc EXCEPT ![p] = "idle", ![h] = "armed"]
          /\ job' = [job EXCEPT ![p] = Blank, ![h] = [j EXCEPT !.holding = FALSE]]
          /\ pending' = [pending EXCEPT ![j.review] = h]
  /\ UNCHANGED <<store, canceled, world, life, last, budget>>

\* decide: rule i matches and is acted on now.
MatchNow(p, i) ==
  /\ pc[p] = "match"
  /\ i \in MayMatch[job[p].content] \ {0}
  /\ ~MustWait(p, i)
  /\ Goto(p, "load")
  /\ Become(p, [job[p] EXCEPT !.rule = i, !.holding = FALSE])
  /\ UNCHANGED <<store, canceled, pending, world, life, last, budget>>

-----------------------------------------------------------------------------
(***************************************************************************)
(* The rest of decide, by what LoadReview answers.  One action per case of *)
(* the switch; handleGenAI shares the first and the fourth.                *)
(***************************************************************************)
Loads(p, w) ==
  /\ pc[p] = "load"
  /\ Reached(w)
  /\ budget' = Paid(w)
  /\ UNCHANGED <<store, canceled, pending, world, life, last>>

Loaded(p, w) == reviews[Answer(w)][job[p].review]

\* Nothing was sent for this review: only a lifecycle phase may send first.
NotNotified(p, w) ==
  /\ Loads(p, w)
  /\ Loaded(p, w) = None
  /\ IF job[p].phase = "genai"
     THEN Done(p)
     ELSE Goto(p, "cooldown") /\ Become(p, [job[p] EXCEPT !.tag = "fn"])

\* Fault: any other rule will do.
Differs(p, st) == job[p].phase # "genai" /\ job[p].rule # st.ruleIndex

Outranks(p, st) == job[p].phase # "genai" /\ job[p].rule < st.ruleIndex

Escalates(p, st) == Outranks(p, st) /\ Rules[job[p].rule].critical /\ ~st.critical

\* A higher-priority rule makes it critical: a second push, under a tag of its
\* own.
Escalate(p, w) ==
  LET st == Loaded(p, w) IN
  /\ Loads(p, w)
  /\ st # None
  /\ Escalates(p, st)
  /\ Goto(p, "render")
  /\ Become(p, [job[p] EXCEPT !.prior = st, !.tag = "fn-esc"])

\* A higher-priority rule that does not: edit in place under that rule.
RefreshUnderBetterRule(p, w) ==
  LET st == Loaded(p, w) IN
  /\ Loads(p, w)
  /\ st # None
  /\ Outranks(p, st) /\ ~Escalates(p, st)
  /\ Goto(p, "rerender")
  /\ Become(p, [job[p] EXCEPT !.prior = st, !.tag = st.tag])

\* sendUpdate: edit in place under the rule it was sent with.
SendUpdate(p, w) ==
  LET st == Loaded(p, w) IN
  /\ Loads(p, w)
  /\ st # None
  /\ ~Outranks(p, st)
  /\ Ended(job[p].phase)
  /\ Goto(p, "rerender")
  /\ Become(p, [job[p] EXCEPT !.prior = st, !.tag = st.tag, !.rule = st.ruleIndex])

AlreadyNotified(p, w) ==
  LET st == Loaded(p, w) IN
  /\ Loads(p, w)
  /\ st # None
  /\ ~Outranks(p, st)
  /\ ~Ended(job[p].phase)
  /\ Done(p)

-----------------------------------------------------------------------------
(***************************************************************************)
(* Sending (sendNew, fanOut, redeliver, deliverTo).                        *)
(***************************************************************************)
KeyOf(p) == CooldownKey(job[p].rule, job[p].review)

\* Fault: no send remembers that it opened a window.
NeverCooling(p) == FALSE

\* A first send under a rule with a cooldown, which opened the window.
Cooling(p) == ~Escalating(p) /\ Rules[job[p].rule].cooldown

\* The windows after AcquireCooldown, a SetNX of the rule's key.
Claimed(p, w) ==
  Applied(cooling, w, [b \in Backends |->
    [cooling[b] EXCEPT ![KeyOf(p)] = IF @ = None THEN job[p].review ELSE @]])

\* AcquireCooldown, which answers "opened".
TryCooldown(p, w, opened) ==
  /\ pc[p] = "cooldown"
  /\ Rules[job[p].rule].cooldown
  /\ Reached(w)
  /\ opened = (cooling[Answer(w)][KeyOf(p)] = None)
  /\ cooling' = Claimed(p, w)
  /\ budget' = Paid(w)
  /\ UNCHANGED <<seen, reviews, events, descs, canceled, pending, world, life, last>>

OpenCooldown(p, w) == TryCooldown(p, w, TRUE) /\ Goto(p, "render") /\ UNCHANGED job
SuppressedByCooldown(p, w) == TryCooldown(p, w, FALSE) /\ Done(p)

\* A rule without a cooldown.
SkipCooldown(p) ==
  /\ pc[p] = "cooldown"
  /\ ~Rules[job[p].rule].cooldown
  /\ Goto(p, "render")
  /\ UNCHANGED <<store, canceled, job, pending, world, life, last, budget>>

\* buildContent reads the cached description of the review's event, if it has
\* one.
ReadsText(p, w, text) ==
  IF Descriptions = {} \/ job[p].review \notin HasEvent
  THEN w = {"memory"} /\ text = None /\ UNCHANGED budget
  ELSE /\ Reached(w)
       /\ text = descs[Answer(w)][job[p].review]
       /\ budget' = Paid(w)

\* fanOut: an escalation skips who cannot get the critical form, then policy
\* may hold back whoever does not get it.
Audiences(p) ==
  LET listed == {t \in Targets : OwnerOf[t] \in Rules[job[p].rule].to}
      asked  == {t \in listed : Escalating(p) => Wakes(job[p].rule, t)}
      muted  == {OwnerOf[t] : t \in {u \in asked : ~Wakes(job[p].rule, u)}} \cap Restricted
  IN {{t \in asked : OwnerOf[t] \notin held} : held \in SUBSET muted}

Render(p, w) ==
  /\ pc[p] = "render"
  /\ \E to \in Audiences(p), text \in Descriptions \cup {None} :
       /\ ReadsText(p, w, text)
       /\ Become(p, [job[p] EXCEPT !.text = text, !.sent = {},
                                    !.todo = [target : to, tag : {SameTag}]])
  /\ Goto(p, "send")
  /\ UNCHANGED <<store, canceled, pending, world, life, last>>

\* Fault: an update goes to everyone the rule lists.
Listed(p) == {[target |-> t, tag |-> SameTag] :
                t \in {u \in Targets : OwnerOf[u] \in Rules[job[p].rule].to}}

\* redeliver: whoever got the original, and nobody else.
Originals(p) == job[p].prior.deliveries

Rerender(p, w) ==
  /\ pc[p] = "rerender"
  /\ \E text \in Descriptions \cup {None} :
       /\ ReadsText(p, w, text)
       /\ Become(p, [job[p] EXCEPT !.text = text, !.sent = {}, !.todo = Originals(p)])
  /\ Goto(p, "edit")
  /\ UNCHANGED <<store, canceled, pending, world, life, last>>

Content(p, t) == [rule |-> job[p].rule, critical |-> Wakes(job[p].rule, t),
                  ended |-> Ended(job[p].phase), text |-> job[p].text]

\* How a send ends: it lands and says so, it lands and its answer is lost, or
\* it never lands.  With the context canceled it never starts.
Outcomes ==
  {o \in {"ok", "lost", "failed"} :
     /\ canceled => o = "failed"
     /\ ~canceled /\ o # "ok" => budget.sends > 0}
Sent(o) == IF o = "ok" \/ canceled THEN budget ELSE [budget EXCEPT !.sends = @ - 1]

Lands(p, d) ==
  phone' = [phone EXCEPT ![job[p].review][d.target][TagOf(d, job[p].tag)] =
                           Content(p, d.target)]

\* Fault: every target tried counts as reached.
TriedCounts(p, d, o) == job[p].sent \cup {d}

\* The targets that confirmed a push, with d's outcome.
Confirmed(p, d, o) == IF o = "ok" THEN job[p].sent \cup {d} ELSE job[p].sent

\* One target of a first send or an escalation.
Push(p, d, o) ==
  /\ pc[p] = "send"
  /\ d \in job[p].todo
  /\ o \in Outcomes
  /\ IF o = "failed"
     THEN UNCHANGED <<phone, rings>>
     ELSE Lands(p, d) /\ rings' = [rings EXCEPT ![job[p].review][d.target] = @ + 1]
  /\ Become(p, [job[p] EXCEPT !.todo = @ \ {d}, !.sent = Confirmed(p, d, o)])
  /\ budget' = Sent(o)
  /\ UNCHANGED <<store, canceled, pc, pending, life, last>>

\* One target of an update.
Edit(p, d, o) ==
  /\ pc[p] = "edit"
  /\ d \in job[p].todo
  /\ o \in Outcomes
  /\ IF o = "failed" THEN UNCHANGED phone ELSE Lands(p, d)
  /\ Become(p, [job[p] EXCEPT !.todo = @ \ {d}])
  /\ budget' = Sent(o)
  /\ UNCHANGED <<store, canceled, pc, pending, rings, life, last>>

-----------------------------------------------------------------------------
(***************************************************************************)
(* What is remembered (the end of sendNew and of refresh, SaveReview).     *)
(***************************************************************************)
\* Nothing went out: the cooldown this send opened is released.
ReleaseCooldown(p, w) ==
  /\ pc[p] = "send" /\ job[p].todo = {} /\ job[p].sent = {}
  /\ Cooling(p)
  /\ Reached(w)
  /\ cooling' = Written(cooling, w, KeyOf(p), None)
  /\ budget' = Paid(w)
  /\ Done(p)
  /\ UNCHANGED <<seen, reviews, events, descs, canceled, pending, world, life, last>>

\* Nothing went out and no cooldown was opened for it.
NothingDelivered(p) ==
  /\ pc[p] = "send" /\ job[p].todo = {} /\ job[p].sent = {}
  /\ ~Cooling(p)
  /\ Done(p)
  /\ UNCHANGED <<store, canceled, pending, world, life, last, budget>>

\* The state after a first send or an escalation, and after an edit.
Delivered(p) ==
  [ruleIndex |-> job[p].rule, tag |-> job[p].tag,
   deliveries |-> IF Escalating(p) THEN CarryOver(job[p].sent, job[p].prior)
                                   ELSE job[p].sent,
   critical |-> Rules[job[p].rule].critical, ended |-> Ended(job[p].phase)]

\* Faults: the state is built anew instead of copied from the prior one; the
\* newest payload is not kept.
EditedAnew(p) == [ruleIndex |-> job[p].rule, ended |-> Ended(job[p].phase)]
EditedWithOldPayload(p) == [job[p].prior EXCEPT !.ruleIndex = job[p].rule]

Edited(p) == [job[p].prior EXCEPT !.ruleIndex = job[p].rule,
                                  !.ended = Ended(job[p].phase)]

\* Everyone was tried, and there is something to remember.
HasResult(p) ==
  /\ \/ pc[p] = "send" /\ job[p].sent # {}
     \/ pc[p] = "edit"
  /\ job[p].todo = {}
Result(p) == IF pc[p] = "send" THEN Delivered(p) ELSE Edited(p)

\* SaveReview writes the review's key, then the key of its event.
SaveReview(p, w) ==
  /\ HasResult(p)
  /\ Reached(w)
  /\ reviews' = Written(reviews, w, job[p].review, Result(p))
  /\ budget' = Paid(w)
  /\ IF job[p].review \in HasEvent
     THEN Goto(p, "index") /\ Become(p, [Blank EXCEPT !.review = job[p].review])
     ELSE Done(p)
  /\ UNCHANGED <<seen, cooling, events, descs, canceled, pending, world, life, last>>

IndexEvent(p, w) ==
  /\ pc[p] = "index"
  /\ Reached(w)
  /\ events' = Applied(events, w, [b \in Backends |-> events[b] \cup {job[p].review}])
  /\ budget' = Paid(w)
  /\ Done(p)
  /\ UNCHANGED <<seen, cooling, reviews, descs, canceled, pending, world, life, last>>

-----------------------------------------------------------------------------
(***************************************************************************)
(* Commands that Valkey carried out and that go-redis is to send again:    *)
(* the goroutine is where it was, and others may come between.  A read, an *)
(* event's key and a description's, which one goroutine writes, are the    *)
(* same a second time.                                                     *)
(***************************************************************************)
Unanswered ==
  /\ Resendable(canceled, budget.faults)
  /\ budget' = [budget EXCEPT !.faults = @ - 1]
  /\ UNCHANGED <<seen, events, descs, canceled, pc, job, pending, world, life, last>>

\* The claim is refused to the one who made it, when it is sent again.
ResendClaim(p) ==
  /\ pc[p] = "cooldown" /\ Rules[job[p].rule].cooldown
  /\ Unanswered
  /\ cooling' = Claimed(p, {"primary"})
  /\ UNCHANGED reviews

\* The window is free, and may be opened by another before it is freed again.
ResendRelease(p) ==
  /\ pc[p] = "send" /\ job[p].todo = {} /\ job[p].sent = {} /\ Cooling(p)
  /\ Unanswered
  /\ cooling' = Written(cooling, {"primary"}, KeyOf(p), None)
  /\ UNCHANGED reviews

ResendSave(p) ==
  /\ HasResult(p)
  /\ Unanswered
  /\ reviews' = Written(reviews, {"primary"}, job[p].review, Result(p))
  /\ UNCHANGED cooling

Resend(p) == ResendClaim(p) \/ ResendRelease(p) \/ ResendSave(p)

-----------------------------------------------------------------------------
(***************************************************************************)
(* GenAI descriptions (HandleTrackedObjectUpdate, handleLateDescription).  *)
(* Only the dispatch goroutine writes a description's key, so reading it   *)
(* and writing it are one step.                                            *)
(***************************************************************************)
HandleDescription(r, d, read, write) ==
  /\ pc[Mqtt] = "idle"
  /\ budget.arrivals > 0
  /\ ReachedBoth(read, write)
  /\ descs' = Written(descs, write, r, d)
  /\ IF descs[Answer(read)][r] = d
     THEN UNCHANGED <<pc, job>>
     ELSE Goto(Mqtt, "late") /\ Become(Mqtt, [Blank EXCEPT !.review = r])
  /\ budget' = [PaidBoth(read, write) EXCEPT !.arrivals = @ - 1]
  /\ UNCHANGED <<seen, cooling, reviews, events, canceled, pending, world, life, last>>

\* LoadReviewByEvent: the event's key, then the review's.
LateDescription(byEvent, byReview) ==
  LET r == job[Mqtt].review IN
  LET st == reviews[Answer(byReview)][r] IN
  /\ pc[Mqtt] = "late"
  /\ ReachedBoth(byEvent, byReview)
  /\ IF r \in events[Answer(byEvent)] /\ st # None /\ st.ended
     THEN /\ Goto(Mqtt, "rerender")
          /\ Become(Mqtt, [job[Mqtt] EXCEPT !.phase = "description", !.prior = st,
                                            !.tag = st.tag, !.rule = st.ruleIndex])
     ELSE Done(Mqtt)
  /\ budget' = PaidBoth(byEvent, byReview)
  /\ UNCHANGED <<store, canceled, pending, world, life, last>>

-----------------------------------------------------------------------------
(***************************************************************************)
(* Time, SIGTERM and restarts.                                             *)
(***************************************************************************)
\* A send is under way in the window of cooldown k.
WindowInUse(k) ==
  \E p \in Procs : pc[p] \in {"render", "send"} /\ Cooling(p) /\ KeyOf(p) = k

Expiry(family) ==
  /\ family \in Expirable
  /\ budget.expiries > 0
  /\ budget' = [budget EXCEPT !.expiries = @ - 1]
  /\ UNCHANGED <<canceled, pc, job, pending, world, life, last>>

ExpireSeen(b) == \E m \in seen[b] :
  /\ Expiry("seen")
  /\ seen' = [seen EXCEPT ![b] = @ \ {m}]
  /\ UNCHANGED <<cooling, reviews, events, descs>>

ExpireCooldown(b) == \E k \in CooldownKeys :
  /\ Expiry("cooldown")
  /\ cooling[b][k] # None
  /\ WindowOutlivesSend => ~WindowInUse(k)
  /\ cooling' = [cooling EXCEPT ![b][k] = None]
  /\ UNCHANGED <<seen, reviews, events, descs>>

ExpireReview(b) == \E r \in Reviews :
  /\ Expiry("review")
  /\ reviews[b][r] # None
  /\ reviews' = [reviews EXCEPT ![b][r] = None]
  /\ UNCHANGED <<seen, cooling, events, descs>>

ExpireEvent(b) == \E r \in events[b] :
  /\ Expiry("event")
  /\ events' = [events EXCEPT ![b] = @ \ {r}]
  /\ UNCHANGED <<seen, cooling, reviews, descs>>

ExpireDescription(b) == \E r \in Reviews :
  /\ Expiry("description")
  /\ descs[b][r] # None
  /\ descs' = [descs EXCEPT ![b][r] = None]
  /\ UNCHANGED <<seen, cooling, reviews, events>>

\* SIGTERM cancels the context every handler and timer was given.
Shutdown ==
  /\ ~canceled
  /\ budget.restarts > 0
  /\ canceled' = TRUE
  /\ UNCHANGED <<store, pc, job, pending, world, life, last, budget>>

\* The process is gone, with or without a SIGTERM first, and a new one starts.
Restart ==
  /\ budget.restarts > 0
  /\ budget' = [budget EXCEPT !.restarts = @ - 1]
  /\ canceled' = FALSE
  /\ pc' = [p \in Procs |-> "idle"]
  /\ job' = [p \in Procs |-> Blank]
  /\ pending' = [r \in Reviews |-> None]
  /\ seen' = Survives(seen, {})
  /\ cooling' = Survives(cooling, [k \in CooldownKeys |-> None])
  /\ reviews' = Survives(reviews, [r \in Reviews |-> None])
  /\ events' = Survives(events, {})
  /\ descs' = Survives(descs, [r \in Reviews |-> None])
  /\ UNCHANGED <<world, life, last>>

-----------------------------------------------------------------------------
Init ==
  /\ seen = [b \in Backends |-> {}]
  /\ cooling = [b \in Backends |-> [k \in CooldownKeys |-> None]]
  /\ reviews = [b \in Backends |-> [r \in Reviews |-> None]]
  /\ events = [b \in Backends |-> {}]
  /\ descs = [b \in Backends |-> [r \in Reviews |-> None]]
  /\ canceled = FALSE
  /\ pc = [p \in Procs |-> "idle"]
  /\ job = [p \in Procs |-> Blank]
  /\ pending = [r \in Reviews |-> None]
  /\ phone = [r \in Reviews |-> [t \in Targets |-> [g \in Tags |-> None]]]
  /\ rings = [r \in Reviews |-> [t \in Targets |-> 0]]
  /\ life = [r \in Reviews |-> None]
  /\ last = None
  /\ budget = [arrivals |-> MaxArrivals, faults |-> MaxFaults, sends |-> MaxSendFaults,
               expiries |-> MaxExpiries, restarts |-> MaxRestarts]

\* What paho hands to the dispatch goroutine.
Dispatch ==
  \/ \E m \in Message, w \in SUBSET Backends :
       \/ IgnoreReview(m, w) \/ HandleGenAI(m, w)
       \/ HandlePhase(m, w)  \/ HandlePhaseWhileHeld(m, w) \/ HandleEndWhileHeld(m, w)
  \/ \E r \in HasEvent, d \in Descriptions, v, w \in SUBSET Backends :
       HandleDescription(r, d, v, w)

Timer(h) == TimerDecides(h) \/ TimerIsLate(h)

Decide(p) ==
  \/ Unmatched(p)
  \/ \E i \in RuleIds : DeferDecision(p, i) \/ MatchNow(p, i)
  \/ \E w \in SUBSET Backends :
       \/ NotNotified(p, w) \/ Escalate(p, w) \/ RefreshUnderBetterRule(p, w)
       \/ SendUpdate(p, w)  \/ AlreadyNotified(p, w)

Send(p) ==
  \/ SkipCooldown(p)
  \/ NothingDelivered(p)
  \/ \E w \in SUBSET Backends :
       \/ OpenCooldown(p, w) \/ SuppressedByCooldown(p, w)
       \/ Render(p, w) \/ Rerender(p, w)
       \/ ReleaseCooldown(p, w) \/ SaveReview(p, w) \/ IndexEvent(p, w)
  \/ \E d \in Delivery, o \in {"ok", "lost", "failed"} : Push(p, d, o) \/ Edit(p, d, o)

LookUpDescription == \E v, w \in SUBSET Backends : LateDescription(v, w)

\* A step of a goroutine that is running.
Run(p) ==
  \/ Decide(p)
  \/ Send(p)
  \/ p = Mqtt /\ LookUpDescription
  \/ p \in Holds /\ Timer(p)

Expire == \E b \in Backends :
  ExpireSeen(b) \/ ExpireCooldown(b) \/ ExpireReview(b) \/ ExpireEvent(b) \/ ExpireDescription(b)

Next ==
  \/ Dispatch
  \/ \E p \in Procs : Run(p)
  \/ \E h \in Holds : TimerFires(h)
  \/ \E m \in Message : LoseOwnMessage(m)
  \/ \E p \in Procs : Resend(p)
  \/ Expire
  \/ Shutdown
  \/ Restart

Spec == Init /\ [][Next]_vars

\* A started goroutine keeps running (every call it makes has a timeout), and
\* a timer that is neither stopped nor lost fires.
Fairness == /\ \A p \in Procs : WF_vars(Run(p))
            /\ \A h \in Holds : WF_vars(TimerFires(h))
FairSpec == Spec /\ Fairness

-----------------------------------------------------------------------------
\* Every variable holds what its declaration says.
TypeOK ==
  /\ seen \in [Backends -> SUBSET Message]
  /\ cooling \in [Backends -> [CooldownKeys -> Reviews \cup {None}]]
  /\ reviews \in [Backends -> [Reviews -> ReviewState \cup {None}]]
  /\ events \in [Backends -> SUBSET Reviews]
  /\ descs \in [Backends -> [Reviews -> Descriptions \cup {None}]]
  /\ canceled \in BOOLEAN
  /\ pc \in [Procs -> PcValues]
  /\ job \in [Procs -> Job]
  /\ pending \in [Reviews -> Holds \cup {None}]
  /\ phone \in [Reviews -> [Targets -> [Tags -> Shown \cup {None}]]]
  /\ rings \in [Reviews -> [Targets -> Nat]]
  /\ life \in [Reviews -> Message \cup {None}]
  /\ last \in Message \cup {None}
  /\ budget \in Budget
=============================================================================
