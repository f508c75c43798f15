--------------------------- MODULE NotifierProofs ---------------------------
(***************************************************************************)
(* The notifier, for every value of the constants.                         *)
(*                                                                         *)
(* First type correctness: TypeOK is not inductive, since an edit reads    *)
(* the state its goroutine loaded, so Locals adds what a goroutine's       *)
(* locals hold at each of its points.  Then the pending map and the timers *)
(* agree, and a holdoff carries the newest message.  Then what is on       *)
(* record is on the targets, and the notifier implements Audience: the     *)
(* invariant of that part is TypeOK, Locals, RecordIsShown and             *)
(* SendsKeepToTheirAudience together, the last two regrouped as Stored     *)
(* (about the store) and Jobs (about the goroutines).                      *)
(*                                                                         *)
(* The rest holds in some configurations only, which the theorems name:    *)
(* a cooldown that is global lets one review ring (Windows); without       *)
(* holdoffs nothing is demoted (Turn), a review is suppressed only by      *)
(* another one's push (Openings) and every ring is accounted for           *)
(* (Tallied); without escalations either, the end and the newest           *)
(* description reach whatever is on record (Final).                        *)
(***************************************************************************)
EXTENDS NotifierProperties, FiniteSetTheorems, TLAPS

-----------------------------------------------------------------------------
(***************************************************************************)
(* What the operators of FailOpen keep.                                    *)
(***************************************************************************)
\* The caller is answered by one of the backends.
LEMMA AnswerType == \A w : Answer(w) \in Backends
  BY DEF Answer, Backends

\* A table keeps its type when it is rewritten where an operation took effect.
LEMMA AppliedType ==
  ASSUME NEW S, NEW table \in [Backends -> S], NEW w, NEW v \in [Backends -> S]
  PROVE  Applied(table, w, v) \in [Backends -> S]
  BY DEF Applied

\* So does a keyed table.
LEMMA WrittenType ==
  ASSUME NEW K, NEW V, NEW table \in [Backends -> [K -> V]], NEW w,
         NEW key \in K, NEW val \in V
  PROVE  Written(table, w, key, val) \in [Backends -> [K -> V]]
  BY DEF Written, Applied

\* And a table after a restart.
LEMMA SurvivesType ==
  ASSUME NEW S, NEW table \in [Backends -> S], NEW empty \in S
  PROVE  Survives(table, empty) \in [Backends -> S]
  BY DEF Survives

\* An operation never overdraws the bound on primary failures.
LEMMA SpendType ==
  ASSUME NEW ctx \in BOOLEAN, NEW faults \in Nat, NEW w \in Reach(ctx, faults)
  PROVE  Spend(ctx, faults, w) \in Nat
  BY DEF Spend, Reach

-----------------------------------------------------------------------------
(***************************************************************************)
(* Types of what the actions are built from.                               *)
(***************************************************************************)
LEMMA BlankType == Blank \in Job /\ Blank.prior = None
  BY ConfigAssumption, ModelAssumption
     DEF Blank, Job, Contents, RuleIds, Tags, Phases

LEMMA PaidType ==
  ASSUME TypeOK, NEW w, Reached(w)
  PROVE  Paid(w) \in Budget /\ Paid(w).arrivals = budget.arrivals
<1>1. Spend(canceled, budget.faults, w) \in Nat
  BY SpendType DEF TypeOK, Reached, Budget
<1> QED BY <1>1 DEF TypeOK, Paid, Budget

LEMMA PaidBothType ==
  ASSUME TypeOK, NEW v, NEW w, ReachedBoth(v, w)
  PROVE  PaidBoth(v, w) \in Budget /\ PaidBoth(v, w).arrivals = budget.arrivals
<1>1. Paid(v).faults \in Nat
  BY PaidType DEF ReachedBoth, Budget
<1>2. Spend(canceled, Paid(v).faults, w) \in Nat
  BY <1>1, SpendType DEF TypeOK, ReachedBoth
<1> QED BY <1>2 DEF TypeOK, PaidBoth, Budget

LEMMA TagOfType ==
  ASSUME NEW d \in Delivery, NEW tag \in Tags
  PROVE  TagOf(d, tag) \in Tags
  BY DEF TagOf, Delivery

\* What is carried over is a set of deliveries.
LEMMA CarryOverType ==
  ASSUME NEW sent \in SUBSET Delivery, NEW prior \in ReviewState
  PROVE  CarryOver(sent, prior) \in SUBSET Delivery
<1>1. ASSUME NEW d \in prior.deliveries
      PROVE  [target |-> d.target, tag |-> TagOf(d, prior.tag)] \in Delivery
  <2>1. d \in Delivery /\ prior.tag \in Tags
    BY <1>1 DEF ReviewState
  <2>2. TagOf(d, prior.tag) \in Tags /\ d.target \in Targets
    BY <2>1, TagOfType DEF Delivery
  <2> QED BY <2>2 DEF Delivery
<1> QED BY <1>1 DEF CarryOver

LEMMA CooldownKeyType ==
  ASSUME NEW i \in RuleIds, NEW r \in Reviews
  PROVE  CooldownKey(i, r) \in CooldownKeys
  BY DEF CooldownKeys

LEMMA StartedType ==
  ASSUME NEW m \in Message, NEW holding \in BOOLEAN
  PROVE  Started(m, holding) \in Job /\ Started(m, holding).prior = None
  BY BlankType DEF Started, Job, Message

LEMMA LoadedType ==
  ASSUME TypeOK, NEW p \in Procs, NEW w, Loaded(p, w) # None
  PROVE  Loaded(p, w) \in ReviewState
<1>1. Answer(w) \in Backends
  BY AnswerType
<1>2. job[p].review \in Reviews
  BY DEF TypeOK, Job
<1> QED BY <1>1, <1>2 DEF TypeOK, Loaded

LEMMA GotoType ==
  ASSUME TypeOK, NEW p \in Procs, NEW l \in PcValues, Goto(p, l)
  PROVE  pc' \in [Procs -> PcValues]
  BY DEF TypeOK, Goto

LEMMA BecomeType ==
  ASSUME TypeOK, NEW p \in Procs, NEW j \in Job, Become(p, j)
  PROVE  job' \in [Procs -> Job]
  BY DEF TypeOK, Become

LEMMA DoneType ==
  ASSUME TypeOK, NEW p \in Procs, Done(p)
  PROVE  pc' \in [Procs -> PcValues] /\ job' \in [Procs -> Job]
  BY BlankType, BecomeType, GotoType DEF Done, PcValues

\* Everything but what the handlers' first step and its callers set.
LEMMA ReceiveType ==
  ASSUME TypeOK, NEW m \in Message, NEW w, NEW first, Receive(m, w, first),
         pc' \in [Procs -> PcValues], job' \in [Procs -> Job],
         pending' \in [Reviews -> Holds \cup {None}]
  PROVE  TypeOK'
<1>1. seen' \in [Backends -> SUBSET Message]
  <2>1. [b \in Backends |-> seen[b] \cup {m}] \in [Backends -> SUBSET Message]
    BY DEF TypeOK
  <2>2. seen \in [Backends -> SUBSET Message]
    BY DEF TypeOK
  <2> QED BY <2>1, <2>2, AppliedType DEF Receive
<1>2. life' \in [Reviews -> Message \cup {None}] /\ last' \in Message \cup {None}
  BY DEF TypeOK, Receive, Message
<1>3. budget' \in Budget
  <2>1. Paid(w) \in Budget /\ Paid(w).arrivals = budget.arrivals /\ budget.arrivals > 0
    BY PaidType DEF Receive
  <2>2. Paid(w).arrivals - 1 \in Nat
    BY <2>1 DEF Budget
  <2> QED BY <2>1, <2>2 DEF Receive, Budget
<1> QED BY <1>1, <1>2, <1>3 DEF Receive, TypeOK, world

\* Everything but what reading a review's state leads to.
LEMMA LoadsType ==
  ASSUME TypeOK, NEW p \in Procs, NEW w, Loads(p, w),
         pc' \in [Procs -> PcValues], job' \in [Procs -> Job]
  PROVE  TypeOK'
<1>1. budget' \in Budget
  BY PaidType DEF Loads
<1> QED BY <1>1 DEF Loads, TypeOK, store, world

LEMMA ClaimedType ==
  ASSUME TypeOK, NEW p \in Procs, NEW w
  PROVE  Claimed(p, w) \in [Backends -> [CooldownKeys -> Reviews \cup {None}]]
<1> DEFINE v == [b \in Backends |->
                  [cooling[b] EXCEPT ![KeyOf(p)] = IF @ = None THEN job[p].review ELSE @]]
<1>1. job[p].review \in Reviews
  BY DEF TypeOK, Job
<1>2. v \in [Backends -> [CooldownKeys -> Reviews \cup {None}]]
  BY <1>1 DEF TypeOK
<1>3. Claimed(p, w) = Applied(cooling, w, v)
  BY DEF Claimed
<1>4. cooling \in [Backends -> [CooldownKeys -> Reviews \cup {None}]]
  BY DEF TypeOK
<1> HIDE DEF v
<1>5. Applied(cooling, w, v) \in [Backends -> [CooldownKeys -> Reviews \cup {None}]]
  BY <1>2, <1>4, AppliedType
<1> QED BY <1>3, <1>5

LEMMA TryCooldownType ==
  ASSUME TypeOK, NEW p \in Procs, NEW w, NEW opened, TryCooldown(p, w, opened),
         pc' \in [Procs -> PcValues], job' \in [Procs -> Job]
  PROVE  TypeOK'
<1>1. budget' \in Budget
  BY PaidType DEF TryCooldown
<1>2. cooling' \in [Backends -> [CooldownKeys -> Reviews \cup {None}]]
  BY ClaimedType DEF TryCooldown
<1> QED BY <1>1, <1>2 DEF TryCooldown, TypeOK, world

LEMMA ReadsTextType ==
  ASSUME TypeOK, NEW p, NEW w, NEW text, ReadsText(p, w, text)
  PROVE  budget' \in Budget
<1>1. CASE Descriptions = {} \/ job[p].review \notin HasEvent
  BY <1>1 DEF ReadsText, TypeOK
<1>2. CASE ~(Descriptions = {} \/ job[p].review \notin HasEvent)
  BY <1>2, PaidType DEF ReadsText
<1> QED BY <1>1, <1>2

LEMMA SentType ==
  ASSUME TypeOK, NEW o \in Outcomes
  PROVE  Sent(o) \in Budget
<1>1. CASE o = "ok" \/ canceled
  BY <1>1 DEF Sent, TypeOK
<1>2. CASE ~(o = "ok" \/ canceled)
  <2>1. budget.sends > 0
    BY <1>2 DEF Outcomes
  <2>2. budget.sends - 1 \in Nat
    BY <2>1 DEF TypeOK, Budget
  <2> QED BY <1>2, <2>2 DEF Sent, TypeOK, Budget
<1> QED BY <1>1, <1>2

LEMMA ContentType ==
  ASSUME TypeOK, NEW p \in Procs, NEW t
  PROVE  Content(p, t) \in Shown
<1>1. job[p].rule \in RuleIds /\ job[p].text \in Descriptions \cup {None}
  BY DEF TypeOK, Job
<1>2. Wakes(job[p].rule, t) \in BOOLEAN
  BY <1>1, ConfigAssumption DEF Wakes
<1>3. Ended(job[p].phase) \in BOOLEAN
  BY DEF Ended
<1> QED BY <1>1, <1>2, <1>3 DEF Content, Shown

LEMMA LandsType ==
  ASSUME TypeOK, NEW p \in Procs, NEW d \in Delivery, Lands(p, d)
  PROVE  phone' \in [Reviews -> [Targets -> [Tags -> Shown \cup {None}]]]
<1>1. Content(p, d.target) \in Shown
  BY ContentType
<1>2. job[p].review \in Reviews /\ d.target \in Targets
  BY DEF TypeOK, Job, Delivery
<1>3. phone[job[p].review][d.target] \in [Tags -> Shown \cup {None}]
  BY <1>2 DEF TypeOK
<1> QED BY <1>1, <1>2, <1>3 DEF TypeOK, Lands

\* Everything but what expires.
LEMMA ExpiryType ==
  ASSUME TypeOK, NEW family, Expiry(family)
  PROVE  /\ budget' \in Budget
         /\ UNCHANGED <<canceled, pc, job, pending, phone, rings, life, last>>
<1>1. budget.expiries - 1 \in Nat
  BY DEF Expiry, TypeOK, Budget
<1> QED BY <1>1 DEF Expiry, TypeOK, Budget, world

-----------------------------------------------------------------------------
(***************************************************************************)
(* Type correctness.                                                       *)
(***************************************************************************)
\* What the locals of a goroutine at l hold: the state it edits or escalates,
\* and the tag of its notification.
LocalOK(l, j) ==
  /\ l \notin {"render", "send", "rerender", "edit"} => j.prior = None
  /\ l \in {"rerender", "edit"} => j.prior # None /\ j.tag = j.prior.tag
  /\ l = "cooldown" => j.tag = "fn"
  /\ l = "render" /\ j.tag = "fn-esc" => j.prior # None

Locals == \A p \in Procs : LocalOK(pc[p], job[p])

\* What a send or an edit leaves on record.
LEMMA SavedType ==
  ASSUME TypeOK, Locals, NEW p \in Procs, pc[p] \in {"send", "edit"}
  PROVE  Result(p) \in ReviewState
<1>1. job[p] \in Job
  BY DEF TypeOK
<1>2. Rules[job[p].rule].critical \in BOOLEAN /\ Ended(job[p].phase) \in BOOLEAN
  BY <1>1, ConfigAssumption DEF Job, Ended
<1>3. CASE pc[p] = "send"
  <2>1. (IF Escalating(p) THEN CarryOver(job[p].sent, job[p].prior) ELSE job[p].sent)
          \in SUBSET Delivery
    BY <1>1, CarryOverType DEF Job, Escalating
  <2> QED BY <1>1, <1>2, <1>3, <2>1 DEF Result, Delivered, Job, ReviewState
<1>4. CASE pc[p] = "edit"
  <2>1. job[p].prior \in ReviewState
    BY <1>1, <1>4 DEF Locals, LocalOK, Job
  <2> QED BY <1>1, <1>2, <1>4, <2>1 DEF Result, Edited, Job, ReviewState
<1> QED BY <1>3, <1>4

LEMMA TypeInit == Init => TypeOK
<1> SUFFICES ASSUME Init PROVE TypeOK OBVIOUS
<1>1. budget \in Budget
  BY ModelAssumption DEF Init, Budget
<1>2. job \in [Procs -> Job]
  BY BlankType DEF Init
<1> QED BY <1>1, <1>2 DEF Init, TypeOK, PcValues

LEMMA TypeNext == TypeOK /\ Locals /\ [Next]_vars => TypeOK'
<1> SUFFICES ASSUME TypeOK, Locals, [Next]_vars PROVE TypeOK'
  OBVIOUS
<1> USE DEF PcValues
<1>1. ASSUME NEW m \in Message, NEW w \in SUBSET Backends, IgnoreReview(m, w) PROVE TypeOK'
  BY <1>1, ReceiveType DEF IgnoreReview, TypeOK
<1>2. ASSUME NEW m \in Message, NEW w \in SUBSET Backends, HandleGenAI(m, w) PROVE TypeOK'
  BY <1>2, ReceiveType, StartedType, GotoType, BecomeType DEF HandleGenAI, TypeOK, Procs
<1>3. ASSUME NEW m \in Message, NEW w \in SUBSET Backends, HandlePhase(m, w) PROVE TypeOK'
  BY <1>3, ReceiveType, StartedType, GotoType, BecomeType DEF HandlePhase, TypeOK, Procs
<1>4. ASSUME NEW m \in Message, NEW w \in SUBSET Backends, HandlePhaseWhileHeld(m, w) PROVE TypeOK'
  <2>1. pending[m.review] \in Procs /\ m.phase \in Phases /\ m.content \in Contents
    BY <1>4 DEF HandlePhaseWhileHeld, TypeOK, Procs, Message
  <2>2. job[pending[m.review]] \in Job
    BY <2>1 DEF TypeOK
  <2>3. Noted(pending[m.review], m) \in Job
    BY <2>1, <2>2 DEF Noted, Job
  <2>4. Started(m, TRUE) \in Job
    BY StartedType
  <2>5. job' \in [Procs -> Job]
    BY <1>4, <2>1, <2>3, <2>4 DEF HandlePhaseWhileHeld, TypeOK
  <2> QED BY <1>4, <2>5, GotoType, ReceiveType DEF HandlePhaseWhileHeld, TypeOK, Procs
<1>5. ASSUME NEW m \in Message, NEW w \in SUBSET Backends, HandleEndWhileHeld(m, w) PROVE TypeOK'
  <2>1. pending[m.review] \in Procs
    BY <1>5 DEF HandleEndWhileHeld, TypeOK, Procs, Message
  <2>2. Started(m, FALSE) \in Job /\ Blank \in Job
    BY StartedType, BlankType
  <2>3. job' \in [Procs -> Job]
    BY <1>5, <2>1, <2>2 DEF HandleEndWhileHeld, TypeOK
  <2>4. pc' \in [Procs -> PcValues]
    BY <1>5, <2>1 DEF HandleEndWhileHeld, TypeOK
  <2>5. pending' \in [Reviews -> Holds \cup {None}]
    BY <1>5 DEF HandleEndWhileHeld, Unheld, TypeOK
  <2> QED BY <1>5, <2>3, <2>4, <2>5, ReceiveType DEF HandleEndWhileHeld
<1>6. ASSUME NEW r \in Reviews, NEW d \in Descriptions, NEW v \in SUBSET Backends,
             NEW w \in SUBSET Backends, HandleDescription(r, d, v, w)
      PROVE  TypeOK'
  <2>1. descs' \in [Backends -> [Reviews -> Descriptions \cup {None}]]
    BY <1>6, WrittenType DEF HandleDescription, TypeOK
  <2>2. budget' \in Budget
    <3>1. PaidBoth(v, w) \in Budget /\ PaidBoth(v, w).arrivals - 1 \in Nat
      BY <1>6, PaidBothType DEF HandleDescription, Budget
    <3> QED BY <1>6, <3>1 DEF HandleDescription, Budget
  <2>3. pc' \in [Procs -> PcValues]
    BY <1>6, GotoType DEF HandleDescription, TypeOK, Procs
  <2>4. [Blank EXCEPT !.review = r] \in Job
    BY BlankType DEF Job
  <2>5. job' \in [Procs -> Job]
    BY <1>6, <2>4, BecomeType DEF HandleDescription, TypeOK, Procs
  <2> QED BY <1>6, <2>1, <2>2, <2>3, <2>5 DEF HandleDescription, TypeOK, world
<1>7. ASSUME NEW v \in SUBSET Backends, NEW w \in SUBSET Backends, LateDescription(v, w)
      PROVE  TypeOK'
  <2>1. budget' \in Budget
    BY <1>7, PaidBothType DEF LateDescription
  <2>2. pc' \in [Procs -> PcValues] /\ job' \in [Procs -> Job]
    <3> DEFINE r  == job[Mqtt].review
               st == reviews[Answer(w)][r]
               j  == [job[Mqtt] EXCEPT !.phase = "description", !.prior = st,
                                       !.tag = st.tag, !.rule = st.ruleIndex]
    <3>1. CASE r \in events[Answer(v)] /\ st # None /\ st.ended
      <4>1. job[Mqtt] \in Job
        BY DEF TypeOK, Procs
      <4>2. st \in ReviewState
        BY <3>1, <4>1, AnswerType DEF TypeOK, Job
      <4>3. j \in Job
        BY <4>1, <4>2 DEF Job, ReviewState, Phases
      <4>4. Goto(Mqtt, "rerender") /\ Become(Mqtt, j)
        BY <1>7, <3>1 DEF LateDescription
      <4> QED BY <4>3, <4>4, GotoType, BecomeType DEF Procs
    <3>2. CASE ~(r \in events[Answer(v)] /\ st # None /\ st.ended)
      BY <1>7, <3>2, DoneType DEF LateDescription, Procs
    <3> QED BY <3>1, <3>2
  <2> QED BY <1>7, <2>1, <2>2 DEF LateDescription, TypeOK, store, world
<1>8. ASSUME NEW h \in Holds, TimerFires(h) PROVE TypeOK'
  BY <1>8, GotoType DEF TimerFires, TypeOK, Procs, store, world
<1>9. ASSUME NEW h \in Holds, TimerDecides(h) PROVE TypeOK'
  <2>1. h \in Procs
    BY DEF Procs
  <2>2. pending' \in [Reviews -> Holds \cup {None}]
    BY <1>9 DEF TimerDecides, Unheld, TypeOK
  <2>3. pc' \in [Procs -> PcValues] /\ job' \in [Procs -> Job]
    BY <1>9, <2>1, DoneType, GotoType DEF TimerDecides, TypeOK
  <2> QED BY <1>9, <2>2, <2>3 DEF TimerDecides, TypeOK, store, world
<1>10. ASSUME NEW h \in Holds, TimerIsLate(h) PROVE TypeOK'
  BY <1>10, DoneType DEF TimerIsLate, TypeOK, Procs, store, world
<1>11. ASSUME NEW p \in Procs, Unmatched(p) PROVE TypeOK'
  BY <1>11, DoneType DEF Unmatched, TypeOK, store, world
<1>12. ASSUME NEW p \in Procs, NEW i \in RuleIds, DeferDecision(p, i) PROVE TypeOK'
  <2>1. job[p] \in Job /\ job[p].review \in Reviews
    BY DEF TypeOK, Job
  <2>2. CASE pending[job[p].review] # None
    <3>1. pending[job[p].review] \in Procs
      BY <2>1, <2>2 DEF TypeOK, Procs
    <3>2. job[pending[job[p].review]] \in Job
      BY <3>1 DEF TypeOK
    <3>3. Noted(pending[job[p].review], job[p]) \in Job
      BY <2>1, <3>2 DEF Noted, Job
    <3>4. job' \in [Procs -> Job]
      BY <1>12, <2>2, <3>1, <3>3, BlankType DEF DeferDecision, TypeOK
    <3>5. pc' \in [Procs -> PcValues] /\ UNCHANGED pending
      BY <1>12, <2>2, GotoType DEF DeferDecision
    <3> QED BY <1>12, <3>4, <3>5 DEF DeferDecision, TypeOK, store, world
  <2>3. CASE pending[job[p].review] = None
    <3>1. PICK h \in Holds :
            /\ pc' = [pc EXCEPT ![p] = "idle", ![h] = "armed"]
            /\ job' = [job EXCEPT ![p] = Blank, ![h] = [job[p] EXCEPT !.holding = FALSE]]
            /\ pending' = [pending EXCEPT ![job[p].review] = h]
      BY <1>12, <2>3 DEF DeferDecision
    <3>2. [job[p] EXCEPT !.holding = FALSE] \in Job
      BY <2>1 DEF Job
    <3>3. job' \in [Procs -> Job]
      BY <3>1, <3>2, BlankType DEF TypeOK
    <3>4. pc' \in [Procs -> PcValues]
      BY <3>1 DEF TypeOK
    <3>5. pending' \in [Reviews -> Holds \cup {None}]
      BY <3>1 DEF TypeOK
    <3> QED BY <1>12, <3>3, <3>4, <3>5 DEF DeferDecision, TypeOK, store, world
  <2> QED BY <2>2, <2>3
<1>13. ASSUME NEW p \in Procs, NEW i \in RuleIds, MatchNow(p, i) PROVE TypeOK'
  <2>1. job[p] \in Job
    BY DEF TypeOK
  <2>2. [job[p] EXCEPT !.rule = i, !.holding = FALSE] \in Job
    BY <2>1 DEF Job
  <2> QED BY <1>13, <2>2, GotoType, BecomeType DEF MatchNow, TypeOK, store, world
<1>14. ASSUME NEW p \in Procs, NEW w \in SUBSET Backends, NotNotified(p, w) PROVE TypeOK'
  <2>1. job[p] \in Job
    BY DEF TypeOK
  <2>2. [job[p] EXCEPT !.tag = "fn"] \in Job
    BY <2>1 DEF Job, Tags
  <2>3. pc' \in [Procs -> PcValues] /\ job' \in [Procs -> Job]
    BY <1>14, <2>2, DoneType, GotoType, BecomeType DEF NotNotified
  <2> QED BY <1>14, <2>3, LoadsType DEF NotNotified
<1>15. ASSUME NEW p \in Procs, NEW w \in SUBSET Backends, Escalate(p, w) PROVE TypeOK'
  <2>1. job[p] \in Job /\ Loaded(p, w) \in ReviewState
    BY <1>15, LoadedType DEF Escalate, TypeOK
  <2>2. [job[p] EXCEPT !.prior = Loaded(p, w), !.tag = "fn-esc"] \in Job
    BY <2>1 DEF Job, ReviewState, Tags
  <2> QED BY <1>15, <2>2, GotoType, BecomeType, LoadsType DEF Escalate
<1>16. ASSUME NEW p \in Procs, NEW w \in SUBSET Backends, RefreshUnderBetterRule(p, w) PROVE TypeOK'
  <2>1. job[p] \in Job /\ Loaded(p, w) \in ReviewState
    BY <1>16, LoadedType DEF RefreshUnderBetterRule, TypeOK
  <2>2. [job[p] EXCEPT !.prior = Loaded(p, w), !.tag = Loaded(p, w).tag] \in Job
    BY <2>1 DEF Job, ReviewState, Tags
  <2> QED BY <1>16, <2>2, GotoType, BecomeType, LoadsType DEF RefreshUnderBetterRule
<1>17. ASSUME NEW p \in Procs, NEW w \in SUBSET Backends, SendUpdate(p, w) PROVE TypeOK'
  <2>1. job[p] \in Job /\ Loaded(p, w) \in ReviewState
    BY <1>17, LoadedType DEF SendUpdate, TypeOK
  <2>2. [job[p] EXCEPT !.prior = Loaded(p, w), !.tag = Loaded(p, w).tag,
                    !.rule = Loaded(p, w).ruleIndex] \in Job
    BY <2>1 DEF Job, ReviewState, Tags
  <2> QED BY <1>17, <2>2, GotoType, BecomeType, LoadsType DEF SendUpdate
<1>18. ASSUME NEW p \in Procs, NEW w \in SUBSET Backends, AlreadyNotified(p, w) PROVE TypeOK'
  BY <1>18, DoneType, LoadsType DEF AlreadyNotified
<1>19. ASSUME NEW p \in Procs, SkipCooldown(p) PROVE TypeOK'
  BY <1>19, GotoType DEF SkipCooldown, TypeOK, store, world
<1>20. ASSUME NEW p \in Procs, NothingDelivered(p) PROVE TypeOK'
  BY <1>20, DoneType DEF NothingDelivered, TypeOK, store, world
<1>21. ASSUME NEW p \in Procs, NEW w \in SUBSET Backends, OpenCooldown(p, w) PROVE TypeOK'
  BY <1>21, GotoType, TryCooldownType DEF OpenCooldown, TypeOK
<1>22. ASSUME NEW p \in Procs, NEW w \in SUBSET Backends, SuppressedByCooldown(p, w) PROVE TypeOK'
  BY <1>22, DoneType, TryCooldownType DEF SuppressedByCooldown
<1>23. ASSUME NEW p \in Procs, NEW w \in SUBSET Backends, Render(p, w) PROVE TypeOK'
  <2>1. PICK to \in Audiences(p), text \in Descriptions \cup {None} :
          /\ ReadsText(p, w, text)
          /\ Become(p, [job[p] EXCEPT !.text = text, !.sent = {},
                                      !.todo = [target : to, tag : {SameTag}]])
    BY <1>23 DEF Render
  <2>2. job[p] \in Job /\ to \subseteq Targets
    BY DEF TypeOK, Audiences
  <2>3. [target : to, tag : {SameTag}] \subseteq Delivery
    BY <2>2 DEF Delivery
  <2>4. [job[p] EXCEPT !.text = text, !.sent = {},
                       !.todo = [target : to, tag : {SameTag}]] \in Job
    BY <2>2, <2>3 DEF Job
  <2>5. job' \in [Procs -> Job] /\ budget' \in Budget /\ pc' \in [Procs -> PcValues]
    BY <1>23, <2>1, <2>4, BecomeType, GotoType, ReadsTextType DEF Render
  <2> QED BY <1>23, <2>5 DEF Render, TypeOK, store, world
<1>24. ASSUME NEW p \in Procs, NEW w \in SUBSET Backends, Rerender(p, w) PROVE TypeOK'
  <2>1. PICK text \in Descriptions \cup {None} :
          /\ ReadsText(p, w, text)
          /\ Become(p, [job[p] EXCEPT !.text = text, !.sent = {}, !.todo = Originals(p)])
    BY <1>24 DEF Rerender
  <2>2. job[p] \in Job /\ Originals(p) \subseteq Delivery
    <3>1. job[p].prior # None
      BY <1>24 DEF Locals, LocalOK, Rerender
    <3> QED BY <3>1 DEF TypeOK, Job, Originals, ReviewState
  <2>3. [job[p] EXCEPT !.text = text, !.sent = {}, !.todo = Originals(p)] \in Job
    BY <2>2 DEF Job
  <2>4. job' \in [Procs -> Job] /\ budget' \in Budget /\ pc' \in [Procs -> PcValues]
    BY <1>24, <2>1, <2>3, BecomeType, GotoType, ReadsTextType DEF Rerender
  <2> QED BY <1>24, <2>4 DEF Rerender, TypeOK, store, world
<1>25. ASSUME NEW p \in Procs, NEW d \in Delivery, NEW o \in {"ok", "lost", "failed"}, Push(p,
              d, o)
       PROVE  TypeOK'
  <2>1. job[p] \in Job /\ o \in Outcomes
    BY <1>25 DEF TypeOK, Push
  <2>2. Confirmed(p, d, o) \subseteq Delivery
    BY <2>1 DEF Confirmed, Job
  <2>3. [job[p] EXCEPT !.todo = @ \ {d}, !.sent = Confirmed(p, d, o)] \in Job
    BY <2>1, <2>2 DEF Job
  <2>4. job' \in [Procs -> Job] /\ budget' \in Budget
    BY <1>25, <2>1, <2>3, BecomeType, SentType DEF Push
  <2>5. phone' \in [Reviews -> [Targets -> [Tags -> Shown \cup {None}]]]
    BY <1>25, LandsType DEF Push, TypeOK
  <2>6. rings' \in [Reviews -> [Targets -> Nat]]
    <3>1. job[p].review \in Reviews /\ d.target \in Targets
      BY <2>1 DEF Job, Delivery
    <3>2. rings[job[p].review] \in [Targets -> Nat] /\ rings[job[p].review][d.target] + 1 \in Nat
      BY <3>1 DEF TypeOK
    <3>3. CASE o = "failed"
      BY <1>25, <3>3 DEF Push, TypeOK
    <3>4. CASE o # "failed"
      <4> DEFINE f == [rings[job[p].review] EXCEPT ![d.target] = @ + 1]
      <4>1. f \in [Targets -> Nat]
        BY <3>1, <3>2
      <4>2. rings' = [rings EXCEPT ![job[p].review] = f]
        BY <1>25, <3>4 DEF Push
      <4> HIDE DEF f
      <4> QED BY <3>1, <4>1, <4>2 DEF TypeOK
    <3> QED BY <3>3, <3>4
  <2> QED BY <1>25, <2>4, <2>5, <2>6 DEF Push, TypeOK, store
<1>26. ASSUME NEW p \in Procs, NEW d \in Delivery, NEW o \in {"ok", "lost", "failed"}, Edit(p,
              d, o)
       PROVE  TypeOK'
  <2>1. job[p] \in Job /\ o \in Outcomes
    BY <1>26 DEF TypeOK, Edit
  <2>2. [job[p] EXCEPT !.todo = @ \ {d}] \in Job
    BY <2>1 DEF Job
  <2>3. job' \in [Procs -> Job] /\ budget' \in Budget
    BY <1>26, <2>1, <2>2, BecomeType, SentType DEF Edit
  <2>4. phone' \in [Reviews -> [Targets -> [Tags -> Shown \cup {None}]]]
    BY <1>26, LandsType DEF Edit, TypeOK
  <2> QED BY <1>26, <2>3, <2>4 DEF Edit, TypeOK, store
<1>27. ASSUME NEW p \in Procs, NEW w \in SUBSET Backends, ReleaseCooldown(p, w) PROVE TypeOK'
  <2>1. KeyOf(p) \in CooldownKeys
    BY CooldownKeyType DEF KeyOf, TypeOK, Job
  <2>2. cooling' \in [Backends -> [CooldownKeys -> Reviews \cup {None}]]
    BY <1>27, <2>1, WrittenType DEF ReleaseCooldown, TypeOK
  <2>3. budget' \in Budget
    BY <1>27, PaidType DEF ReleaseCooldown
  <2> QED BY <1>27, <2>2, <2>3, DoneType DEF ReleaseCooldown, TypeOK, world
<1>28. ASSUME NEW p \in Procs, NEW w \in SUBSET Backends, SaveReview(p, w) PROVE TypeOK'
  <2>1. job[p].review \in Reviews
    BY DEF TypeOK, Job
  <2>2. Result(p) \in ReviewState
    BY <1>28, SavedType DEF SaveReview, HasResult
  <2>3. reviews' \in [Backends -> [Reviews -> ReviewState \cup {None}]]
    BY <1>28, <2>1, <2>2, WrittenType DEF SaveReview, TypeOK
  <2>4. [Blank EXCEPT !.review = job[p].review] \in Job
    BY <2>1, BlankType DEF Job
  <2>5. pc' \in [Procs -> PcValues] /\ job' \in [Procs -> Job]
    BY <1>28, <2>4, DoneType, GotoType, BecomeType DEF SaveReview
  <2>6. budget' \in Budget
    BY <1>28, PaidType DEF SaveReview
  <2> QED BY <1>28, <2>3, <2>5, <2>6 DEF SaveReview, TypeOK, world
<1>29. ASSUME NEW p \in Procs, NEW w \in SUBSET Backends, IndexEvent(p, w) PROVE TypeOK'
  <2>1. job[p].review \in Reviews
    BY DEF TypeOK, Job
  <2>2. [b \in Backends |-> events[b] \cup {job[p].review}] \in [Backends -> SUBSET Reviews]
    BY <2>1 DEF TypeOK
  <2>3. events \in [Backends -> SUBSET Reviews]
    BY DEF TypeOK
  <2>4. events' \in [Backends -> SUBSET Reviews]
    BY <1>29, <2>2, <2>3, AppliedType DEF IndexEvent
  <2>5. budget' \in Budget
    BY <1>29, PaidType DEF IndexEvent
  <2> QED BY <1>29, <2>4, <2>5, DoneType DEF IndexEvent, TypeOK, world
<1>30. ASSUME NEW b \in Backends, ExpireSeen(b) PROVE TypeOK'
  BY <1>30, ExpiryType DEF ExpireSeen, TypeOK
<1>31. ASSUME NEW b \in Backends, ExpireCooldown(b) PROVE TypeOK'
  BY <1>31, ExpiryType DEF ExpireCooldown, TypeOK
<1>32. ASSUME NEW b \in Backends, ExpireReview(b) PROVE TypeOK'
  BY <1>32, ExpiryType DEF ExpireReview, TypeOK
<1>33. ASSUME NEW b \in Backends, ExpireEvent(b) PROVE TypeOK'
  BY <1>33, ExpiryType DEF ExpireEvent, TypeOK
<1>34. ASSUME NEW b \in Backends, ExpireDescription(b) PROVE TypeOK'
  BY <1>34, ExpiryType DEF ExpireDescription, TypeOK
<1>35. ASSUME Shutdown PROVE TypeOK'
  BY <1>35 DEF Shutdown, TypeOK, store, world
<1>36. ASSUME Restart PROVE TypeOK'
  <2>1. budget' \in Budget
    <3>1. budget.restarts - 1 \in Nat
      BY <1>36 DEF Restart, TypeOK, Budget
    <3> QED BY <1>36, <3>1 DEF Restart, TypeOK, Budget
  <2>2. seen' \in [Backends -> SUBSET Message] /\ events' \in [Backends -> SUBSET Reviews]
    BY <1>36, SurvivesType DEF Restart, TypeOK
  <2>3. cooling' \in [Backends -> [CooldownKeys -> Reviews \cup {None}]]
    BY <1>36, SurvivesType DEF Restart, TypeOK
  <2>4. reviews' \in [Backends -> [Reviews -> ReviewState \cup {None}]]
    BY <1>36, SurvivesType DEF Restart, TypeOK
  <2>5. descs' \in [Backends -> [Reviews -> Descriptions \cup {None}]]
    BY <1>36, SurvivesType DEF Restart, TypeOK
  <2>6. job' \in [Procs -> Job]
    BY <1>36, BlankType DEF Restart
  <2> QED BY <1>36, <2>1, <2>2, <2>3, <2>4, <2>5, <2>6 DEF Restart, TypeOK, world
<1>37. ASSUME Dispatch PROVE TypeOK'
  BY <1>37, <1>1, <1>2, <1>3, <1>4, <1>5, <1>6, ConfigAssumption DEF Dispatch
<1>38. ASSUME NEW p \in Procs, Decide(p) PROVE TypeOK'
  BY <1>38, <1>11, <1>12, <1>13, <1>14, <1>15, <1>16, <1>17, <1>18 DEF Decide
<1>39. ASSUME NEW p \in Procs, Send(p) PROVE TypeOK'
  BY <1>39, <1>19, <1>20, <1>21, <1>22, <1>23, <1>24, <1>27, <1>28, <1>29, <1>25, <1>26 DEF Send
<1>40. ASSUME NEW p \in Procs, Run(p) PROVE TypeOK'
  BY <1>40, <1>38, <1>39, <1>9, <1>10, <1>7 DEF Run, Timer, LookUpDescription
<1>41. ASSUME Expire PROVE TypeOK'
  BY <1>41, <1>30, <1>31, <1>32, <1>33, <1>34 DEF Expire
<1>42. CASE UNCHANGED vars
  BY <1>42 DEF vars, TypeOK, store, world
<1>43. ASSUME NEW m \in Message, LoseOwnMessage(m) PROVE TypeOK'
  <2>1. m.review \in Reviews /\ budget.arrivals - 1 \in Nat /\ budget.faults - 1 \in Nat
    BY <1>43 DEF LoseOwnMessage, Resendable, Message, TypeOK, Budget
  <2>2. budget' \in Budget
    BY <1>43, <2>1 DEF LoseOwnMessage, TypeOK, Budget
  <2>3. seen' \in [Backends -> SUBSET Message]
    BY <1>43 DEF LoseOwnMessage, TypeOK
  <2>4. life' \in [Reviews -> Message \cup {None}] /\ last' \in Message \cup {None}
    BY <1>43 DEF LoseOwnMessage, TypeOK
  <2> QED BY <1>43, <2>2, <2>3, <2>4 DEF LoseOwnMessage, TypeOK, world
<1>44. ASSUME NEW p \in Procs, Resend(p) PROVE TypeOK'
  <2>1. Unanswered /\ (ResendClaim(p) \/ ResendRelease(p) \/ ResendSave(p))
    BY <1>44 DEF Resend, ResendClaim, ResendRelease, ResendSave
  <2>2. budget' \in Budget
    <3>1. budget.faults - 1 \in Nat
      BY <2>1 DEF Unanswered, Resendable, TypeOK, Budget
    <3> QED BY <2>1, <3>1 DEF Unanswered, TypeOK, Budget
  <2>3. job[p].review \in Reviews /\ KeyOf(p) \in CooldownKeys
    BY CooldownKeyType DEF KeyOf, TypeOK, Job
  <2>4. cooling' \in [Backends -> [CooldownKeys -> Reviews \cup {None}]]
    <3>1. CASE ResendClaim(p)
      BY <3>1, ClaimedType DEF ResendClaim
    <3>2. CASE ResendRelease(p)
      BY <2>3, <3>2, WrittenType DEF ResendRelease, TypeOK
    <3>3. CASE ResendSave(p)
      BY <3>3 DEF ResendSave, TypeOK
    <3> QED BY <2>1, <3>1, <3>2, <3>3
  <2>5. reviews' \in [Backends -> [Reviews -> ReviewState \cup {None}]]
    <3>1. CASE ResendSave(p)
      <4>1. Result(p) \in ReviewState
        BY <3>1, SavedType DEF ResendSave, HasResult
      <4> QED BY <2>3, <3>1, <4>1, WrittenType DEF ResendSave, TypeOK
    <3>2. CASE ResendClaim(p) \/ ResendRelease(p)
      BY <3>2 DEF ResendClaim, ResendRelease, TypeOK
    <3> QED BY <2>1, <3>1, <3>2
  <2> QED BY <2>1, <2>2, <2>4, <2>5 DEF Unanswered, TypeOK, world
<1> QED
  BY <1>37, <1>40, <1>41, <1>42, <1>43, <1>44, <1>8, <1>35, <1>36 DEF Next

-----------------------------------------------------------------------------
(***************************************************************************)
(* The locals.                                                             *)
(***************************************************************************)
LEMMA LocalsStay ==
  ASSUME Locals, UNCHANGED <<pc, job>>
  PROVE  Locals'
  BY DEF Locals, LocalOK

LEMMA LocalsGo ==
  ASSUME TypeOK, Locals, NEW p \in Procs, NEW l, NEW j,
         Goto(p, l), Become(p, j), LocalOK(l, j)
  PROVE  Locals'
  BY DEF TypeOK, Locals, LocalOK, Goto, Become

LEMMA LocalsGoto ==
  ASSUME TypeOK, Locals, NEW p \in Procs, NEW l,
         Goto(p, l), UNCHANGED job, LocalOK(l, job[p])
  PROVE  Locals'
  BY DEF TypeOK, Locals, LocalOK, Goto

LEMMA LocalsDone ==
  ASSUME TypeOK, Locals, NEW p \in Procs, Done(p)
  PROVE  Locals'
<1>1. LocalOK("idle", Blank)
  BY BlankType DEF LocalOK
<1> QED BY <1>1, LocalsGo DEF Done

LEMMA LocalsInit == Init => Locals
  BY BlankType DEF Init, Locals, LocalOK

LEMMA LocalsNext == TypeOK /\ Locals /\ [Next]_vars => Locals'
<1> SUFFICES ASSUME TypeOK, Locals, [Next]_vars PROVE Locals'
  OBVIOUS
<1>1. ASSUME NEW m \in Message, NEW w \in SUBSET Backends, IgnoreReview(m, w) PROVE Locals'
  BY <1>1, LocalsStay DEF IgnoreReview
<1>2. ASSUME NEW m \in Message, NEW w \in SUBSET Backends, HandleGenAI(m, w) PROVE Locals'
  BY <1>2, StartedType, LocalsGo DEF HandleGenAI, LocalOK, Procs
<1>3. ASSUME NEW m \in Message, NEW w \in SUBSET Backends, HandlePhase(m, w) PROVE Locals'
  BY <1>3, StartedType, LocalsGo DEF HandlePhase, LocalOK, Procs
<1>4. ASSUME NEW m \in Message, NEW w \in SUBSET Backends, HandlePhaseWhileHeld(m, w) PROVE Locals'
  <2>1. pending[m.review] \in Procs \ {Mqtt}
    BY <1>4, ModelAssumption DEF HandlePhaseWhileHeld, TypeOK, Procs, Message
  <2>2. job[pending[m.review]] \in Job
    BY <2>1 DEF TypeOK
  <2>3. Noted(pending[m.review], m).prior = job[pending[m.review]].prior
        /\ Noted(pending[m.review], m).tag = job[pending[m.review]].tag
    BY <2>2 DEF Noted, Job
  <2>4. Started(m, TRUE).prior = None
    BY StartedType
  <2> QED BY <1>4, <2>1, <2>3, <2>4 DEF HandlePhaseWhileHeld, Goto, Locals, LocalOK, TypeOK, Procs
<1>5. ASSUME NEW m \in Message, NEW w \in SUBSET Backends, HandleEndWhileHeld(m, w) PROVE Locals'
  <2>1. pending[m.review] \in Procs \ {Mqtt}
    BY <1>5, ModelAssumption DEF HandleEndWhileHeld, TypeOK, Procs, Message
  <2>2. Started(m, FALSE).prior = None /\ Blank.prior = None
    BY StartedType, BlankType
  <2> QED BY <1>5, <2>1, <2>2 DEF HandleEndWhileHeld, Locals, LocalOK, TypeOK, Procs
<1>6. ASSUME NEW r \in Reviews, NEW d \in Descriptions, NEW v \in SUBSET Backends,
             NEW w \in SUBSET Backends, HandleDescription(r, d, v, w)
      PROVE  Locals'
  <2>1. [Blank EXCEPT !.review = r].prior = None
    BY BlankType DEF Job
  <2> QED BY <1>6, <2>1, LocalsGo, LocalsStay DEF HandleDescription, LocalOK, Procs
<1>7. ASSUME NEW v \in SUBSET Backends, NEW w \in SUBSET Backends, LateDescription(v, w)
      PROVE  Locals'
  <2> DEFINE st == reviews[Answer(w)][job[Mqtt].review]
             j  == [job[Mqtt] EXCEPT !.phase = "description", !.prior = st,
                                     !.tag = st.tag, !.rule = st.ruleIndex]
  <2>1. job[Mqtt] \in Job /\ Mqtt \in Procs
    BY DEF TypeOK, Procs
  <2>2. CASE st # None /\ Goto(Mqtt, "rerender") /\ Become(Mqtt, j)
    <3>1. LocalOK("rerender", j)
      BY <2>1, <2>2 DEF LocalOK, Job
    <3> QED BY <2>1, <2>2, <3>1, LocalsGo
  <2>3. CASE Done(Mqtt)
    BY <2>1, <2>3, LocalsDone
  <2> QED BY <1>7, <2>2, <2>3 DEF LateDescription
<1>8. ASSUME NEW h \in Holds, TimerFires(h) PROVE Locals'
  BY <1>8, LocalsGoto DEF TimerFires, Locals, LocalOK, Procs
<1>9. ASSUME NEW h \in Holds, TimerDecides(h) PROVE Locals'
  BY <1>9, LocalsGoto, LocalsDone DEF TimerDecides, Locals, LocalOK, Procs
<1>10. ASSUME NEW h \in Holds, TimerIsLate(h) PROVE Locals'
  BY <1>10, LocalsDone DEF TimerIsLate, Procs
<1>11. ASSUME NEW p \in Procs, Unmatched(p) PROVE Locals'
  BY <1>11, LocalsDone DEF Unmatched
<1>12. ASSUME NEW p \in Procs, NEW i \in RuleIds, DeferDecision(p, i) PROVE Locals'
  <2>1. job[p] \in Job /\ job[p].review \in Reviews /\ job[p].prior = None /\ Blank.prior = None
    BY <1>12, BlankType DEF DeferDecision, TypeOK, Job, Locals, LocalOK
  <2>2. p \notin Holds
    BY <1>12, ModelAssumption DEF DeferDecision, MustWait
  <2>3. CASE pending[job[p].review] # None
    <3>1. pending[job[p].review] \in Procs \ {p}
      BY <2>1, <2>2, <2>3 DEF TypeOK, Procs
    <3>2. job[pending[job[p].review]] \in Job
      BY <3>1 DEF TypeOK
    <3>3. Noted(pending[job[p].review], job[p]).prior = job[pending[job[p].review]].prior
          /\ Noted(pending[job[p].review], job[p]).tag = job[pending[job[p].review]].tag
      BY <3>2 DEF Noted, Job
    <3>4. /\ pc' = [pc EXCEPT ![p] = "idle"]
          /\ job' = [job EXCEPT ![p] = Blank,
                                ![pending[job[p].review]] = Noted(pending[job[p].review], job[p])]
      BY <1>12, <2>3 DEF DeferDecision, Goto
    <3>5. ASSUME NEW q \in Procs PROVE LocalOK(pc'[q], job'[q])
      <4>1. CASE q = p
        BY <2>1, <3>1, <3>4, <4>1 DEF LocalOK, TypeOK
      <4>2. CASE q = pending[job[p].review]
        BY <3>1, <3>3, <3>4, <4>2 DEF Locals, LocalOK, TypeOK
      <4>3. CASE q # p /\ q # pending[job[p].review]
        BY <3>1, <3>4, <4>3 DEF Locals, LocalOK, TypeOK
      <4> QED BY <4>1, <4>2, <4>3
    <3> QED BY <3>5 DEF Locals, LocalOK
  <2>4. CASE pending[job[p].review] = None
    <3>1. PICK h \in Holds :
            /\ pc' = [pc EXCEPT ![p] = "idle", ![h] = "armed"]
            /\ job' = [job EXCEPT ![p] = Blank, ![h] = [job[p] EXCEPT !.holding = FALSE]]
      BY <1>12, <2>4 DEF DeferDecision
    <3>2. [job[p] EXCEPT !.holding = FALSE].prior = None
      BY <2>1 DEF Job
    <3> QED BY <2>1, <2>2, <3>1, <3>2 DEF Locals, LocalOK, TypeOK, Procs
  <2> QED BY <2>3, <2>4
<1>13. ASSUME NEW p \in Procs, NEW i \in RuleIds, MatchNow(p, i) PROVE Locals'
  <2>1. job[p] \in Job /\ job[p].prior = None
    BY <1>13 DEF MatchNow, TypeOK, Locals, LocalOK
  <2>2. [job[p] EXCEPT !.rule = i, !.holding = FALSE].prior = None
    BY <2>1 DEF Job
  <2> QED BY <1>13, <2>2, LocalsGo DEF MatchNow, LocalOK
<1>14. ASSUME NEW p \in Procs, NEW w \in SUBSET Backends, NotNotified(p, w) PROVE Locals'
  <2>1. job[p] \in Job /\ job[p].prior = None
    BY <1>14 DEF NotNotified, Loads, TypeOK, Locals, LocalOK
  <2>2. LocalOK("cooldown", [job[p] EXCEPT !.tag = "fn"])
    BY <2>1 DEF Job, LocalOK
  <2> QED BY <1>14, <2>2, LocalsGo, LocalsDone DEF NotNotified
<1>15. ASSUME NEW p \in Procs, NEW w \in SUBSET Backends, Escalate(p, w) PROVE Locals'
  <2>1. job[p] \in Job /\ Loaded(p, w) # None
    BY <1>15 DEF Escalate, TypeOK
  <2>2. LocalOK("render", [job[p] EXCEPT !.prior = Loaded(p, w), !.tag = "fn-esc"])
    BY <2>1 DEF Job, LocalOK
  <2> QED BY <1>15, <2>2, LocalsGo DEF Escalate
<1>16. ASSUME NEW p \in Procs, NEW w \in SUBSET Backends, RefreshUnderBetterRule(p, w) PROVE Locals'
  <2>1. job[p] \in Job /\ Loaded(p, w) # None
    BY <1>16 DEF RefreshUnderBetterRule, TypeOK
  <2>2. LocalOK("rerender", [job[p] EXCEPT !.prior = Loaded(p, w), !.tag = Loaded(p, w).tag])
    BY <2>1 DEF Job, LocalOK
  <2> QED BY <1>16, <2>2, LocalsGo DEF RefreshUnderBetterRule
<1>17. ASSUME NEW p \in Procs, NEW w \in SUBSET Backends, SendUpdate(p, w) PROVE Locals'
  <2>1. job[p] \in Job /\ Loaded(p, w) # None
    BY <1>17 DEF SendUpdate, TypeOK
  <2>2. LocalOK("rerender", [job[p] EXCEPT !.prior = Loaded(p, w), !.tag = Loaded(p, w).tag,
                                       !.rule = Loaded(p, w).ruleIndex])
    BY <2>1 DEF Job, LocalOK
  <2> QED BY <1>17, <2>2, LocalsGo DEF SendUpdate
<1>18. ASSUME NEW p \in Procs, NEW w \in SUBSET Backends, AlreadyNotified(p, w) PROVE Locals'
  BY <1>18, LocalsDone DEF AlreadyNotified
<1>19. ASSUME NEW p \in Procs, SkipCooldown(p) PROVE Locals'
  BY <1>19, LocalsGoto DEF SkipCooldown, Locals, LocalOK
<1>20. ASSUME NEW p \in Procs, NothingDelivered(p) PROVE Locals'
  BY <1>20, LocalsDone DEF NothingDelivered
<1>21. ASSUME NEW p \in Procs, NEW w \in SUBSET Backends, OpenCooldown(p, w) PROVE Locals'
  BY <1>21, LocalsGoto DEF OpenCooldown, TryCooldown, Locals, LocalOK
<1>22. ASSUME NEW p \in Procs, NEW w \in SUBSET Backends, SuppressedByCooldown(p, w) PROVE Locals'
  BY <1>22, LocalsDone DEF SuppressedByCooldown
<1>23. ASSUME NEW p \in Procs, NEW w \in SUBSET Backends, Render(p, w) PROVE Locals'
  <2>1. PICK to, text :
          Become(p, [job[p] EXCEPT !.text = text, !.sent = {},
                                   !.todo = [target : to, tag : {SameTag}]])
    BY <1>23 DEF Render
  <2>2. job[p] \in Job
    BY DEF TypeOK
  <2>3. LocalOK("send", [job[p] EXCEPT !.text = text, !.sent = {},
                                       !.todo = [target : to, tag : {SameTag}]])
    BY <2>2 DEF Job, LocalOK
  <2> QED BY <1>23, <2>1, <2>3, LocalsGo DEF Render
<1>24. ASSUME NEW p \in Procs, NEW w \in SUBSET Backends, Rerender(p, w) PROVE Locals'
  <2>1. PICK text :
          Become(p, [job[p] EXCEPT !.text = text, !.sent = {}, !.todo = Originals(p)])
    BY <1>24 DEF Rerender
  <2>2. job[p] \in Job /\ job[p].prior # None /\ job[p].tag = job[p].prior.tag
    BY <1>24 DEF Rerender, TypeOK, Locals, LocalOK
  <2>3. LocalOK("edit", [job[p] EXCEPT !.text = text, !.sent = {}, !.todo = Originals(p)])
    BY <2>2 DEF Job, LocalOK
  <2> QED BY <1>24, <2>1, <2>3, LocalsGo DEF Rerender
<1>25. ASSUME NEW p \in Procs, NEW d \in Delivery, NEW o \in {"ok", "lost", "failed"}, Push(p,
              d, o)
       PROVE  Locals'
  <2>1. job[p] \in Job /\ Goto(p, "send")
    BY <1>25 DEF Push, TypeOK, Goto
  <2>2. LocalOK("send", [job[p] EXCEPT !.todo = @ \ {d}, !.sent = Confirmed(p, d, o)])
    BY <2>1 DEF Job, LocalOK
  <2> QED BY <1>25, <2>1, <2>2, LocalsGo DEF Push
<1>26. ASSUME NEW p \in Procs, NEW d \in Delivery, NEW o \in {"ok", "lost", "failed"}, Edit(p,
              d, o)
       PROVE  Locals'
  <2>1. job[p] \in Job /\ Goto(p, "edit")
    BY <1>26 DEF Edit, TypeOK, Goto
  <2>2. LocalOK("edit", [job[p] EXCEPT !.todo = @ \ {d}])
    BY <1>26, <2>1 DEF Edit, Job, Locals, LocalOK
  <2> QED BY <1>26, <2>1, <2>2, LocalsGo DEF Edit
<1>27. ASSUME NEW p \in Procs, NEW w \in SUBSET Backends, ReleaseCooldown(p, w) PROVE Locals'
  BY <1>27, LocalsDone DEF ReleaseCooldown
<1>28. ASSUME NEW p \in Procs, NEW w \in SUBSET Backends, SaveReview(p, w) PROVE Locals'
  <2>1. [Blank EXCEPT !.review = job[p].review].prior = None
    BY BlankType DEF Job
  <2> QED BY <1>28, <2>1, LocalsGo, LocalsDone DEF SaveReview, LocalOK
<1>29. ASSUME NEW p \in Procs, NEW w \in SUBSET Backends, IndexEvent(p, w) PROVE Locals'
  BY <1>29, LocalsDone DEF IndexEvent
<1>30. ASSUME NEW b \in Backends, ExpireSeen(b) PROVE Locals'
  BY <1>30, LocalsStay DEF ExpireSeen, Expiry
<1>31. ASSUME NEW b \in Backends, ExpireCooldown(b) PROVE Locals'
  BY <1>31, LocalsStay DEF ExpireCooldown, Expiry
<1>32. ASSUME NEW b \in Backends, ExpireReview(b) PROVE Locals'
  BY <1>32, LocalsStay DEF ExpireReview, Expiry
<1>33. ASSUME NEW b \in Backends, ExpireEvent(b) PROVE Locals'
  BY <1>33, LocalsStay DEF ExpireEvent, Expiry
<1>34. ASSUME NEW b \in Backends, ExpireDescription(b) PROVE Locals'
  BY <1>34, LocalsStay DEF ExpireDescription, Expiry
<1>35. ASSUME Shutdown PROVE Locals'
  BY <1>35, LocalsStay DEF Shutdown
<1>36. ASSUME Restart PROVE Locals'
  BY <1>36, BlankType DEF Restart, Locals, LocalOK
<1>37. ASSUME Dispatch PROVE Locals'
  BY <1>37, <1>1, <1>2, <1>3, <1>4, <1>5, <1>6, ConfigAssumption DEF Dispatch
<1>38. ASSUME NEW p \in Procs, Decide(p) PROVE Locals'
  BY <1>38, <1>11, <1>12, <1>13, <1>14, <1>15, <1>16, <1>17, <1>18 DEF Decide
<1>39. ASSUME NEW p \in Procs, Send(p) PROVE Locals'
  BY <1>39, <1>19, <1>20, <1>21, <1>22, <1>23, <1>24, <1>27, <1>28, <1>29, <1>25, <1>26 DEF Send
<1>40. ASSUME NEW p \in Procs, Run(p) PROVE Locals'
  BY <1>40, <1>38, <1>39, <1>9, <1>10, <1>7 DEF Run, Timer, LookUpDescription
<1>41. ASSUME Expire PROVE Locals'
  BY <1>41, <1>30, <1>31, <1>32, <1>33, <1>34 DEF Expire
<1>42. CASE UNCHANGED vars
  BY <1>42 , LocalsStay DEF vars
<1>43. ASSUME NEW m \in Message, LoseOwnMessage(m) PROVE Locals'
  BY <1>43, LocalsStay DEF LoseOwnMessage
<1>44. ASSUME NEW p \in Procs, Resend(p) PROVE Locals'
  BY <1>44, LocalsStay
     DEF Resend, ResendClaim, ResendRelease, ResendSave, Unanswered
<1> QED
  BY <1>37, <1>40, <1>41, <1>42, <1>43, <1>44, <1>8, <1>35, <1>36 DEF Next

-----------------------------------------------------------------------------
LEMMA TypesAndLocals == Spec => [](TypeOK /\ Locals)
<1>1. Init => TypeOK /\ Locals
  BY TypeInit, LocalsInit
<1>2. TypeOK /\ Locals /\ [Next]_vars => (TypeOK /\ Locals)'
  BY TypeNext, LocalsNext
<1> QED BY <1>1, <1>2, PTL DEF Spec

\* Every reachable state of the notifier is one its declarations allow: no
\* handler or timer reads a state it did not load or acts under no rule,
\* whatever interleaves and fails.
THEOREM TypeCorrect == Spec => []TypeOK
  BY TypesAndLocals, PTL

-----------------------------------------------------------------------------
(***************************************************************************)
(* The pending map and the timers agree.  HoldsAreTracked is inductive on  *)
(* well-typed states.                                                      *)
(***************************************************************************)
LEMMA HoldsStay ==
  ASSUME HoldsAreTracked, UNCHANGED <<pc, job, pending>>
  PROVE  HoldsAreTracked'
  BY DEF HoldsAreTracked

LEMMA HoldsTypes ==
  ASSUME TypeOK
  PROVE  /\ pending \in [Reviews -> Holds \cup {None}]
         /\ \A r \in Reviews : pending[r] # None => pending[r] \in Holds
         /\ \A h \in Holds : job[h].review \in Reviews
  BY DEF TypeOK, Job, Procs

\* What a step must show of the timers that are armed after it, and of the
\* reviews that are held.
LEMMA HoldsFrom ==
  ASSUME \A h \in Holds : pc'[h] = "armed" => pending'[job'[h].review] = h,
         \A r \in Reviews : pending'[r] # None =>
           pc'[pending'[r]] \in {"armed", "fired"} /\ job'[pending'[r]].review = r
  PROVE  HoldsAreTracked'
  BY DEF HoldsAreTracked

\* A step that leaves the map, and no timer's point or review, changes nothing.
LEMMA HoldsKept ==
  ASSUME TypeOK, HoldsAreTracked, UNCHANGED pending,
         \A h \in Holds : pc'[h] = pc[h] /\ job'[h].review = job[h].review
  PROVE  HoldsAreTracked'
<1>1. ASSUME NEW h \in Holds, pc'[h] = "armed" PROVE pending'[job'[h].review] = h
  BY <1>1 DEF HoldsAreTracked
<1>2. ASSUME NEW r \in Reviews, pending'[r] # None
      PROVE  pc'[pending'[r]] \in {"armed", "fired"} /\ job'[pending'[r]].review = r
  BY <1>2, HoldsTypes DEF HoldsAreTracked
<1> QED BY <1>1, <1>2, HoldsFrom

\* A goroutine that is no waiting timer goes on: no holdoff is about it.
LEMMA HoldsMove ==
  ASSUME TypeOK, HoldsAreTracked, NEW p \in Procs, pc[p] \notin {"armed", "fired"},
         pc' \in [Procs -> PcValues], pc'[p] # "armed", UNCHANGED pending,
         \A q \in Procs \ {p} : pc'[q] = pc[q] /\ job'[q] = job[q]
  PROVE  HoldsAreTracked'
<1>1. \A r \in Reviews : pending[r] # None => pending[r] # p
  BY DEF HoldsAreTracked
<1>2. ASSUME NEW h \in Holds, pc'[h] = "armed" PROVE pending'[job'[h].review] = h
  BY <1>2 DEF HoldsAreTracked, Procs
<1>3. ASSUME NEW r \in Reviews, pending'[r] # None
      PROVE  pc'[pending'[r]] \in {"armed", "fired"} /\ job'[pending'[r]].review = r
  BY <1>1, <1>3, HoldsTypes DEF HoldsAreTracked, Procs
<1> QED BY <1>2, <1>3, HoldsFrom

LEMMA HoldsGo ==
  ASSUME TypeOK, HoldsAreTracked, NEW p \in Procs, pc[p] \notin {"armed", "fired"},
         NEW l \in PcValues \ {"armed"}, NEW j, Goto(p, l), Become(p, j), UNCHANGED pending
  PROVE  HoldsAreTracked'
  BY HoldsMove, GotoType DEF TypeOK, Goto, Become

LEMMA HoldsGoto ==
  ASSUME TypeOK, HoldsAreTracked, NEW p \in Procs, pc[p] \notin {"armed", "fired"},
         NEW l \in PcValues \ {"armed"}, Goto(p, l), UNCHANGED <<job, pending>>
  PROVE  HoldsAreTracked'
  BY HoldsMove, GotoType DEF TypeOK, Goto

LEMMA HoldsBecome ==
  ASSUME TypeOK, HoldsAreTracked, NEW p \in Procs, pc[p] \notin {"armed", "fired"},
         NEW j, Become(p, j), UNCHANGED <<pc, pending>>
  PROVE  HoldsAreTracked'
  BY HoldsMove DEF TypeOK, Become

LEMMA HoldsDone ==
  ASSUME TypeOK, HoldsAreTracked, NEW p \in Procs, pc[p] \notin {"armed", "fired"},
         Done(p), UNCHANGED pending
  PROVE  HoldsAreTracked'
  BY HoldsGo DEF Done, PcValues

LEMMA HoldsInit == Init => HoldsAreTracked
  BY DEF Init, HoldsAreTracked, Procs

LEMMA HoldsNext == TypeOK /\ HoldsAreTracked /\ [Next]_vars => HoldsAreTracked'
<1> SUFFICES ASSUME TypeOK, HoldsAreTracked, [Next]_vars PROVE HoldsAreTracked'
  OBVIOUS
<1> USE DEF PcValues
<1>1. ASSUME NEW m \in Message, NEW w \in SUBSET Backends, IgnoreReview(m, w) PROVE HoldsAreTracked'
  BY <1>1, HoldsStay DEF IgnoreReview
<1>2. ASSUME NEW m \in Message, NEW w \in SUBSET Backends, HandleGenAI(m, w) PROVE HoldsAreTracked'
  BY <1>2, HoldsGo DEF HandleGenAI, Receive, Procs
<1>3. ASSUME NEW m \in Message, NEW w \in SUBSET Backends, HandlePhase(m, w) PROVE HoldsAreTracked'
  BY <1>3, HoldsGo DEF HandlePhase, Receive, Procs
<1>4. ASSUME NEW m \in Message, NEW w \in SUBSET Backends, HandlePhaseWhileHeld(m, w)
      PROVE  HoldsAreTracked'
  <2>1. pending[m.review] \in Holds /\ m.review \in Reviews /\ pc[Mqtt] = "idle"
    BY <1>4 DEF HandlePhaseWhileHeld, Receive, TypeOK, Message
  <2>2. job[pending[m.review]] \in Job
    BY <2>1 DEF TypeOK, Procs
  <2>3. Noted(pending[m.review], m).review = job[pending[m.review]].review
    BY <2>2 DEF Noted, Job
  <2>4. \A h \in Holds : pc'[h] = pc[h] /\ job'[h].review = job[h].review
    BY <1>4, <2>1, <2>3, ModelAssumption DEF HandlePhaseWhileHeld, Goto, TypeOK, Procs
  <2>5. UNCHANGED pending
    BY <1>4 DEF HandlePhaseWhileHeld
  <2> QED BY <2>4, <2>5, HoldsKept
<1>5. ASSUME NEW m \in Message, NEW w \in SUBSET Backends, HandleEndWhileHeld(m, w)
      PROVE  HoldsAreTracked'
  <2> DEFINE k == pending[m.review]
  <2>1. k \in Holds /\ m.review \in Reviews /\ job[k].review = m.review
    BY <1>5 DEF HandleEndWhileHeld, HoldsAreTracked, TypeOK, Message
  <2>2. \A h \in Holds \ {k} : pc'[h] = pc[h] /\ job'[h] = job[h]
    BY <1>5, <2>1, ModelAssumption DEF HandleEndWhileHeld, TypeOK, Procs
  <2>3. pc'[k] # "armed"
    BY <1>5, <2>1, ModelAssumption DEF HandleEndWhileHeld, TypeOK, Procs
  <2>4. pending' = [pending EXCEPT ![m.review] = None]
    BY <1>5 DEF HandleEndWhileHeld, Unheld
  <2> HIDE DEF k
  <2>5. \A h \in Holds \ {k} : pc[h] = "armed" => job[h].review # m.review
    BY <2>1 DEF HoldsAreTracked, k
  <2>6. \A r \in Reviews \ {m.review} : pending[r] # None => pending[r] # k
    BY <2>1 DEF HoldsAreTracked
  <2>7. ASSUME NEW g \in Holds, pc'[g] = "armed" PROVE pending'[job'[g].review] = g
    BY <2>7, <2>1, <2>2, <2>3, <2>4, <2>5, HoldsTypes DEF HoldsAreTracked
  <2>8. ASSUME NEW q \in Reviews, pending'[q] # None
        PROVE  pc'[pending'[q]] \in {"armed", "fired"} /\ job'[pending'[q]].review = q
    BY <2>8, <2>1, <2>2, <2>4, <2>6, HoldsTypes DEF HoldsAreTracked
  <2> QED BY <2>7, <2>8, HoldsFrom
<1>6. ASSUME NEW r \in Reviews, NEW d \in Descriptions, NEW v \in SUBSET Backends,
             NEW w \in SUBSET Backends, HandleDescription(r, d, v, w)
      PROVE  HoldsAreTracked'
  BY <1>6, HoldsStay, HoldsGo DEF HandleDescription, Procs
<1>7. ASSUME NEW v \in SUBSET Backends, NEW w \in SUBSET Backends, LateDescription(v, w)
      PROVE  HoldsAreTracked'
  BY <1>7, HoldsGo, HoldsDone DEF LateDescription, Procs
<1>8. ASSUME NEW h \in Holds, TimerFires(h) PROVE HoldsAreTracked'
  <2>1. pc' = [pc EXCEPT ![h] = "fired"] /\ UNCHANGED <<job, pending>>
    BY <1>8 DEF TimerFires, Goto
  <2> QED BY <2>1 DEF HoldsAreTracked, TypeOK, Procs
<1>9. ASSUME NEW h \in Holds, TimerDecides(h) PROVE HoldsAreTracked'
  <2>1. /\ pending[job[h].review] = h /\ pending' = [pending EXCEPT ![job[h].review] = None]
        /\ job[h].review \in Reviews
    BY <1>9 DEF TimerDecides, Live, Unheld, TypeOK, Job, Procs
  <2>2. pc'[h] # "armed" /\ \A k \in Holds \ {h} : pc'[k] = pc[k] /\ job'[k] = job[k]
    BY <1>9 DEF TimerDecides, Done, Goto, Become, TypeOK, Procs
  <2>3. \A r \in Reviews \ {job[h].review} : pending[r] # None => pending[r] # h
    BY DEF HoldsAreTracked
  <2>4. \A k \in Holds \ {h} : pc[k] = "armed" => job[k].review # job[h].review
    BY <2>1 DEF HoldsAreTracked
  <2>5. ASSUME NEW g \in Holds, pc'[g] = "armed" PROVE pending'[job'[g].review] = g
    BY <2>5, <2>1, <2>2, <2>4, HoldsTypes DEF HoldsAreTracked
  <2>6. ASSUME NEW q \in Reviews, pending'[q] # None
        PROVE  pc'[pending'[q]] \in {"armed", "fired"} /\ job'[pending'[q]].review = q
    BY <2>6, <2>1, <2>2, <2>3, HoldsTypes DEF HoldsAreTracked
  <2> QED BY <2>5, <2>6, HoldsFrom
<1>10. ASSUME NEW h \in Holds, TimerIsLate(h) PROVE HoldsAreTracked'
  <2>1. \A r \in Reviews : pending[r] # None => pending[r] # h
    BY <1>10 DEF TimerIsLate, Live, HoldsAreTracked
  <2>2. pc'[h] # "armed" /\ \A k \in Holds \ {h} : pc'[k] = pc[k] /\ job'[k] = job[k]
    BY <1>10 DEF TimerIsLate, Done, Goto, Become, TypeOK, Procs
  <2>3. UNCHANGED pending
    BY <1>10 DEF TimerIsLate
  <2>4. ASSUME NEW g \in Holds, pc'[g] = "armed" PROVE pending'[job'[g].review] = g
    BY <2>4, <2>2, <2>3, HoldsTypes DEF HoldsAreTracked
  <2>5. ASSUME NEW q \in Reviews, pending'[q] # None
        PROVE  pc'[pending'[q]] \in {"armed", "fired"} /\ job'[pending'[q]].review = q
    BY <2>5, <2>1, <2>2, <2>3, HoldsTypes DEF HoldsAreTracked
  <2> QED BY <2>4, <2>5, HoldsFrom
<1>11. ASSUME NEW p \in Procs, Unmatched(p) PROVE HoldsAreTracked'
  BY <1>11, HoldsDone DEF Unmatched
<1>12. ASSUME NEW p \in Procs, NEW i \in RuleIds, DeferDecision(p, i) PROVE HoldsAreTracked'
  <2>1. /\ p = Mqtt /\ p \notin Holds /\ job[p] \in Job /\ job[p].review \in Reviews
    BY <1>12, ModelAssumption DEF DeferDecision, MustWait, TypeOK, Job
  <2>2. CASE pending[job[p].review] # None
    <3>1. pending[job[p].review] \in Holds
      BY <2>1, <2>2 DEF TypeOK
    <3>2. job[pending[job[p].review]] \in Job
      BY <3>1 DEF TypeOK, Procs
    <3>3. Noted(pending[job[p].review], job[p]).review = job[pending[job[p].review]].review
      BY <3>2 DEF Noted, Job
    <3>4. /\ pc' = [pc EXCEPT ![p] = "idle"]
          /\ job' = [job EXCEPT ![p] = Blank,
                                ![pending[job[p].review]] = Noted(pending[job[p].review], job[p])]
          /\ UNCHANGED pending
      BY <1>12, <2>2 DEF DeferDecision, Goto
    <3>5. \A h \in Holds : pc'[h] = pc[h] /\ job'[h].review = job[h].review
      BY <2>1, <3>1, <3>3, <3>4 DEF TypeOK, Procs
    <3> QED BY <3>4, <3>5, HoldsKept
  <2>3. CASE pending[job[p].review] = None
    <3>1. PICK h \in Holds :
            /\ pc[h] = "idle"
            /\ pc' = [pc EXCEPT ![p] = "idle", ![h] = "armed"]
            /\ job' = [job EXCEPT ![p] = Blank, ![h] = [job[p] EXCEPT !.holding = FALSE]]
            /\ pending' = [pending EXCEPT ![job[p].review] = h]
      BY <1>12, <2>3 DEF DeferDecision
    <3>2. [job[p] EXCEPT !.holding = FALSE].review = job[p].review
      BY <2>1 DEF Job
    <3>3. pc'[h] = "armed" /\ job'[h].review = job[p].review
      BY <2>1, <3>1, <3>2 DEF TypeOK, Procs
    <3>4. \A k \in Holds \ {h} : pc'[k] = pc[k] /\ job'[k] = job[k]
      BY <2>1, <3>1 DEF TypeOK, Procs
    <3>5. \A k \in Holds : pc[k] = "armed" => job[k].review # job[p].review
      BY <2>3, ModelAssumption DEF HoldsAreTracked
    <3>6. \A r \in Reviews : pending[r] # None => pending[r] # h
      BY <3>1 DEF HoldsAreTracked
    <3>7. ASSUME NEW g \in Holds, pc'[g] = "armed" PROVE pending'[job'[g].review] = g
      BY <3>7, <2>1, <3>1, <3>3, <3>4, <3>5, HoldsTypes DEF HoldsAreTracked
    <3>8. ASSUME NEW q \in Reviews, pending'[q] # None
          PROVE  pc'[pending'[q]] \in {"armed", "fired"} /\ job'[pending'[q]].review = q
      <4>1. CASE q = job[p].review
        BY <3>1, <3>3, <4>1, HoldsTypes
      <4>2. CASE q # job[p].review
        <5>1. pending'[q] = pending[q] /\ pending[q] \in Holds \ {h}
          BY <3>1, <3>6, <3>8, <4>2, HoldsTypes
        <5>2. pc[pending[q]] \in {"armed", "fired"} /\ job[pending[q]].review = q
          BY <3>8, <5>1, ModelAssumption DEF HoldsAreTracked
        <5> QED BY <3>4, <5>1, <5>2
      <4> QED BY <4>1, <4>2
    <3> QED BY <3>7, <3>8, HoldsFrom
  <2> QED BY <2>2, <2>3
<1>13. ASSUME NEW p \in Procs, NEW i \in RuleIds, MatchNow(p, i) PROVE HoldsAreTracked'
  BY <1>13, HoldsGo DEF MatchNow
<1>14. ASSUME NEW p \in Procs, NEW w \in SUBSET Backends, NotNotified(p, w) PROVE HoldsAreTracked'
  BY <1>14, HoldsGo, HoldsDone DEF NotNotified, Loads
<1>15. ASSUME NEW p \in Procs, NEW w \in SUBSET Backends, Escalate(p, w) PROVE HoldsAreTracked'
  BY <1>15, HoldsGo DEF Escalate, Loads
<1>16. ASSUME NEW p \in Procs, NEW w \in SUBSET Backends, RefreshUnderBetterRule(p, w)
       PROVE  HoldsAreTracked'
  BY <1>16, HoldsGo DEF RefreshUnderBetterRule, Loads
<1>17. ASSUME NEW p \in Procs, NEW w \in SUBSET Backends, SendUpdate(p, w) PROVE HoldsAreTracked'
  BY <1>17, HoldsGo DEF SendUpdate, Loads
<1>18. ASSUME NEW p \in Procs, NEW w \in SUBSET Backends, AlreadyNotified(p, w)
       PROVE  HoldsAreTracked'
  BY <1>18, HoldsDone DEF AlreadyNotified, Loads
<1>19. ASSUME NEW p \in Procs, SkipCooldown(p) PROVE HoldsAreTracked'
  BY <1>19, HoldsGoto DEF SkipCooldown
<1>20. ASSUME NEW p \in Procs, NothingDelivered(p) PROVE HoldsAreTracked'
  BY <1>20, HoldsDone DEF NothingDelivered
<1>21. ASSUME NEW p \in Procs, NEW w \in SUBSET Backends, OpenCooldown(p, w) PROVE HoldsAreTracked'
  BY <1>21, HoldsGoto DEF OpenCooldown, TryCooldown
<1>22. ASSUME NEW p \in Procs, NEW w \in SUBSET Backends, SuppressedByCooldown(p, w)
       PROVE  HoldsAreTracked'
  BY <1>22, HoldsDone DEF SuppressedByCooldown, TryCooldown
<1>23. ASSUME NEW p \in Procs, NEW w \in SUBSET Backends, Render(p, w) PROVE HoldsAreTracked'
  BY <1>23, HoldsGo DEF Render
<1>24. ASSUME NEW p \in Procs, NEW w \in SUBSET Backends, Rerender(p, w) PROVE HoldsAreTracked'
  BY <1>24, HoldsGo DEF Rerender
<1>25. ASSUME NEW p \in Procs, NEW d \in Delivery, NEW o \in {"ok", "lost", "failed"}, Push(p,
              d, o)
       PROVE  HoldsAreTracked'
  BY <1>25, HoldsBecome DEF Push
<1>26. ASSUME NEW p \in Procs, NEW d \in Delivery, NEW o \in {"ok", "lost", "failed"}, Edit(p,
              d, o)
       PROVE  HoldsAreTracked'
  BY <1>26, HoldsBecome DEF Edit
<1>27. ASSUME NEW p \in Procs, NEW w \in SUBSET Backends, ReleaseCooldown(p, w)
       PROVE  HoldsAreTracked'
  BY <1>27, HoldsDone DEF ReleaseCooldown
<1>28. ASSUME NEW p \in Procs, NEW w \in SUBSET Backends, SaveReview(p, w) PROVE HoldsAreTracked'
  BY <1>28, HoldsGo, HoldsDone DEF SaveReview, HasResult
<1>29. ASSUME NEW p \in Procs, NEW w \in SUBSET Backends, IndexEvent(p, w) PROVE HoldsAreTracked'
  BY <1>29, HoldsDone DEF IndexEvent
<1>30. ASSUME NEW b \in Backends, ExpireSeen(b) PROVE HoldsAreTracked'
  BY <1>30, HoldsStay DEF ExpireSeen, Expiry
<1>31. ASSUME NEW b \in Backends, ExpireCooldown(b) PROVE HoldsAreTracked'
  BY <1>31, HoldsStay DEF ExpireCooldown, Expiry
<1>32. ASSUME NEW b \in Backends, ExpireReview(b) PROVE HoldsAreTracked'
  BY <1>32, HoldsStay DEF ExpireReview, Expiry
<1>33. ASSUME NEW b \in Backends, ExpireEvent(b) PROVE HoldsAreTracked'
  BY <1>33, HoldsStay DEF ExpireEvent, Expiry
<1>34. ASSUME NEW b \in Backends, ExpireDescription(b) PROVE HoldsAreTracked'
  BY <1>34, HoldsStay DEF ExpireDescription, Expiry
<1>35. ASSUME Shutdown PROVE HoldsAreTracked'
  BY <1>35, HoldsStay DEF Shutdown
<1>36. ASSUME Restart PROVE HoldsAreTracked'
  BY <1>36 DEF Restart, HoldsAreTracked, Procs
<1>37. ASSUME Dispatch PROVE HoldsAreTracked'
  BY <1>37, <1>1, <1>2, <1>3, <1>4, <1>5, <1>6, ConfigAssumption DEF Dispatch
<1>38. ASSUME NEW p \in Procs, Decide(p) PROVE HoldsAreTracked'
  BY <1>38, <1>11, <1>12, <1>13, <1>14, <1>15, <1>16, <1>17, <1>18 DEF Decide
<1>39. ASSUME NEW p \in Procs, Send(p) PROVE HoldsAreTracked'
  BY <1>39, <1>19, <1>20, <1>21, <1>22, <1>23, <1>24, <1>27, <1>28, <1>29, <1>25, <1>26 DEF Send
<1>40. ASSUME NEW p \in Procs, Run(p) PROVE HoldsAreTracked'
  BY <1>40, <1>38, <1>39, <1>9, <1>10, <1>7 DEF Run, Timer, LookUpDescription
<1>41. ASSUME Expire PROVE HoldsAreTracked'
  BY <1>41, <1>30, <1>31, <1>32, <1>33, <1>34 DEF Expire
<1>42. CASE UNCHANGED vars
  BY <1>42 , HoldsStay DEF vars
<1>43. ASSUME NEW m \in Message, LoseOwnMessage(m) PROVE HoldsAreTracked'
  BY <1>43, HoldsStay DEF LoseOwnMessage
<1>44. ASSUME NEW p \in Procs, Resend(p) PROVE HoldsAreTracked'
  BY <1>44, HoldsStay
     DEF Resend, ResendClaim, ResendRelease, ResendSave, Unanswered
<1> QED
  BY <1>37, <1>40, <1>41, <1>42, <1>43, <1>44, <1>8, <1>35, <1>36 DEF Next

\* No payload is ever parked with a timer that is gone, and no timer is armed for
\* a review the map has forgotten: whatever the dispatch goroutine, the timers,
\* SIGTERM and restarts do in between, noteLatest finds the decision that will be
\* made.
THEOREM HoldsTracked == Spec => []HoldsAreTracked
<1>1. Spec => []TypeOK
  BY TypeCorrect
<1>2. Init => HoldsAreTracked
  BY HoldsInit
<1>3. TypeOK /\ HoldsAreTracked /\ [Next]_vars => HoldsAreTracked'
  BY HoldsNext
<1> QED BY <1>1, <1>2, <1>3, PTL DEF Spec

-----------------------------------------------------------------------------
(***************************************************************************)
(* A holdoff carries the newest message.  Newest is inductive on states    *)
(* where the map and the timers agree.                                     *)
(***************************************************************************)
\* No command on the primary is sent a second time: nothing is taken for a
\* redelivery of itself.
SentOnce == ~Resends \/ budget.faults = 0

LEMMA NothingResent ==
  ASSUME SentOnce
  PROVE  (\A m : ~LoseOwnMessage(m)) /\ (\A p : ~Resend(p))
  BY DEF SentOnce, Resendable, LoseOwnMessage, Resend, ResendClaim, ResendRelease, ResendSave,
         Unanswered

\* Message m is no news after l: it is l, or l came after it.
Behind(m, l) ==
  /\ l # None /\ m.content <= l.content
  /\ m.phase = "update" => l.phase # "new"
  /\ m.phase = "end"    => l.phase \in {"end", "genai"}
  /\ m.phase = "genai"  => l.phase = "genai"

\* What the redelivery guard has seen is behind the newest message, which is
\* the last one handed over for its review.
SeenIsBehind == \A b \in Backends : \A m \in seen[b] : Behind(m, life[m.review])
LastIsNewest == /\ last # None => life[last.review] = last
                /\ \A r \in Reviews : life[r] # None => life[r].review = r

\* A goroutine's locals carry the newest message of their review.
Carries(j) == j.phase = life[j.review].phase /\ j.content = life[j.review].content

\* The dispatch goroutine decides on the newest message of a camera it knows.
DecidesNewest ==
  pc[Mqtt] = "match" => Configured(job[Mqtt]) /\ life[job[Mqtt].review] # None /\ Carries(job[Mqtt])

HeldIsConfigured == \A r \in Reviews : pending[r] # None => CameraOf[r] \in Cameras

Newest == SeenIsBehind /\ LastIsNewest /\ DecidesNewest /\ HeldIsConfigured /\ HoldKeepsNewest

\* A redelivered message changes nothing the service believes is the newest: no
\* new message equals one it has seen, unless it is the last one again.
LEMMA SeenIsNoNews ==
  ASSUME TypeOK, Newest, NEW m \in Message, NEW w \in SUBSET Backends, Receive(m, w, FALSE)
  PROVE  life' = life
<1> DEFINE l == life[m.review]
<1>1. /\ life \in [Reviews -> Message \cup {None}] /\ m.review \in Reviews
      /\ life' = [life EXCEPT ![m.review] = m]
  BY DEF Receive, TypeOK, Message
<1>2. Publishable(m) \/ m = last
  BY DEF Receive
<1>3. Behind(m, l)
  BY AnswerType DEF Receive, Newest, SeenIsBehind
<1>4. CASE m = last
  BY <1>1, <1>4, ModelAssumption DEF Newest, LastIsNewest
<1>5. CASE Publishable(m)
  <2>1. /\ l \in Message /\ m.content \in Nat /\ l.content \in Nat
        /\ m.phase \in Phases /\ l.phase \in Phases /\ l.review = m.review
    BY <1>1, <1>3 DEF Behind, Message, Contents, Newest, LastIsNewest
  <2>2. m.phase = l.phase /\ m.content = l.content
    BY <1>3, <1>5, <2>1 DEF Behind, Publishable, Phases
  <2>3. m = l
    BY <2>1, <2>2 DEF Message
  <2> QED BY <1>1, <2>3
<1> QED BY <1>2, <1>4, <1>5

\* Handing a message over keeps the guard's memory behind the newest message.
LEMMA ReceiveNewest ==
  ASSUME TypeOK, Newest, NEW m \in Message, NEW w \in SUBSET Backends, NEW first,
         Receive(m, w, first)
  PROVE  SeenIsBehind' /\ LastIsNewest'
<1>1. /\ life \in [Reviews -> Message \cup {None}] /\ m.review \in Reviews
      /\ life' = [life EXCEPT ![m.review] = m] /\ last' = m
      /\ \A b \in Backends : seen[b] \subseteq Message /\ seen'[b] \subseteq seen[b] \cup {m}
  BY DEF Receive, TypeOK, Message, Applied
<1>2. m = last => life[m.review] = m
  BY ModelAssumption DEF Newest, LastIsNewest
<1>3. Behind(m, m)
  BY ModelAssumption DEF Behind, Message, Contents
<1>4. ASSUME NEW n \in Message, n.review = m.review, Behind(n, life[m.review])
      PROVE  Behind(n, m)
  <2>1. CASE m = last
    BY <1>2, <1>4, <2>1
  <2>2. CASE Publishable(m)
    <3>1. /\ life[m.review] \in Message /\ m # None
          /\ n.content \in Nat /\ m.content \in Nat /\ life[m.review].content \in Nat
      BY <1>1, <1>4, ModelAssumption DEF Behind, Message, Contents
    <3> QED BY <1>4, <2>2, <3>1 DEF Behind, Publishable
  <2> QED BY <2>1, <2>2 DEF Receive
<1>5. ASSUME NEW b \in Backends, NEW n \in seen'[b] PROVE Behind(n, life'[n.review])
  <2>1. n \in Message /\ n.review \in Reviews
    BY <1>1, <1>5 DEF Message
  <2>2. CASE n = m
    BY <1>1, <1>3, <2>2
  <2>3. CASE n \in seen[b] /\ n.review = m.review
    BY <1>1, <1>4, <2>1, <2>3 DEF Newest, SeenIsBehind
  <2>4. CASE n \in seen[b] /\ n.review # m.review
    BY <1>1, <2>1, <2>4 DEF Newest, SeenIsBehind
  <2> QED BY <1>1, <1>5, <2>2, <2>3, <2>4
<1>6. LastIsNewest'
  BY <1>1 DEF Newest, LastIsNewest
<1> QED BY <1>5, <1>6 DEF SeenIsBehind

\* A step that hands nothing over, and leaves the guard's memory or forgets some.
LEMMA NothingHandedOver ==
  ASSUME Newest, UNCHANGED <<life, last>>, \A b \in Backends : seen'[b] \subseteq seen[b]
  PROVE  SeenIsBehind' /\ LastIsNewest'
  BY DEF Newest, SeenIsBehind, LastIsNewest

LEMMA NewestStay ==
  ASSUME Newest, UNCHANGED <<pc, job, pending, life, last>>,
         \A b \in Backends : seen'[b] \subseteq seen[b]
  PROVE  Newest'
<1>1. DecidesNewest' /\ HeldIsConfigured' /\ HoldKeepsNewest'
  BY DEF Newest, DecidesNewest, HeldIsConfigured, HoldKeepsNewest, Carries, Configured
<1> QED BY <1>1, NothingHandedOver DEF Newest

\* A goroutine that is no waiting timer goes on: it carries no holdoff's message.
LEMMA NewestMove ==
  ASSUME TypeOK, HoldsAreTracked, Newest, NEW p \in Procs, pc[p] \notin {"armed", "fired"},
         p = Mqtt => pc'[p] # "match", UNCHANGED <<pending, life, last, seen>>,
         \A q \in Procs \ {p} : pc'[q] = pc[q] /\ job'[q] = job[q]
  PROVE  Newest'
<1>1. \A r \in Reviews : pending[r] # None => pending[r] \in Procs \ {p}
  BY HoldsTypes DEF HoldsAreTracked, Procs
<1>2. HoldKeepsNewest'
  BY <1>1 DEF Newest, HoldKeepsNewest
<1>3. DecidesNewest'
  BY DEF Newest, DecidesNewest, Carries, Configured, Procs
<1>4. HeldIsConfigured'
  BY DEF Newest, HeldIsConfigured
<1> QED BY <1>2, <1>3, <1>4, NothingHandedOver DEF Newest

LEMMA NewestGo ==
  ASSUME TypeOK, HoldsAreTracked, Newest, NEW p \in Procs, pc[p] \notin {"armed", "fired"},
         NEW l \in PcValues \ {"match"}, NEW j, Goto(p, l), Become(p, j),
         UNCHANGED <<pending, life, last, seen>>
  PROVE  Newest'
  BY NewestMove DEF TypeOK, Goto, Become

LEMMA NewestGoto ==
  ASSUME TypeOK, HoldsAreTracked, Newest, NEW p \in Procs, pc[p] \notin {"armed", "fired"},
         NEW l \in PcValues \ {"match"}, Goto(p, l), UNCHANGED <<job, pending, life, last, seen>>
  PROVE  Newest'
  BY NewestMove DEF TypeOK, Goto

LEMMA NewestBecome ==
  ASSUME TypeOK, HoldsAreTracked, Newest, NEW p \in Procs, pc[p] \notin {"armed", "fired", "match"},
         NEW j, Become(p, j), UNCHANGED <<pc, pending, life, last, seen>>
  PROVE  Newest'
  BY NewestMove DEF TypeOK, Become

LEMMA NewestDone ==
  ASSUME TypeOK, HoldsAreTracked, Newest, NEW p \in Procs, pc[p] \notin {"armed", "fired"},
         Done(p), UNCHANGED <<pending, life, last, seen>>
  PROVE  Newest'
  BY NewestGo DEF Done, PcValues

\* The holdoffs of the other reviews are no business of a step about review r.
LEMMA NewestElsewhere ==
  ASSUME TypeOK, HoldsAreTracked, Newest, NEW r \in Reviews,
         \A q \in Reviews \ {r} : pending'[q] # None =>
           /\ pending'[q] = pending[q] /\ job'[pending[q]] = job[pending[q]]
           /\ life'[q] = life[q],
         pending'[r] # None =>
           /\ CameraOf[r] \in Cameras
           /\ life'[r].phase # "genai" =>
                /\ job'[pending'[r]].phase = life'[r].phase
                /\ job'[pending'[r]].content = life'[r].content
  PROVE  HeldIsConfigured' /\ HoldKeepsNewest'
  BY DEF Newest, HeldIsConfigured, HoldKeepsNewest

\* A started message is the newest of its review.
LEMMA StartedCarries ==
  ASSUME TypeOK, NEW m \in Message, NEW w, Receive(m, w, TRUE), Configured(m),
         NEW holding \in BOOLEAN, job'[Mqtt] = Started(m, holding)
  PROVE  DecidesNewest'
<1>1. life'[m.review] = m /\ m # None
  BY ModelAssumption DEF Receive, TypeOK, Message
<1>2. /\ Started(m, holding).review = m.review /\ Started(m, holding).phase = m.phase
      /\ Started(m, holding).content = m.content
  BY BlankType DEF Started, Job
<1> QED BY <1>1, <1>2 DEF DecidesNewest, Configured, Carries

LEMMA NewestInit == Init => Newest
  BY DEF Init, Newest, SeenIsBehind, LastIsNewest, DecidesNewest, HeldIsConfigured,
         HoldKeepsNewest, Procs

LEMMA NewestNext == SentOnce /\ TypeOK /\ HoldsAreTracked /\ Newest /\ [Next]_vars => Newest'
<1> SUFFICES ASSUME SentOnce, TypeOK, HoldsAreTracked, Newest, [Next]_vars PROVE Newest'
  OBVIOUS
<1> USE DEF PcValues
<1>1. ASSUME NEW m \in Message, NEW w \in SUBSET Backends, IgnoreReview(m, w) PROVE Newest'
  <2>1. CASE Receive(m, w, FALSE)
    <3>1. life' = life
      BY <2>1, SeenIsNoNews
    <3>2. DecidesNewest' /\ HeldIsConfigured' /\ HoldKeepsNewest'
      BY <1>1, <3>1 DEF IgnoreReview, Newest, DecidesNewest, HeldIsConfigured,
                        HoldKeepsNewest, Carries, Configured
    <3> QED BY <2>1, <3>2, ReceiveNewest DEF Newest
  <2>2. CASE Receive(m, w, TRUE) /\ ~Configured(m)
    <3>1. /\ m.review \in Reviews /\ pending[m.review] = None /\ pc[Mqtt] = "idle"
          /\ UNCHANGED <<pc, job, pending>>
          /\ \A q \in Reviews \ {m.review} : life'[q] = life[q]
      BY <1>1, <2>2 DEF IgnoreReview, Receive, Newest, HeldIsConfigured, Configured, Message, TypeOK
    <3>2. HeldIsConfigured' /\ HoldKeepsNewest'
      BY <3>1, NewestElsewhere
    <3>3. DecidesNewest'
      BY <3>1 DEF DecidesNewest
    <3> QED BY <2>2, <3>2, <3>3, ReceiveNewest DEF Newest
  <2> QED BY <1>1, <2>1, <2>2 DEF IgnoreReview
<1>2. ASSUME NEW m \in Message, NEW w \in SUBSET Backends, HandleGenAI(m, w) PROVE Newest'
  <2>1. /\ m.review \in Reviews /\ pc[Mqtt] = "idle" /\ Mqtt \notin Holds
        /\ Receive(m, w, TRUE) /\ Configured(m)
        /\ life' = [life EXCEPT ![m.review] = m] /\ life \in [Reviews -> Message \cup {None}]
    BY <1>2, ModelAssumption DEF HandleGenAI, Receive, TypeOK, Message
  <2>2. \A q \in Reviews : pending[q] # None => pending[q] \in Holds
    BY HoldsTypes
  <2>3. /\ pc' = [pc EXCEPT ![Mqtt] = "load"] /\ UNCHANGED pending
        /\ \A h \in Holds : job'[h] = job[h]
        /\ life'[m.review].phase = "genai"
    BY <1>2, <2>1 DEF HandleGenAI, Goto, Become, TypeOK, Procs
  <2>4. DecidesNewest'
    BY <2>3 DEF DecidesNewest, TypeOK, Procs
  <2>5. HeldIsConfigured' /\ HoldKeepsNewest'
    BY <2>1, <2>2, <2>3, NewestElsewhere DEF Configured
  <2> QED BY <2>1, <2>4, <2>5, ReceiveNewest DEF Newest
<1>3. ASSUME NEW m \in Message, NEW w \in SUBSET Backends, HandlePhase(m, w) PROVE Newest'
  <2>1. /\ m.review \in Reviews /\ pc[Mqtt] = "idle" /\ Mqtt \notin Holds
        /\ Receive(m, w, TRUE) /\ Configured(m)
        /\ life' = [life EXCEPT ![m.review] = m] /\ life \in [Reviews -> Message \cup {None}]
    BY <1>3, ModelAssumption DEF HandlePhase, Receive, TypeOK, Message
  <2>2. \A q \in Reviews : pending[q] # None => pending[q] \in Holds
    BY HoldsTypes
  <2>3. /\ UNCHANGED pending /\ pending[m.review] = None
        /\ \A h \in Holds : job'[h] = job[h]
        /\ job'[Mqtt] = Started(m, FALSE)
    BY <1>3, <2>1 DEF HandlePhase, Become, TypeOK, Procs
  <2>4. DecidesNewest'
    BY <2>1, <2>3, StartedCarries
  <2>5. HeldIsConfigured' /\ HoldKeepsNewest'
    BY <2>1, <2>2, <2>3, NewestElsewhere
  <2> QED BY <2>1, <2>4, <2>5, ReceiveNewest DEF Newest
<1>4. ASSUME NEW m \in Message, NEW w \in SUBSET Backends, HandlePhaseWhileHeld(m, w) PROVE Newest'
  <2>1. /\ m.review \in Reviews /\ pc[Mqtt] = "idle" /\ Mqtt \notin Holds
        /\ Receive(m, w, TRUE) /\ Configured(m)
        /\ life' = [life EXCEPT ![m.review] = m] /\ life \in [Reviews -> Message \cup {None}]
    BY <1>4, ModelAssumption DEF HandlePhaseWhileHeld, Receive, TypeOK, Message
  <2>2. \A q \in Reviews \ {m.review} : pending[q] # None => pending[q] \in Holds /\ pending[q] # pending[m.review]
    BY <2>1, HoldsTypes DEF HoldsAreTracked
  <2>3. /\ UNCHANGED pending /\ pending[m.review] \in Holds
        /\ job' = [job EXCEPT ![Mqtt] = Started(m, TRUE),
                              ![pending[m.review]] = Noted(pending[m.review], m)]
    BY <1>4, HoldsTypes DEF HandlePhaseWhileHeld, Receive, Message
  <2>4. /\ job'[Mqtt] = Started(m, TRUE)
        /\ job'[pending[m.review]] = Noted(pending[m.review], m)
        /\ \A h \in Holds \ {pending[m.review]} : job'[h] = job[h]
    BY <2>1, <2>3 DEF TypeOK, Procs
  <2>5. job[pending[m.review]] \in Job
    BY <2>3 DEF TypeOK, Procs
  <2>6. /\ Noted(pending[m.review], m).phase = m.phase
        /\ Noted(pending[m.review], m).content = m.content
    BY <2>5 DEF Noted, Job
  <2>7. DecidesNewest'
    BY <2>1, <2>4, StartedCarries
  <2>8. HeldIsConfigured' /\ HoldKeepsNewest'
    <3>1. \A q \in Reviews \ {m.review} : pending'[q] # None =>
            /\ pending'[q] = pending[q] /\ job'[pending[q]] = job[pending[q]]
            /\ life'[q] = life[q]
      BY <2>1, <2>2, <2>3, <2>4
    <3>2. /\ CameraOf[m.review] \in Cameras /\ life'[m.review] = m
          /\ job'[pending'[m.review]].phase = m.phase /\ job'[pending'[m.review]].content = m.content
      BY <2>1, <2>3, <2>4, <2>6 DEF Configured
    <3> QED BY <2>1, <3>1, <3>2, NewestElsewhere
  <2> QED BY <2>1, <2>7, <2>8, ReceiveNewest DEF Newest
<1>5. ASSUME NEW m \in Message, NEW w \in SUBSET Backends, HandleEndWhileHeld(m, w) PROVE Newest'
  <2>1. /\ m.review \in Reviews /\ pc[Mqtt] = "idle" /\ Mqtt \notin Holds
        /\ Receive(m, w, TRUE) /\ Configured(m)
        /\ life' = [life EXCEPT ![m.review] = m] /\ life \in [Reviews -> Message \cup {None}]
    BY <1>5, ModelAssumption DEF HandleEndWhileHeld, Receive, TypeOK, Message
  <2>2. \A q \in Reviews \ {m.review} : pending[q] # None => pending[q] \in Holds /\ pending[q] # pending[m.review]
    BY <2>1, HoldsTypes DEF HoldsAreTracked
  <2>3. pending' = [pending EXCEPT ![m.review] = None] /\ pending[m.review] \in Holds
    BY <1>5, HoldsTypes DEF HandleEndWhileHeld, Unheld, Receive, Message
  <2>4. /\ job'[Mqtt] = Started(m, FALSE)
        /\ \A h \in Holds \ {pending[m.review]} : job'[h] = job[h]
    BY <1>5, <2>1, <2>3 DEF HandleEndWhileHeld, TypeOK, Procs
  <2>5. DecidesNewest'
    BY <2>1, <2>4, StartedCarries
  <2>6. HeldIsConfigured' /\ HoldKeepsNewest'
    BY <2>1, <2>2, <2>3, <2>4, NewestElsewhere DEF TypeOK
  <2> QED BY <2>1, <2>5, <2>6, ReceiveNewest DEF Newest
<1>6. ASSUME NEW r \in Reviews, NEW d \in Descriptions, NEW v \in SUBSET Backends,
             NEW w \in SUBSET Backends, HandleDescription(r, d, v, w)
      PROVE  Newest'
  BY <1>6, NewestStay, NewestGo DEF HandleDescription, Procs, store
<1>7. ASSUME NEW v \in SUBSET Backends, NEW w \in SUBSET Backends, LateDescription(v, w)
      PROVE  Newest'
  BY <1>7, NewestGo, NewestDone DEF LateDescription, Procs, store
<1>8. ASSUME NEW h \in Holds, TimerFires(h) PROVE Newest'
  <2>1. /\ pc' = [pc EXCEPT ![h] = "fired"] /\ UNCHANGED <<job, pending, life, last, seen>>
        /\ h # Mqtt
    BY <1>8, ModelAssumption DEF TimerFires, Goto, store
  <2>2. DecidesNewest' /\ HeldIsConfigured' /\ HoldKeepsNewest'
    BY <2>1 DEF Newest, DecidesNewest, HeldIsConfigured, HoldKeepsNewest, Carries, Configured,
       TypeOK, Procs
  <2> QED BY <2>1, <2>2, NothingHandedOver DEF Newest
<1>9. ASSUME NEW h \in Holds, TimerDecides(h) PROVE Newest'
  <2>1. /\ pending' = [pending EXCEPT ![job[h].review] = None] /\ pending \in [Reviews -> Holds \cup {None}]
        /\ pending[job[h].review] = h /\ job[h].review \in Reviews
        /\ h # Mqtt /\ UNCHANGED <<life, last, seen>>
        /\ \A q \in Procs \ {h} : pc'[q] = pc[q] /\ job'[q] = job[q]
    BY <1>9, ModelAssumption DEF TimerDecides, Live, Unheld, Done, Goto, Become, store, TypeOK,
       Job, Procs
  <2>2. \A q \in Reviews \ {job[h].review} : pending[q] # None => pending[q] \in Procs \ {h}
    BY <2>1, HoldsTypes DEF HoldsAreTracked, Procs
  <2>3. HeldIsConfigured' /\ HoldKeepsNewest'
    BY <2>1, <2>2, NewestElsewhere
  <2>4. DecidesNewest'
    BY <2>1 DEF Newest, DecidesNewest, Carries, Configured, Procs
  <2> QED BY <2>1, <2>3, <2>4, NothingHandedOver DEF Newest
<1>10. ASSUME NEW h \in Holds, TimerIsLate(h) PROVE Newest'
  <2>1. \A r \in Reviews : pending[r] # None => pending[r] \in Procs \ {h}
    BY <1>10, HoldsTypes DEF TimerIsLate, Live, HoldsAreTracked, Procs
  <2>2. /\ \A q \in Procs \ {h} : pc'[q] = pc[q] /\ job'[q] = job[q]
        /\ h # Mqtt /\ UNCHANGED <<pending, life, last, seen>>
    BY <1>10, ModelAssumption DEF TimerIsLate, Done, Goto, Become, store, TypeOK, Procs
  <2>3. DecidesNewest' /\ HeldIsConfigured' /\ HoldKeepsNewest'
    BY <2>1, <2>2 DEF Newest, DecidesNewest, HeldIsConfigured, HoldKeepsNewest, Carries,
       Configured, Procs
  <2> QED BY <2>2, <2>3, NothingHandedOver DEF Newest
<1>11. ASSUME NEW p \in Procs, Unmatched(p) PROVE Newest'
  BY <1>11, NewestDone DEF Unmatched, store
<1>12. ASSUME NEW p \in Procs, NEW i \in RuleIds, DeferDecision(p, i) PROVE Newest'
  <2>1. /\ p = Mqtt /\ p \notin Holds /\ pc[p] = "match" /\ job[p] \in Job /\ job[p].review \in Reviews
        /\ UNCHANGED <<life, last, seen>> /\ pending \in [Reviews -> Holds \cup {None}]
    BY <1>12, ModelAssumption DEF DeferDecision, MustWait, TypeOK, Job, store
  <2>2. Configured(job[p]) /\ Carries(job[p])
    BY <2>1 DEF Newest, DecidesNewest
  <2>3. CASE pending[job[p].review] # None
    <3>1. pending[job[p].review] \in Holds
      BY <2>1, <2>3 DEF TypeOK
    <3>2. job[pending[job[p].review]] \in Job
      BY <3>1 DEF TypeOK, Procs
    <3>3. /\ Noted(pending[job[p].review], job[p]).phase = job[p].phase
          /\ Noted(pending[job[p].review], job[p]).content = job[p].content
      BY <3>2 DEF Noted, Job
    <3>4. /\ pc' = [pc EXCEPT ![p] = "idle"]
          /\ job' = [job EXCEPT ![p] = Blank,
                                ![pending[job[p].review]] = Noted(pending[job[p].review], job[p])]
          /\ UNCHANGED pending
      BY <1>12, <2>3 DEF DeferDecision, Goto
    <3>5. \A q \in Reviews \ {job[p].review} : pending[q] # None =>
            pending[q] \in Holds /\ pending[q] # pending[job[p].review]
      BY <2>1, <2>3, HoldsTypes DEF HoldsAreTracked
    <3>6. /\ job'[pending[job[p].review]] = Noted(pending[job[p].review], job[p])
          /\ \A h \in Holds \ {pending[job[p].review]} : job'[h] = job[h]
      BY <2>1, <3>1, <3>4 DEF TypeOK, Procs
    <3>7. HeldIsConfigured' /\ HoldKeepsNewest'
      <4>1. \A q \in Reviews \ {job[p].review} : pending'[q] # None =>
              /\ pending'[q] = pending[q] /\ job'[pending[q]] = job[pending[q]]
              /\ life'[q] = life[q]
        BY <2>1, <3>4, <3>5, <3>6
      <4>2. /\ CameraOf[job[p].review] \in Cameras
            /\ job'[pending'[job[p].review]].phase = life'[job[p].review].phase
            /\ job'[pending'[job[p].review]].content = life'[job[p].review].content
        BY <2>1, <2>2, <3>3, <3>4, <3>6 DEF Configured, Carries
      <4> QED BY <2>1, <4>1, <4>2, NewestElsewhere
    <3>8. DecidesNewest'
      BY <2>1, <3>4 DEF DecidesNewest, TypeOK, Procs
    <3> QED BY <2>1, <3>7, <3>8, NothingHandedOver DEF Newest
  <2>4. CASE pending[job[p].review] = None
    <3>1. PICK h \in Holds :
            /\ pc[h] = "idle"
            /\ pc' = [pc EXCEPT ![p] = "idle", ![h] = "armed"]
            /\ job' = [job EXCEPT ![p] = Blank, ![h] = [job[p] EXCEPT !.holding = FALSE]]
            /\ pending' = [pending EXCEPT ![job[p].review] = h]
      BY <1>12, <2>4 DEF DeferDecision
    <3>2. /\ [job[p] EXCEPT !.holding = FALSE].phase = job[p].phase
          /\ [job[p] EXCEPT !.holding = FALSE].content = job[p].content
      BY <2>1 DEF Job
    <3>3. /\ job'[h] = [job[p] EXCEPT !.holding = FALSE]
          /\ \A k \in Holds \ {h} : job'[k] = job[k]
      BY <2>1, <3>1 DEF TypeOK, Procs
    <3>4. \A q \in Reviews : pending[q] # None => pending[q] \in Holds \ {h}
      BY <3>1, HoldsTypes DEF HoldsAreTracked
    <3>5. HeldIsConfigured' /\ HoldKeepsNewest'
      <4>1. \A q \in Reviews \ {job[p].review} : pending'[q] # None =>
              /\ pending'[q] = pending[q] /\ job'[pending[q]] = job[pending[q]]
              /\ life'[q] = life[q]
        BY <2>1, <3>1, <3>3, <3>4
      <4>2. pending'[job[p].review] = h
        BY <2>1, <3>1
      <4>3. /\ CameraOf[job[p].review] \in Cameras
            /\ job'[pending'[job[p].review]].phase = life'[job[p].review].phase
            /\ job'[pending'[job[p].review]].content = life'[job[p].review].content
        BY <2>1, <2>2, <3>2, <3>3, <4>2 DEF Configured, Carries
      <4> QED BY <2>1, <4>1, <4>3, NewestElsewhere
    <3>6. DecidesNewest'
      BY <2>1, <3>1 DEF DecidesNewest, TypeOK, Procs
    <3> QED BY <2>1, <3>5, <3>6, NothingHandedOver DEF Newest
  <2> QED BY <2>3, <2>4
<1>13. ASSUME NEW p \in Procs, NEW i \in RuleIds, MatchNow(p, i) PROVE Newest'
  BY <1>13, NewestGo DEF MatchNow, store
<1>14. ASSUME NEW p \in Procs, NEW w \in SUBSET Backends, NotNotified(p, w) PROVE Newest'
  BY <1>14, NewestGo, NewestDone DEF NotNotified, Loads, store
<1>15. ASSUME NEW p \in Procs, NEW w \in SUBSET Backends, Escalate(p, w) PROVE Newest'
  BY <1>15, NewestGo DEF Escalate, Loads, store
<1>16. ASSUME NEW p \in Procs, NEW w \in SUBSET Backends, RefreshUnderBetterRule(p, w) PROVE Newest'
  BY <1>16, NewestGo DEF RefreshUnderBetterRule, Loads, store
<1>17. ASSUME NEW p \in Procs, NEW w \in SUBSET Backends, SendUpdate(p, w) PROVE Newest'
  BY <1>17, NewestGo DEF SendUpdate, Loads, store
<1>18. ASSUME NEW p \in Procs, NEW w \in SUBSET Backends, AlreadyNotified(p, w) PROVE Newest'
  BY <1>18, NewestDone DEF AlreadyNotified, Loads, store
<1>19. ASSUME NEW p \in Procs, SkipCooldown(p) PROVE Newest'
  BY <1>19, NewestGoto DEF SkipCooldown, store
<1>20. ASSUME NEW p \in Procs, NothingDelivered(p) PROVE Newest'
  BY <1>20, NewestDone DEF NothingDelivered, store
<1>21. ASSUME NEW p \in Procs, NEW w \in SUBSET Backends, OpenCooldown(p, w) PROVE Newest'
  BY <1>21, NewestGoto DEF OpenCooldown, TryCooldown, store
<1>22. ASSUME NEW p \in Procs, NEW w \in SUBSET Backends, SuppressedByCooldown(p, w) PROVE Newest'
  BY <1>22, NewestDone DEF SuppressedByCooldown, TryCooldown, store
<1>23. ASSUME NEW p \in Procs, NEW w \in SUBSET Backends, Render(p, w) PROVE Newest'
  BY <1>23, NewestGo DEF Render, store
<1>24. ASSUME NEW p \in Procs, NEW w \in SUBSET Backends, Rerender(p, w) PROVE Newest'
  BY <1>24, NewestGo DEF Rerender, store
<1>25. ASSUME NEW p \in Procs, NEW d \in Delivery, NEW o \in {"ok", "lost", "failed"}, Push(p,
              d, o)
       PROVE  Newest'
  BY <1>25, NewestBecome DEF Push, store
<1>26. ASSUME NEW p \in Procs, NEW d \in Delivery, NEW o \in {"ok", "lost", "failed"}, Edit(p,
              d, o)
       PROVE  Newest'
  BY <1>26, NewestBecome DEF Edit, store
<1>27. ASSUME NEW p \in Procs, NEW w \in SUBSET Backends, ReleaseCooldown(p, w) PROVE Newest'
  BY <1>27, NewestDone DEF ReleaseCooldown, store
<1>28. ASSUME NEW p \in Procs, NEW w \in SUBSET Backends, SaveReview(p, w) PROVE Newest'
  BY <1>28, NewestGo, NewestDone DEF SaveReview, HasResult, store
<1>29. ASSUME NEW p \in Procs, NEW w \in SUBSET Backends, IndexEvent(p, w) PROVE Newest'
  BY <1>29, NewestDone DEF IndexEvent, store
<1>30. ASSUME NEW b \in Backends, ExpireSeen(b) PROVE Newest'
  BY <1>30, NewestStay DEF ExpireSeen, Expiry, TypeOK
<1>31. ASSUME NEW b \in Backends, ExpireCooldown(b) PROVE Newest'
  BY <1>31, NewestStay DEF ExpireCooldown, Expiry, store
<1>32. ASSUME NEW b \in Backends, ExpireReview(b) PROVE Newest'
  BY <1>32, NewestStay DEF ExpireReview, Expiry, store
<1>33. ASSUME NEW b \in Backends, ExpireEvent(b) PROVE Newest'
  BY <1>33, NewestStay DEF ExpireEvent, Expiry, store
<1>34. ASSUME NEW b \in Backends, ExpireDescription(b) PROVE Newest'
  BY <1>34, NewestStay DEF ExpireDescription, Expiry, store
<1>35. ASSUME Shutdown PROVE Newest'
  BY <1>35, NewestStay DEF Shutdown, store
<1>36. ASSUME Restart PROVE Newest'
  <2>1. /\ UNCHANGED <<life, last>> /\ \A b \in Backends : seen'[b] \subseteq seen[b]
        /\ pc'[Mqtt] = "idle" /\ \A r \in Reviews : pending'[r] = None
    BY <1>36 DEF Restart, Survives, Procs, TypeOK
  <2>2. DecidesNewest' /\ HeldIsConfigured' /\ HoldKeepsNewest'
    BY <2>1 DEF DecidesNewest, HeldIsConfigured, HoldKeepsNewest
  <2> QED BY <2>1, <2>2, NothingHandedOver DEF Newest
<1>37. ASSUME Dispatch PROVE Newest'
  BY <1>37, <1>1, <1>2, <1>3, <1>4, <1>5, <1>6, ConfigAssumption DEF Dispatch
<1>38. ASSUME NEW p \in Procs, Decide(p) PROVE Newest'
  BY <1>38, <1>11, <1>12, <1>13, <1>14, <1>15, <1>16, <1>17, <1>18 DEF Decide
<1>39. ASSUME NEW p \in Procs, Send(p) PROVE Newest'
  BY <1>39, <1>19, <1>20, <1>21, <1>22, <1>23, <1>24, <1>27, <1>28, <1>29, <1>25, <1>26 DEF Send
<1>40. ASSUME NEW p \in Procs, Run(p) PROVE Newest'
  BY <1>40, <1>38, <1>39, <1>9, <1>10, <1>7 DEF Run, Timer, LookUpDescription
<1>41. ASSUME Expire PROVE Newest'
  BY <1>41, <1>30, <1>31, <1>32, <1>33, <1>34 DEF Expire
<1>42. CASE UNCHANGED vars
  BY <1>42, NewestStay DEF vars, store
<1>43. ASSUME NEW m \in Message, LoseOwnMessage(m) PROVE Newest'
  BY <1>43, NothingResent
<1>44. ASSUME NEW p \in Procs, Resend(p) PROVE Newest'
  BY <1>44, NothingResent
<1> QED
  BY <1>37, <1>40, <1>41, <1>42, <1>43, <1>44, <1>8, <1>35, <1>36 DEF Next

-----------------------------------------------------------------------------
\* Every notification a review's state lists is on its target.
Shows(r, st) == \A d \in st.deliveries : IsShown(r, d, st.tag)

Stored == \A b \in Backends, r \in Reviews :
            reviews[b][r] # None => Shows(r, reviews[b][r])

\* A send keeps to its audience.
Sending(j) ==
  /\ \A d \in j.todo \cup j.sent : d.tag = SameTag
  /\ \A d \in j.todo : /\ OwnerOf[d.target] \in Rules[j.rule].to
                       /\ j.tag = "fn-esc" => Wakes(j.rule, d.target)
  /\ \A d \in j.sent : IsShown(j.review, d, j.tag)

JobShown(l, j) ==
  /\ j.prior # None => Shows(j.review, j.prior)
  /\ l = "send" => Sending(j)
  /\ l = "edit" => /\ j.prior # None /\ j.tag = j.prior.tag
                   /\ j.todo \subseteq j.prior.deliveries

Jobs == \A p \in Procs : JobShown(pc[p], job[p])

LEMMA Regrouped == Stored /\ Jobs <=> RecordIsShown /\ SendsKeepToTheirAudience
  BY DEF Stored, Jobs, JobShown, Sending, Shows, RecordIsShown,
         SendsKeepToTheirAudience, Escalating

-----------------------------------------------------------------------------
(***************************************************************************)
(* Steps that leave the notifications alone.                               *)
(***************************************************************************)
LEMMA QuietJob ==
  ASSUME NEW j, j.prior = None, NEW l, l \notin {"send", "edit"}
  PROVE  JobShown(l, j)
  BY DEF JobShown

LEMMA StoredStay ==
  ASSUME Stored, UNCHANGED <<reviews, phone>>
  PROVE  Stored'
  BY DEF Stored, Shows, IsShown

LEMMA StoredFewer ==
  ASSUME Stored, UNCHANGED phone,
         \A c \in Backends, q \in Reviews :
           reviews'[c][q] = None \/ reviews'[c][q] = reviews[c][q]
  PROVE  Stored'
  BY DEF Stored, Shows, IsShown

LEMMA StoredWritten ==
  ASSUME TypeOK, Stored, UNCHANGED phone, NEW w, NEW r \in Reviews, NEW st, Shows(r, st),
         reviews' = Written(reviews, w, r, st)
  PROVE  Stored'
<1>1. \A c \in Backends, q \in Reviews :
        reviews'[c][q] = reviews[c][q] \/ (q = r /\ reviews'[c][q] = st)
  BY DEF Written, Applied, TypeOK
<1> QED BY <1>1 DEF Stored, Shows, IsShown

LEMMA JobsStay ==
  ASSUME Jobs, UNCHANGED <<pc, job, phone>>
  PROVE  Jobs'
  BY DEF Jobs, JobShown, Sending, Shows, IsShown, Wakes

LEMMA JobsMove ==
  ASSUME Jobs, UNCHANGED phone, NEW P \in SUBSET Procs,
         \A p \in P : JobShown(pc'[p], job'[p]),
         \A q \in Procs \ P : pc'[q] = pc[q] /\ job'[q] = job[q]
  PROVE  Jobs'
<1>1. \A p \in Procs : JobShown(pc'[p], job'[p])
  BY DEF Jobs
<1> QED BY <1>1 DEF Jobs, JobShown, Sending, Shows, IsShown, Wakes

LEMMA JobsGo ==
  ASSUME TypeOK, Jobs, UNCHANGED phone, NEW p \in Procs, NEW l, NEW j,
         Goto(p, l), Become(p, j), JobShown(l, j)
  PROVE  Jobs'
<1>1. /\ pc'[p] = l /\ job'[p] = j
      /\ \A q \in Procs \ {p} : pc'[q] = pc[q] /\ job'[q] = job[q]
  BY DEF TypeOK, Goto, Become
<1>2. \A q \in {p} : JobShown(pc'[q], job'[q])
  BY <1>1
<1>3. {p} \in SUBSET Procs
  OBVIOUS
<1> QED BY <1>1, <1>2, <1>3, JobsMove

LEMMA JobsGoto ==
  ASSUME TypeOK, Jobs, UNCHANGED <<phone, job>>, NEW p \in Procs, NEW l,
         Goto(p, l), JobShown(l, job[p])
  PROVE  Jobs'
<1>1. pc'[p] = l /\ \A q \in Procs \ {p} : pc'[q] = pc[q]
  BY DEF TypeOK, Goto
<1>2. \A q \in {p} : JobShown(pc'[q], job'[q])
  BY <1>1
<1>3. {p} \in SUBSET Procs
  OBVIOUS
<1> QED BY <1>1, <1>2, <1>3, JobsMove

LEMMA JobsDone ==
  ASSUME TypeOK, Jobs, UNCHANGED phone, NEW p \in Procs, Done(p)
  PROVE  Jobs'
<1>1. JobShown("idle", Blank)
  BY BlankType, QuietJob
<1> QED BY <1>1, JobsGo DEF Done

\* A step of one goroutine that also moves or rewrites another.
LEMMA JobsMoveTwo ==
  ASSUME TypeOK, Jobs, UNCHANGED phone, NEW p \in Procs, NEW k \in Procs \ {p},
         NEW l, NEW j, NEW lk, NEW jk, JobShown(l, j), JobShown(lk, jk),
         pc' = [pc EXCEPT ![p] = l, ![k] = lk] \/ (pc' = [pc EXCEPT ![p] = l] /\ lk = pc[k]),
         job' = [job EXCEPT ![p] = j, ![k] = jk]
  PROVE  Jobs'
<1>1. /\ pc'[p] = l /\ job'[p] = j /\ pc'[k] = lk /\ job'[k] = jk
      /\ \A q \in Procs \ {p, k} : pc'[q] = pc[q] /\ job'[q] = job[q]
  BY DEF TypeOK
<1>2. \A q \in {p, k} : JobShown(pc'[q], job'[q])
  BY <1>1
<1>3. {p, k} \in SUBSET Procs
  OBVIOUS
<1> QED BY <1>1, <1>2, <1>3, JobsMove

\* Taking a newer payload leaves a timer's notifications alone.
LEMMA NotedShown ==
  ASSUME TypeOK, Jobs, NEW h \in Procs, NEW m
  PROVE  JobShown(pc[h], Noted(h, m))
<1> DEFINE j == Noted(h, m)
<1>1. /\ j.prior = job[h].prior /\ j.review = job[h].review /\ j.tag = job[h].tag
      /\ j.rule = job[h].rule /\ j.todo = job[h].todo /\ j.sent = job[h].sent
  BY DEF TypeOK, Job, Noted
<1>2. JobShown(pc[h], job[h])
  BY DEF Jobs
<1> HIDE DEF j
<1>3. JobShown(pc[h], j)
  BY <1>1, <1>2 DEF JobShown, Sending
<1> QED BY <1>3 DEF j

\* A goroutine that loads a review's state loads notifications that are shown.
LEMMA LoadedShown ==
  ASSUME TypeOK, Stored, NEW p \in Procs, NEW w, Loaded(p, w) # None,
         NEW l \in {"render", "rerender"}, NEW tag, NEW i
  PROVE  /\ JobShown(l, [job[p] EXCEPT !.prior = Loaded(p, w), !.tag = tag])
         /\ JobShown(l, [job[p] EXCEPT !.prior = Loaded(p, w), !.tag = tag, !.rule = i])
<1>1. job[p] \in Job /\ job[p].review \in Reviews /\ Answer(w) \in Backends
  BY AnswerType DEF TypeOK, Job
<1>2. Shows(job[p].review, Loaded(p, w))
  BY <1>1 DEF Stored, Loaded
<1>3. ASSUME NEW j, j.review = job[p].review, j.prior = Loaded(p, w) PROVE JobShown(l, j)
  BY <1>2, <1>3 DEF JobShown
<1>4. LET j == [job[p] EXCEPT !.prior = Loaded(p, w), !.tag = tag]
      IN  j.review = job[p].review /\ j.prior = Loaded(p, w)
  BY <1>1 DEF Job
<1>5. LET j == [job[p] EXCEPT !.prior = Loaded(p, w), !.tag = tag, !.rule = i]
      IN  j.review = job[p].review /\ j.prior = Loaded(p, w)
  BY <1>1 DEF Job
<1> QED BY <1>3, <1>4, <1>5

\* What a first send or an escalation records is shown: what it sent, and what it
\* carried over under the tag that was sent with.
LEMMA DeliveredShown ==
  ASSUME NEW p \in Procs, job[p] \in Job, pc[p] = "send", JobShown("send", job[p])
  PROVE  Shows(job[p].review, Delivered(p))
<1>1. \A d \in job[p].sent : IsShown(job[p].review, d, job[p].tag)
  BY DEF JobShown, Sending
<1>2. Delivered(p).tag = job[p].tag
  BY DEF Delivered
<1>3. CASE ~Escalating(p)
  BY <1>1, <1>2, <1>3 DEF Delivered, Shows
<1>4. CASE Escalating(p)
  <2> DEFINE st == job[p].prior
  <2>1. st \in ReviewState /\ Shows(job[p].review, st)
    BY <1>4 DEF Escalating, JobShown, Job
  <2>2. Delivered(p).deliveries = CarryOver(job[p].sent, st)
    BY <1>4 DEF Delivered
  <2>3. ASSUME NEW d \in CarryOver(job[p].sent, st), d \notin job[p].sent
        PROVE  IsShown(job[p].review, d, job[p].tag)
    <3>1. PICK e \in st.deliveries : d = [target |-> e.target, tag |-> TagOf(e, st.tag)]
      BY <2>3 DEF CarryOver
    <3>2. TagOf(e, st.tag) \in Tags
      BY <2>1, TagOfType DEF ReviewState
    <3>3. TagOf(d, job[p].tag) = TagOf(e, st.tag) /\ d.target = e.target
      BY <3>1, <3>2 DEF TagOf, Tags, SameTag
    <3> QED BY <2>1, <3>1, <3>3 DEF Shows, IsShown
  <2> QED BY <1>1, <1>2, <2>2, <2>3 DEF Shows
<1> QED BY <1>3, <1>4

\* So is what an edit records: the notifications it found on record.
LEMMA ResultShown ==
  ASSUME TypeOK, Locals, Jobs, NEW p \in Procs, HasResult(p)
  PROVE  Shows(job[p].review, Result(p))
<1>1. job[p] \in Job /\ JobShown(pc[p], job[p]) /\ LocalOK(pc[p], job[p])
  BY DEF TypeOK, Jobs, Locals
<1>2. CASE pc[p] = "send"
  BY <1>1, <1>2, DeliveredShown DEF Result
<1>3. CASE pc[p] = "edit"
  <2>1. job[p].prior \in ReviewState /\ Shows(job[p].review, job[p].prior)
    BY <1>1, <1>3 DEF JobShown, LocalOK, Job
  <2>2. Edited(p).deliveries = job[p].prior.deliveries /\ Edited(p).tag = job[p].prior.tag
    BY <2>1 DEF Edited, ReviewState
  <2> QED BY <1>3, <2>1, <2>2 DEF Shows, Result
<1> QED BY <1>2, <1>3 DEF HasResult

-----------------------------------------------------------------------------
(***************************************************************************)
(* Steps that show a notification: none ever disappears.                   *)
(***************************************************************************)
PhoneGrows == \A r \in Reviews, t \in Targets, g \in Tags :
                phone[r][t][g] # None => phone'[r][t][g] # None

Landed(r, d, tag) == phone'[r][d.target][TagOf(d, tag)] # None

LEMMA LandsGrows ==
  ASSUME TypeOK, NEW p \in Procs, NEW d \in Delivery, Lands(p, d)
  PROVE  PhoneGrows /\ Landed(job[p].review, d, job[p].tag)
<1>1. Content(p, d.target) # None
  BY ContentType, ModelAssumption
<1>2. /\ job[p].review \in Reviews /\ d.target \in Targets
      /\ TagOf(d, job[p].tag) \in Tags
  BY TagOfType DEF TypeOK, Job, Delivery
<1>3. phone' = [phone EXCEPT ![job[p].review][d.target][TagOf(d, job[p].tag)] =
                               Content(p, d.target)]
  BY DEF Lands
<1> QED BY <1>1, <1>2, <1>3 DEF PhoneGrows, Landed, TypeOK

\* JobShown of the next state's notifications.
JobShownNext(l, j) ==
  /\ j.prior # None => \A d \in j.prior.deliveries : Landed(j.review, d, j.prior.tag)
  /\ l = "send" =>
       /\ \A d \in j.todo \cup j.sent : d.tag = SameTag
       /\ \A d \in j.todo : /\ OwnerOf[d.target] \in Rules[j.rule].to
                            /\ j.tag = "fn-esc" => Wakes(j.rule, d.target)
       /\ \A d \in j.sent : Landed(j.review, d, j.tag)
  /\ l = "edit" => /\ j.prior # None /\ j.tag = j.prior.tag
                   /\ j.todo \subseteq j.prior.deliveries

LEMMA ShownGrows ==
  ASSUME PhoneGrows, NEW r \in Reviews, NEW d \in Delivery, NEW tag \in Tags,
         IsShown(r, d, tag)
  PROVE  Landed(r, d, tag)
<1>1. d.target \in Targets /\ TagOf(d, tag) \in Tags
  BY TagOfType DEF Delivery
<1> QED BY <1>1 DEF PhoneGrows, IsShown, Landed

LEMMA JobGrows ==
  ASSUME TypeOK, PhoneGrows, NEW q \in Procs, JobShown(pc[q], job[q])
  PROVE  JobShownNext(pc[q], job[q])
<1>1. /\ job[q].review \in Reviews /\ job[q].tag \in Tags /\ job[q].sent \subseteq Delivery
      /\ job[q].prior # None => job[q].prior.deliveries \subseteq Delivery
                                /\ job[q].prior.tag \in Tags
  BY DEF TypeOK, Job, ReviewState
<1>2. job[q].prior # None =>
        \A d \in job[q].prior.deliveries : Landed(job[q].review, d, job[q].prior.tag)
  BY <1>1, ShownGrows DEF JobShown, Shows
<1>3. pc[q] = "send" => \A d \in job[q].sent : Landed(job[q].review, d, job[q].tag)
  BY <1>1, ShownGrows DEF JobShown, Sending
<1> QED BY <1>2, <1>3 DEF JobShown, JobShownNext, Sending

LEMMA StoredGrows ==
  ASSUME TypeOK, Stored, PhoneGrows, UNCHANGED reviews
  PROVE  Stored'
<1> SUFFICES ASSUME NEW b \in Backends, NEW r \in Reviews, reviews[b][r] # None,
                    NEW d \in reviews[b][r].deliveries
             PROVE  Landed(r, d, reviews[b][r].tag)
  BY DEF Stored, Shows, IsShown, Landed
<1>1. reviews[b][r] \in ReviewState
  BY DEF TypeOK
<1> QED BY <1>1, ShownGrows DEF Stored, Shows, ReviewState

-----------------------------------------------------------------------------
(***************************************************************************)
(* The invariant.                                                          *)
(***************************************************************************)
LEMMA RecordInit == Init => Stored /\ Jobs
  BY BlankType DEF Init, Stored, Jobs, JobShown

LEMMA RecordNext == TypeOK /\ Locals /\ Stored /\ Jobs /\ [Next]_vars => Stored' /\ Jobs'
<1> SUFFICES ASSUME TypeOK, Locals, Stored, Jobs, [Next]_vars PROVE Stored' /\ Jobs'
  OBVIOUS
<1>1. ASSUME NEW m \in Message, NEW w \in SUBSET Backends, IgnoreReview(m, w) PROVE Stored' /\ Jobs'
  BY <1>1, StoredStay, JobsStay DEF IgnoreReview, Receive, world
<1>2. ASSUME NEW m \in Message, NEW w \in SUBSET Backends, HandleGenAI(m, w) PROVE Stored' /\ Jobs'
  BY <1>2, StartedType, QuietJob, StoredStay, JobsGo DEF HandleGenAI, Receive, world, Procs
<1>3. ASSUME NEW m \in Message, NEW w \in SUBSET Backends, HandlePhase(m, w) PROVE Stored' /\ Jobs'
  BY <1>3, StartedType, QuietJob, StoredStay, JobsGo DEF HandlePhase, Receive, world, Procs
<1>4. ASSUME NEW m \in Message, NEW w \in SUBSET Backends, HandlePhaseWhileHeld(m, w)
      PROVE  Stored' /\ Jobs'
  <2>1. pending[m.review] \in Procs \ {Mqtt}
    BY <1>4, ModelAssumption DEF HandlePhaseWhileHeld, TypeOK, Procs, Message
  <2>2. UNCHANGED <<reviews, phone>>
    BY <1>4 DEF HandlePhaseWhileHeld, Receive, world
  <2>3. Started(m, TRUE).prior = None
    BY StartedType
  <2>4. JobShown("match", Started(m, TRUE))
    BY <2>3, QuietJob
  <2>5. JobShown(pc[pending[m.review]], Noted(pending[m.review], m))
    BY <2>1, NotedShown
  <2>6. /\ pc' = [pc EXCEPT ![Mqtt] = "match"]
        /\ job' = [job EXCEPT ![Mqtt] = Started(m, TRUE),
                              ![pending[m.review]] = Noted(pending[m.review], m)]
    BY <1>4 DEF HandlePhaseWhileHeld, Goto
  <2> QED BY <2>1, <2>2, <2>4, <2>5, <2>6, StoredStay, JobsMoveTwo DEF Procs, TypeOK
<1>5. ASSUME NEW m \in Message, NEW w \in SUBSET Backends, HandleEndWhileHeld(m, w)
      PROVE  Stored' /\ Jobs'
  <2>1. pending[m.review] \in Procs \ {Mqtt}
    BY <1>5, ModelAssumption DEF HandleEndWhileHeld, TypeOK, Procs, Message
  <2>2. UNCHANGED <<reviews, phone>>
    BY <1>5 DEF HandleEndWhileHeld, Receive, world
  <2>3. Started(m, FALSE).prior = None /\ Blank.prior = None
    BY StartedType, BlankType
  <2> DEFINE k == pending[m.review]
  <2>4. JobShown("match", Started(m, FALSE))
    BY <2>3, QuietJob
  <2>5. JobShown(IF pc[k] = "armed" THEN "idle" ELSE pc[k],
                 IF pc[k] = "armed" THEN Blank ELSE job[k])
    BY <2>1, <2>3, QuietJob DEF Jobs
  <2>6. /\ pc' = [pc EXCEPT ![Mqtt] = "match", ![k] = IF pc[k] = "armed" THEN "idle" ELSE pc[k]]
        /\ job' = [job EXCEPT ![Mqtt] = Started(m, FALSE),
                              ![k] = IF pc[k] = "armed" THEN Blank ELSE job[k]]
    BY <1>5, <2>1 DEF HandleEndWhileHeld, TypeOK, Procs
  <2> HIDE DEF k
  <2> QED BY <2>1, <2>2, <2>4, <2>5, <2>6, StoredStay, JobsMoveTwo DEF Procs, TypeOK, k
<1>6. ASSUME NEW r \in Reviews, NEW d \in Descriptions, NEW v \in SUBSET Backends,
             NEW w \in SUBSET Backends, HandleDescription(r, d, v, w)
      PROVE  Stored' /\ Jobs'
  <2>1. [Blank EXCEPT !.review = r].prior = None
    BY BlankType DEF Job
  <2> QED BY <1>6, <2>1, QuietJob, StoredStay, JobsGo, JobsStay
          DEF HandleDescription, Procs, world
<1>7. ASSUME NEW v \in SUBSET Backends, NEW w \in SUBSET Backends, LateDescription(v, w)
      PROVE  Stored' /\ Jobs'
  <2> DEFINE r  == job[Mqtt].review
             st == reviews[Answer(w)][r]
             j  == [job[Mqtt] EXCEPT !.phase = "description", !.prior = st,
                                     !.tag = st.tag, !.rule = st.ruleIndex]
  <2>1. job[Mqtt] \in Job /\ Mqtt \in Procs /\ r \in Reviews /\ Answer(w) \in Backends
    BY AnswerType DEF TypeOK, Procs, Job
  <2>2. UNCHANGED <<reviews, phone>>
    BY <1>7 DEF LateDescription, store, world
  <2>3. CASE st # None /\ Goto(Mqtt, "rerender") /\ Become(Mqtt, j)
    <3>1. Shows(r, st)
      BY <2>1, <2>3 DEF Stored
    <3>2. j.review = r /\ j.prior = st
      BY <2>1 DEF Job
    <3>3. JobShown("rerender", j)
      BY <3>1, <3>2 DEF JobShown
    <3> QED BY <2>1, <2>2, <2>3, <3>3, StoredStay, JobsGo
  <2>4. CASE Done(Mqtt)
    BY <2>1, <2>2, <2>4, StoredStay, JobsDone
  <2> QED BY <1>7, <2>3, <2>4 DEF LateDescription
<1>8. ASSUME NEW h \in Holds, TimerFires(h) PROVE Stored' /\ Jobs'
  <2>1. JobShown("fired", job[h]) /\ UNCHANGED <<reviews, phone>> /\ h \in Procs
    BY <1>8 DEF TimerFires, Jobs, JobShown, Procs, store, world
  <2> QED BY <1>8, <2>1, StoredStay, JobsGoto DEF TimerFires
<1>9. ASSUME NEW h \in Holds, TimerDecides(h) PROVE Stored' /\ Jobs'
  <2>1. JobShown("match", job[h]) /\ UNCHANGED <<reviews, phone>> /\ h \in Procs
    BY <1>9 DEF TimerDecides, Jobs, JobShown, Procs, store, world
  <2> QED BY <1>9, <2>1, StoredStay, JobsGoto, JobsDone DEF TimerDecides
<1>10. ASSUME NEW h \in Holds, TimerIsLate(h) PROVE Stored' /\ Jobs'
  BY <1>10, StoredStay, JobsDone DEF TimerIsLate, store, world, Procs
<1>11. ASSUME NEW p \in Procs, Unmatched(p) PROVE Stored' /\ Jobs'
  BY <1>11, StoredStay, JobsDone DEF Unmatched, store, world, Procs
<1>12. ASSUME NEW p \in Procs, NEW i \in RuleIds, DeferDecision(p, i) PROVE Stored' /\ Jobs'
  <2>1. /\ p = Mqtt /\ p \notin Holds /\ job[p] \in Job /\ job[p].review \in Reviews
        /\ job[p].prior = None /\ Blank.prior = None
    BY <1>12, ModelAssumption, BlankType
       DEF DeferDecision, MustWait, TypeOK, Job, Locals, LocalOK
  <2>2. UNCHANGED <<reviews, phone>>
    BY <1>12 DEF DeferDecision, store, world
  <2>3. JobShown("idle", Blank)
    BY <2>1, QuietJob
  <2>4. CASE pending[job[p].review] # None
    <3>1. pending[job[p].review] \in Procs \ {p}
      BY <2>1, <2>4 DEF TypeOK, Procs
    <3>2. JobShown(pc[pending[job[p].review]], Noted(pending[job[p].review], job[p]))
      BY <3>1, NotedShown
    <3>3. /\ pc' = [pc EXCEPT ![p] = "idle"]
          /\ job' = [job EXCEPT ![p] = Blank,
                                ![pending[job[p].review]] = Noted(pending[job[p].review], job[p])]
      BY <1>12, <2>4 DEF DeferDecision, Goto
    <3> QED BY <2>2, <2>3, <3>1, <3>2, <3>3, StoredStay, JobsMoveTwo DEF TypeOK
  <2>5. CASE pending[job[p].review] = None
    <3>1. PICK h \in Holds :
            /\ pc' = [pc EXCEPT ![p] = "idle", ![h] = "armed"]
            /\ job' = [job EXCEPT ![p] = Blank, ![h] = [job[p] EXCEPT !.holding = FALSE]]
      BY <1>12, <2>5 DEF DeferDecision
    <3>2. [job[p] EXCEPT !.holding = FALSE].prior = None
      BY <2>1 DEF Job
    <3>3. JobShown("armed", [job[p] EXCEPT !.holding = FALSE])
      BY <3>2, QuietJob
    <3> QED BY <2>1, <2>2, <2>3, <3>1, <3>3, StoredStay, JobsMoveTwo DEF TypeOK, Procs
  <2> QED BY <2>4, <2>5
<1>13. ASSUME NEW p \in Procs, NEW i \in RuleIds, MatchNow(p, i) PROVE Stored' /\ Jobs'
  <2>1. job[p] \in Job /\ job[p].prior = None
    BY <1>13 DEF MatchNow, TypeOK, Locals, LocalOK
  <2>2. [job[p] EXCEPT !.rule = i, !.holding = FALSE].prior = None
    BY <2>1 DEF Job
  <2> QED BY <1>13, <2>2, QuietJob, StoredStay, JobsGo DEF MatchNow, store, world
<1>14. ASSUME NEW p \in Procs, NEW w \in SUBSET Backends, NotNotified(p, w) PROVE Stored' /\ Jobs'
  <2>1. job[p] \in Job /\ job[p].prior = None
    BY <1>14 DEF NotNotified, Loads, TypeOK, Locals, LocalOK
  <2>2. [job[p] EXCEPT !.tag = "fn"].prior = None
    BY <2>1 DEF Job
  <2> QED BY <1>14, <2>2, QuietJob, StoredStay, JobsGo, JobsDone
          DEF NotNotified, Loads, store, world
<1>15. ASSUME NEW p \in Procs, NEW w \in SUBSET Backends, Escalate(p, w) PROVE Stored' /\ Jobs'
  <2>1. JobShown("render", [job[p] EXCEPT !.prior = Loaded(p, w), !.tag = "fn-esc"])
    BY <1>15, LoadedShown DEF Escalate
  <2> QED BY <1>15, <2>1, StoredStay, JobsGo DEF Escalate, Loads, store, world
<1>16. ASSUME NEW p \in Procs, NEW w \in SUBSET Backends, RefreshUnderBetterRule(p, w)
       PROVE  Stored' /\ Jobs'
  <2>1. JobShown("rerender", [job[p] EXCEPT !.prior = Loaded(p, w), !.tag = Loaded(p, w).tag])
    BY <1>16, LoadedShown DEF RefreshUnderBetterRule
  <2> QED BY <1>16, <2>1, StoredStay, JobsGo DEF RefreshUnderBetterRule, Loads, store, world
<1>17. ASSUME NEW p \in Procs, NEW w \in SUBSET Backends, SendUpdate(p, w) PROVE Stored' /\ Jobs'
  <2>1. JobShown("rerender", [job[p] EXCEPT !.prior = Loaded(p, w), !.tag = Loaded(p, w).tag,
                                       !.rule = Loaded(p, w).ruleIndex])
    BY <1>17, LoadedShown DEF SendUpdate
  <2> QED BY <1>17, <2>1, StoredStay, JobsGo DEF SendUpdate, Loads, store, world
<1>18. ASSUME NEW p \in Procs, NEW w \in SUBSET Backends, AlreadyNotified(p, w)
       PROVE  Stored' /\ Jobs'
  BY <1>18, StoredStay, JobsDone DEF AlreadyNotified, Loads, store, world, Procs
<1>19. ASSUME NEW p \in Procs, SkipCooldown(p) PROVE Stored' /\ Jobs'
  <2>1. JobShown("render", job[p])
    BY <1>19 DEF SkipCooldown, Jobs, JobShown
  <2> QED BY <1>19, <2>1, StoredStay, JobsGoto DEF SkipCooldown, store, world
<1>20. ASSUME NEW p \in Procs, NothingDelivered(p) PROVE Stored' /\ Jobs'
  BY <1>20, StoredStay, JobsDone DEF NothingDelivered, store, world, Procs
<1>21. ASSUME NEW p \in Procs, NEW w \in SUBSET Backends, OpenCooldown(p, w) PROVE Stored' /\ Jobs'
  <2>1. JobShown("render", job[p])
    BY <1>21 DEF OpenCooldown, TryCooldown, Jobs, JobShown
  <2> QED BY <1>21, <2>1, StoredStay, JobsGoto DEF OpenCooldown, TryCooldown, world
<1>22. ASSUME NEW p \in Procs, NEW w \in SUBSET Backends, SuppressedByCooldown(p, w)
       PROVE  Stored' /\ Jobs'
  BY <1>22, StoredStay, JobsDone DEF SuppressedByCooldown, TryCooldown, store, world, Procs
<1>23. ASSUME NEW p \in Procs, NEW w \in SUBSET Backends, Render(p, w) PROVE Stored' /\ Jobs'
  <2>1. PICK to \in Audiences(p), text \in Descriptions \cup {None} :
          Become(p, [job[p] EXCEPT !.text = text, !.sent = {},
                                   !.todo = [target : to, tag : {SameTag}]])
    BY <1>23 DEF Render
  <2> DEFINE j == [job[p] EXCEPT !.text = text, !.sent = {},
                                 !.todo = [target : to, tag : {SameTag}]]
  <2>2. /\ j.review = job[p].review /\ j.prior = job[p].prior /\ j.rule = job[p].rule
        /\ j.tag = job[p].tag /\ j.sent = {} /\ j.todo = [target : to, tag : {SameTag}]
    BY DEF TypeOK, Job
  <2>3. \A t \in to : /\ OwnerOf[t] \in Rules[job[p].rule].to
                      /\ Escalating(p) => Wakes(job[p].rule, t)
    BY DEF Audiences
  <2>4. job[p].tag = "fn-esc" => Escalating(p)
    BY <1>23 DEF Render, Locals, LocalOK, Escalating
  <2>5. JobShown("render", job[p])
    BY <1>23 DEF Render, Jobs
  <2> HIDE DEF j
  <2>6. Sending(j)
    BY <2>2, <2>3, <2>4 DEF Sending
  <2>7. JobShown("send", j)
    BY <2>2, <2>5, <2>6 DEF JobShown
  <2> QED BY <1>23, <2>1, <2>7, StoredStay, JobsGo DEF Render, store, world, j
<1>24. ASSUME NEW p \in Procs, NEW w \in SUBSET Backends, Rerender(p, w) PROVE Stored' /\ Jobs'
  <2>1. PICK text :
          Become(p, [job[p] EXCEPT !.text = text, !.sent = {}, !.todo = Originals(p)])
    BY <1>24 DEF Rerender
  <2> DEFINE j == [job[p] EXCEPT !.text = text, !.sent = {}, !.todo = Originals(p)]
  <2>2. /\ j.review = job[p].review /\ j.prior = job[p].prior /\ j.tag = job[p].tag
        /\ j.todo = job[p].prior.deliveries
    BY DEF TypeOK, Job, Originals
  <2>3. job[p].prior # None /\ job[p].tag = job[p].prior.tag
    BY <1>24 DEF Rerender, Locals, LocalOK
  <2>4. JobShown("rerender", job[p])
    BY <1>24 DEF Rerender, Jobs
  <2> HIDE DEF j
  <2>5. JobShown("edit", j)
    BY <2>2, <2>3, <2>4 DEF JobShown
  <2> QED BY <1>24, <2>1, <2>5, StoredStay, JobsGo DEF Rerender, store, world, j
<1>25. ASSUME NEW p \in Procs, NEW d \in Delivery, NEW o \in {"ok", "lost", "failed"}, Push(p,
              d, o)
       PROVE  Stored' /\ Jobs'
  <2> DEFINE j == [job[p] EXCEPT !.todo = @ \ {d}, !.sent = Confirmed(p, d, o)]
  <2>1. PhoneGrows
    BY <1>25, LandsGrows DEF Push, PhoneGrows
  <2>2. Stored'
    BY <1>25, <2>1, StoredGrows DEF Push, store
  <2>3. job[p] \in Job /\ d \in Delivery /\ pc[p] = "send" /\ UNCHANGED pc
    BY <1>25 DEF Push, TypeOK
  <2>4. JobShownNext("send", job[p])
    BY <2>1, <2>3, JobGrows DEF Jobs
  <2>5. /\ j.review = job[p].review /\ j.prior = job[p].prior /\ j.rule = job[p].rule
        /\ j.tag = job[p].tag /\ j.todo = job[p].todo \ {d} /\ j.sent = Confirmed(p, d, o)
    BY <2>3 DEF Job
  <2> HIDE DEF j
  <2>6. JobShownNext("send", j)
    <3>1. CASE o = "ok"
      <4>1. Landed(job[p].review, d, job[p].tag)
        BY <1>25, <3>1, LandsGrows DEF Push
      <4> QED BY <1>25, <2>4, <2>5, <3>1, <4>1 DEF Push, JobShownNext, Confirmed
    <3>2. CASE o # "ok"
      BY <2>4, <2>5, <3>2 DEF JobShownNext, Confirmed
    <3> QED BY <3>1, <3>2
  <2>7. Jobs'
    <3> SUFFICES ASSUME NEW q \in Procs PROVE JobShown(pc[q], job[q])'
      BY DEF Jobs
    <3>1. CASE q = p
      <4>1. job'[p] = j /\ pc'[p] = "send"
        BY <1>25, <2>3 DEF Push, Become, TypeOK, j
      <4> QED BY <2>6, <3>1, <4>1 DEF JobShown, JobShownNext, Sending, Shows, IsShown, Landed, Wakes
    <3>2. CASE q # p
      <4>1. job'[q] = job[q] /\ pc'[q] = pc[q]
        BY <1>25, <3>2 DEF Push, Become, TypeOK
      <4>2. JobShownNext(pc[q], job[q])
        BY <2>1, JobGrows DEF Jobs
      <4> QED BY <4>1, <4>2 DEF JobShown, JobShownNext, Sending, Shows, IsShown, Landed, Wakes
    <3> QED BY <3>1, <3>2
  <2> QED BY <2>2, <2>7
<1>26. ASSUME NEW p \in Procs, NEW d \in Delivery, NEW o \in {"ok", "lost", "failed"}, Edit(p,
              d, o)
       PROVE  Stored' /\ Jobs'
  <2> DEFINE j == [job[p] EXCEPT !.todo = @ \ {d}]
  <2>1. PhoneGrows
    BY <1>26, LandsGrows DEF Edit, PhoneGrows
  <2>2. Stored'
    BY <1>26, <2>1, StoredGrows DEF Edit, store
  <2>3. job[p] \in Job /\ d \in Delivery /\ pc[p] = "edit" /\ UNCHANGED pc
    BY <1>26 DEF Edit, TypeOK
  <2>4. JobShownNext("edit", job[p])
    BY <2>1, <2>3, JobGrows DEF Jobs
  <2>5. /\ j.review = job[p].review /\ j.prior = job[p].prior
        /\ j.tag = job[p].tag /\ j.todo = job[p].todo \ {d}
    BY <2>3 DEF Job
  <2> HIDE DEF j
  <2>6. JobShownNext("edit", j)
    BY <2>4, <2>5 DEF JobShownNext
  <2>7. Jobs'
    <3> SUFFICES ASSUME NEW q \in Procs PROVE JobShown(pc[q], job[q])'
      BY DEF Jobs
    <3>1. CASE q = p
      <4>1. job'[p] = j /\ pc'[p] = "edit"
        BY <1>26, <2>3 DEF Edit, Become, TypeOK, j
      <4> QED BY <2>6, <3>1, <4>1 DEF JobShown, JobShownNext, Sending, Shows, IsShown, Landed, Wakes
    <3>2. CASE q # p
      <4>1. job'[q] = job[q] /\ pc'[q] = pc[q]
        BY <1>26, <3>2 DEF Edit, Become, TypeOK
      <4>2. JobShownNext(pc[q], job[q])
        BY <2>1, JobGrows DEF Jobs
      <4> QED BY <4>1, <4>2 DEF JobShown, JobShownNext, Sending, Shows, IsShown, Landed, Wakes
    <3> QED BY <3>1, <3>2
  <2> QED BY <2>2, <2>7
<1>27. ASSUME NEW p \in Procs, NEW w \in SUBSET Backends, ReleaseCooldown(p, w)
       PROVE  Stored' /\ Jobs'
  BY <1>27, StoredStay, JobsDone DEF ReleaseCooldown, store, world, Procs
<1>28. ASSUME NEW p \in Procs, NEW w \in SUBSET Backends, SaveReview(p, w) PROVE Stored' /\ Jobs'
  <2>1. job[p].review \in Reviews /\ UNCHANGED phone
    BY <1>28 DEF SaveReview, TypeOK, Job, world
  <2>2. reviews' = Written(reviews, w, job[p].review, Result(p)) /\ Shows(job[p].review, Result(p))
    BY <1>28, ResultShown DEF SaveReview
  <2>3. Stored'
    BY <2>1, <2>2, StoredWritten
  <2>4. JobShown("index", [Blank EXCEPT !.review = job[p].review])
    <3>1. [Blank EXCEPT !.review = job[p].review].prior = None
      BY BlankType DEF Job
    <3> QED BY <3>1, QuietJob
  <2>5. Jobs'
    BY <1>28, <2>1, <2>4, JobsGo, JobsDone DEF SaveReview
  <2> QED BY <2>3, <2>5
<1>29. ASSUME NEW p \in Procs, NEW w \in SUBSET Backends, IndexEvent(p, w) PROVE Stored' /\ Jobs'
  BY <1>29, StoredStay, JobsDone DEF IndexEvent, store, world, Procs
<1>30. ASSUME NEW b \in Backends, ExpireSeen(b) PROVE Stored' /\ Jobs'
  BY <1>30, StoredStay, JobsStay DEF ExpireSeen, Expiry, world
<1>31. ASSUME NEW b \in Backends, ExpireCooldown(b) PROVE Stored' /\ Jobs'
  BY <1>31, StoredStay, JobsStay DEF ExpireCooldown, Expiry, world
<1>32. ASSUME NEW b \in Backends, ExpireReview(b) PROVE Stored' /\ Jobs'
  <2>1. PICK r \in Reviews : reviews' = [reviews EXCEPT ![b][r] = None]
    BY <1>32 DEF ExpireReview
  <2>2. UNCHANGED <<pc, job, phone>>
    BY <1>32 DEF ExpireReview, Expiry, world
  <2>3. \A c \in Backends, q \in Reviews :
          reviews'[c][q] = None \/ reviews'[c][q] = reviews[c][q]
    BY <2>1 DEF TypeOK
  <2> QED BY <2>2, <2>3, StoredFewer, JobsStay
<1>33. ASSUME NEW b \in Backends, ExpireEvent(b) PROVE Stored' /\ Jobs'
  BY <1>33, StoredStay, JobsStay DEF ExpireEvent, Expiry, world
<1>34. ASSUME NEW b \in Backends, ExpireDescription(b) PROVE Stored' /\ Jobs'
  BY <1>34, StoredStay, JobsStay DEF ExpireDescription, Expiry, world
<1>35. ASSUME Shutdown PROVE Stored' /\ Jobs'
  BY <1>35, StoredStay, JobsStay DEF Shutdown, store, world
<1>36. ASSUME Restart PROVE Stored' /\ Jobs'
  <2>1. \A c \in Backends, q \in Reviews :
          reviews'[c][q] = None \/ reviews'[c][q] = reviews[c][q]
    BY <1>36 DEF Restart, Survives, Backends
  <2>2. UNCHANGED phone
    BY <1>36 DEF Restart, world
  <2>3. JobShown("idle", Blank)
    BY BlankType, QuietJob
  <2>4. \A p \in Procs : pc'[p] = "idle" /\ job'[p] = Blank
    BY <1>36 DEF Restart
  <2>5. Jobs'
    BY <2>2, <2>3, <2>4 DEF Jobs, JobShown, Sending, Shows, IsShown, Wakes
  <2> QED BY <2>1, <2>2, <2>5, StoredFewer
<1>37. ASSUME Dispatch PROVE Stored' /\ Jobs'
  BY <1>37, <1>1, <1>2, <1>3, <1>4, <1>5, <1>6, ConfigAssumption DEF Dispatch
<1>38. ASSUME NEW p \in Procs, Decide(p) PROVE Stored' /\ Jobs'
  BY <1>38, <1>11, <1>12, <1>13, <1>14, <1>15, <1>16, <1>17, <1>18 DEF Decide
<1>39. ASSUME NEW p \in Procs, Send(p) PROVE Stored' /\ Jobs'
  BY <1>39, <1>19, <1>20, <1>21, <1>22, <1>23, <1>24, <1>27, <1>28, <1>29, <1>25, <1>26 DEF Send
<1>40. ASSUME NEW p \in Procs, Run(p) PROVE Stored' /\ Jobs'
  BY <1>40, <1>38, <1>39, <1>9, <1>10, <1>7 DEF Run, Timer, LookUpDescription
<1>41. ASSUME Expire PROVE Stored' /\ Jobs'
  BY <1>41, <1>30, <1>31, <1>32, <1>33, <1>34 DEF Expire
<1>42. CASE UNCHANGED vars
  BY <1>42 , StoredStay, JobsStay DEF vars, store, world
<1>43. ASSUME NEW m \in Message, LoseOwnMessage(m) PROVE Stored' /\ Jobs'
  BY <1>43, StoredStay, JobsStay DEF LoseOwnMessage, world
<1>44. ASSUME NEW p \in Procs, Resend(p) PROVE Stored' /\ Jobs'
  <2>1. Unanswered /\ (ResendClaim(p) \/ ResendRelease(p) \/ ResendSave(p))
    BY <1>44 DEF Resend, ResendClaim, ResendRelease, ResendSave
  <2>2. UNCHANGED <<pc, job, phone>>
    BY <2>1 DEF Unanswered, world
  <2>3. CASE ResendSave(p)
    <3>1. reviews' = Written(reviews, {"primary"}, job[p].review, Result(p))
      BY <2>3 DEF ResendSave
    <3>2. job[p].review \in Reviews /\ Shows(job[p].review, Result(p))
      BY <2>3, ResultShown DEF ResendSave, TypeOK, Job
    <3> QED BY <2>2, <3>1, <3>2, StoredWritten, JobsStay
  <2>4. CASE ResendClaim(p) \/ ResendRelease(p)
    BY <2>2, <2>4, StoredStay, JobsStay DEF ResendClaim, ResendRelease
  <2> QED BY <2>1, <2>3, <2>4
<1> QED
  BY <1>37, <1>40, <1>41, <1>42, <1>43, <1>44, <1>8, <1>35, <1>36 DEF Next

LEMMA RecordInvariant == Spec => [](TypeOK /\ Stored /\ Jobs)
<1>1. Init => Stored /\ Jobs
  BY RecordInit
<1>2. TypeOK /\ Locals /\ Stored /\ Jobs /\ [Next]_vars => Stored' /\ Jobs'
  BY RecordNext
<1> QED BY <1>1, <1>2, TypesAndLocals, PTL DEF Spec

\* What the store or a goroutine's copy lists is on the targets: whichever
\* backend answers, stale or not, and whatever failed on the way, an update
\* finds a notification to edit.
THEOREM RecordShown == Spec => []RecordIsShown
  BY RecordInvariant, Regrouped, PTL

\* A send reaches only who its rule lists, an escalation only who it wakes, an
\* edit only who got the original.
THEOREM AudienceKept == Spec => []SendsKeepToTheirAudience
  BY RecordInvariant, Regrouped, PTL

-----------------------------------------------------------------------------
(***************************************************************************)
(* The refinement.                                                         *)
(***************************************************************************)
LEMMA PushNotifies ==
  ASSUME TypeOK, Jobs, NEW p \in Procs, NEW d \in Delivery, NEW o, o # "failed",
         Push(p, d, o)
  PROVE  A!Next
<1> DEFINE r == job[p].review  g == TagOf(d, job[p].tag)  n == Content(p, d.target)
<1>1. /\ r \in Reviews /\ d.target \in Targets /\ g \in Tags /\ n \in Shown
  BY ContentType, TagOfType DEF TypeOK, Job, Delivery
<1>2. Sending(job[p]) /\ d \in job[p].todo
  BY DEF Push, Jobs, JobShown
<1>3. n.rule = job[p].rule /\ n.critical = Wakes(job[p].rule, d.target)
  BY DEF Content
<1>4. g = job[p].tag
  BY <1>2 DEF Sending, TagOf
<1>5. phone' = [phone EXCEPT ![r][d.target][g] = n]
      /\ rings' = [rings EXCEPT ![r][d.target] = @ + 1]
  BY DEF Push, Lands
<1> HIDE DEF r, g, n
<1>6. A!Notify(r, d.target, g, n)
  BY <1>2, <1>3, <1>4, <1>5 DEF A!Notify, A!Styled, Sending, Wakes
<1> QED BY <1>1, <1>6 DEF A!Next

LEMMA EditAmends ==
  ASSUME TypeOK, Jobs, NEW p \in Procs, NEW d \in Delivery, NEW o, o # "failed",
         Edit(p, d, o)
  PROVE  A!Next
<1> DEFINE r == job[p].review  g == TagOf(d, job[p].tag)  n == Content(p, d.target)
<1>1. /\ r \in Reviews /\ d.target \in Targets /\ g \in Tags /\ n \in Shown
  BY ContentType, TagOfType DEF TypeOK, Job, Delivery
<1>2. IsShown(r, d, job[p].tag)
  BY DEF Edit, Jobs, JobShown, Shows
<1>3. n.critical = (Rules[n.rule].critical /\ OwnerOf[d.target] \in AllowCritical)
  BY DEF Content, Wakes
<1>4. phone' = [phone EXCEPT ![r][d.target][g] = n] /\ UNCHANGED rings
  BY DEF Edit, Lands
<1>5. phone[r][d.target][g] # None
  BY <1>2 DEF IsShown
<1> HIDE DEF r, g, n
<1>6. A!Amend(r, d.target, g, n)
  BY <1>3, <1>4, <1>5 DEF A!Amend, A!Styled
<1> QED BY <1>1, <1>6 DEF A!Next

LEMMA StepRefines ==
  ASSUME TypeOK, Jobs, [Next]_vars
  PROVE  [A!Next]_<<phone, rings>>
<1>1. ASSUME NEW p \in Procs, NEW d \in Delivery, NEW o, Push(p, d, o) \/ Edit(p, d, o)
      PROVE  A!Next \/ UNCHANGED <<phone, rings>>
  BY <1>1, PushNotifies, EditAmends DEF Push, Edit
<1>2. ASSUME Dispatch PROVE UNCHANGED <<phone, rings>>
  <2>1. ASSUME NEW m, NEW w, NEW first, Receive(m, w, first)
        PROVE  UNCHANGED <<phone, rings>>
    BY <2>1 DEF Receive, world
  <2>2. ASSUME NEW m, NEW w, IgnoreReview(m, w) PROVE UNCHANGED <<phone, rings>>
    BY <2>1, <2>2 DEF IgnoreReview
  <2>3. ASSUME NEW m, NEW w, HandleGenAI(m, w) PROVE UNCHANGED <<phone, rings>>
    BY <2>1, <2>3 DEF HandleGenAI
  <2>4. ASSUME NEW m, NEW w, HandlePhase(m, w) PROVE UNCHANGED <<phone, rings>>
    BY <2>1, <2>4 DEF HandlePhase
  <2>5. ASSUME NEW m, NEW w, HandlePhaseWhileHeld(m, w) PROVE UNCHANGED <<phone, rings>>
    BY <2>1, <2>5 DEF HandlePhaseWhileHeld
  <2>6. ASSUME NEW m, NEW w, HandleEndWhileHeld(m, w) PROVE UNCHANGED <<phone, rings>>
    BY <2>1, <2>6 DEF HandleEndWhileHeld
  <2>7. ASSUME NEW r, NEW d, NEW v, NEW w, HandleDescription(r, d, v, w)
        PROVE  UNCHANGED <<phone, rings>>
    BY <2>7 DEF HandleDescription, world
  <2> QED BY <1>2, <2>2, <2>3, <2>4, <2>5, <2>6, <2>7 DEF Dispatch
<1>3. ASSUME NEW p \in Procs, Decide(p) PROVE UNCHANGED <<phone, rings>>
  BY <1>3 DEF Decide, Unmatched, DeferDecision, MatchNow, NotNotified, Escalate,
              RefreshUnderBetterRule, SendUpdate, AlreadyNotified, Loads, store, world
<1>4. ASSUME NEW p \in Procs, Send(p) PROVE A!Next \/ UNCHANGED <<phone, rings>>
  BY <1>1, <1>4 DEF Send, SkipCooldown, NothingDelivered, OpenCooldown,
              SuppressedByCooldown, TryCooldown, Claimed, Render, Rerender, ReleaseCooldown,
              SaveReview, HasResult, Result, IndexEvent, store, world
<1>5. ASSUME NEW p \in Procs, Run(p) PROVE A!Next \/ UNCHANGED <<phone, rings>>
  BY <1>3, <1>4, <1>5 DEF Run, Timer, TimerDecides, TimerIsLate, LookUpDescription,
              LateDescription, store, world
<1>6. ASSUME NEW h \in Holds, TimerFires(h) PROVE UNCHANGED <<phone, rings>>
  BY <1>6 DEF TimerFires, world
<1>7. CASE Expire
  BY <1>7 DEF Expire, ExpireSeen, ExpireCooldown, ExpireReview, ExpireEvent,
              ExpireDescription, Expiry, world
<1>8. CASE Shutdown \/ Restart \/ UNCHANGED vars
  BY <1>8 DEF Shutdown, Restart, vars, world
<1>9. CASE \/ \E m \in Message : LoseOwnMessage(m)
           \/ \E p \in Procs : Resend(p)
  BY <1>9 DEF LoseOwnMessage, Resend, ResendClaim, ResendRelease, ResendSave, Unanswered, world
<1> QED BY <1>2, <1>5, <1>6, <1>7, <1>8, <1>9 DEF Next

\* The notifier implements Audience: with every interleaving of the dispatch
\* goroutine and the timers, every failure of the store and of the sends, every
\* expiry, SIGTERM and restart, a push rings only people its rule lists (a second
\* one only people it can wake) and an update only edits what is already there.
THEOREM NotifierImplementsAudience == Spec => AudienceSpec
<1>1. Init => A!Init
  BY DEF Init, A!Init
<1>2. TypeOK /\ Stored /\ Jobs /\ [Next]_vars => [A!Next]_<<phone, rings>>
  BY StepRefines
<1> QED BY <1>1, <1>2, RecordInvariant, PTL DEF Spec, AudienceSpec, A!Spec

-----------------------------------------------------------------------------
(***************************************************************************)
(* Behaviours in which no operation on the primary fails (Faultless), and  *)
(* those in which the service is not stopped either (Undisturbed).  One    *)
(* backend then answers every operation.                                   *)
(***************************************************************************)
Faultless == budget.faults = 0

LEMMA FaultlessSentOnce == Faultless => SentOnce
  BY DEF Faultless, SentOnce

Serving == IF HasPrimary /\ ~canceled THEN "primary" ELSE "memory"

Undisturbed == canceled = FALSE /\ Faultless /\ budget.restarts = 0
Main == IF HasPrimary THEN "primary" ELSE "memory"

LEMMA ServingIsBackend == Serving \in Backends /\ Main \in Backends
  BY DEF Serving, Main, Backends

LEMMA ServingAnswers ==
  ASSUME Faultless, NEW w \in SUBSET Backends, Reached(w)
  PROVE  w = {Serving} /\ Answer(w) = Serving
  BY HasPrimaryAssumption DEF Faultless, Reached, Reach, Answer, Serving, Backends

\* What is written there is written nowhere else.
LEMMA ServingWritten ==
  ASSUME TypeOK, Faultless, NEW w \in SUBSET Backends, Reached(w), NEW r \in Reviews, NEW st,
         reviews' = Written(reviews, w, r, st)
  PROVE  \A b \in Backends, q \in Reviews :
           reviews'[b][q] = IF b = Serving /\ q = r THEN st ELSE reviews[b][q]
<1>1. w = {Serving}
  BY ServingAnswers
<1>2. \A b \in Backends :
        reviews'[b] = IF b = Serving THEN [reviews[b] EXCEPT ![r] = st] ELSE reviews[b]
  BY <1>1 DEF Written, Applied
<1> QED BY <1>2 DEF TypeOK

LEMMA MainAnswers ==
  ASSUME Undisturbed, NEW w \in SUBSET Backends, Reached(w)
  PROVE  w = {Main} /\ Answer(w) = Main
  BY ServingAnswers DEF Undisturbed, Serving, Main

LEMMA MainWritten ==
  ASSUME Undisturbed, NEW w \in SUBSET Backends, Reached(w), NEW table, NEW key, NEW val
  PROVE  Written(table, w, key, val)[Main] = [table[Main] EXCEPT ![key] = val]
<1>1. w = {Main} /\ Main \in Backends
  BY ServingIsBackend, MainAnswers
<1> QED BY <1>1 DEF Written, Applied

LEMMA PaidFaultless ==
  ASSUME TypeOK, Faultless, NEW w, Reached(w)
  PROVE  Paid(w) = budget
<1>1. budget = [budget EXCEPT !.faults = budget.faults]
  BY DEF TypeOK, Budget
<1>2. Spend(canceled, budget.faults, w) = budget.faults
  BY HasPrimaryAssumption DEF Faultless, Reached, Reach, Spend
<1> QED BY <1>1, <1>2 DEF Paid

LEMMA PaidBothFaultless ==
  ASSUME TypeOK, Faultless, NEW v, NEW w, ReachedBoth(v, w)
  PROVE  Reached(v) /\ Reached(w) /\ PaidBoth(v, w) = budget
<1>1. Reached(v) /\ Paid(v) = budget
  BY PaidFaultless DEF ReachedBoth
<1>2. Reached(w) /\ PaidBoth(v, w) = Paid(w)
  BY <1>1 DEF ReachedBoth, Reached, PaidBoth, Paid
<1> QED BY <1>1, <1>2, PaidFaultless

\* Once so, always: no bound grows.
Frugal ==
  /\ budget'.faults = 0 /\ budget'.expiries <= budget.expiries /\ budget'.sends <= budget.sends
  /\ budget.restarts = 0 => budget'.restarts = 0 /\ canceled' = canceled

LEMMA FrugalStay ==
  ASSUME TypeOK, Faultless, UNCHANGED canceled, budget' = budget
  PROVE  Frugal
  BY DEF Frugal, Faultless, TypeOK, Budget

LEMMA FrugalReceive ==
  ASSUME TypeOK, Faultless, NEW m, NEW w, NEW first, Receive(m, w, first)
  PROVE  Frugal
<1>1. Paid(w) = budget
  BY PaidFaultless DEF Receive
<1> QED BY <1>1 DEF Receive, Frugal, Faultless, TypeOK, Budget

LEMMA FrugalNext == TypeOK /\ Faultless /\ [Next]_vars => Frugal
<1> SUFFICES ASSUME TypeOK, Faultless, [Next]_vars PROVE Frugal
  OBVIOUS
<1>1. ASSUME NEW m \in Message, NEW w \in SUBSET Backends, IgnoreReview(m, w) PROVE Frugal
  BY <1>1, FrugalReceive DEF IgnoreReview
<1>2. ASSUME NEW m \in Message, NEW w \in SUBSET Backends, HandleGenAI(m, w) PROVE Frugal
  BY <1>2, FrugalReceive DEF HandleGenAI
<1>3. ASSUME NEW m \in Message, NEW w \in SUBSET Backends, HandlePhase(m, w) PROVE Frugal
  BY <1>3, FrugalReceive DEF HandlePhase
<1>4. ASSUME NEW m \in Message, NEW w \in SUBSET Backends, HandlePhaseWhileHeld(m, w) PROVE Frugal
  BY <1>4, FrugalReceive DEF HandlePhaseWhileHeld
<1>5. ASSUME NEW m \in Message, NEW w \in SUBSET Backends, HandleEndWhileHeld(m, w) PROVE Frugal
  BY <1>5, FrugalReceive DEF HandleEndWhileHeld
<1>6. ASSUME NEW r \in Reviews, NEW d \in Descriptions, NEW v \in SUBSET Backends,
             NEW w \in SUBSET Backends, HandleDescription(r, d, v, w)
      PROVE  Frugal
  <2>1. PaidBoth(v, w) = budget
    BY <1>6, PaidBothFaultless DEF HandleDescription
  <2> QED BY <1>6, <2>1 DEF HandleDescription, Frugal, Faultless, TypeOK, Budget
<1>7. ASSUME NEW v \in SUBSET Backends, NEW w \in SUBSET Backends, LateDescription(v, w)
      PROVE  Frugal
  BY <1>7, FrugalStay, PaidBothFaultless DEF LateDescription
<1>8. ASSUME NEW h \in Holds, TimerFires(h) PROVE Frugal
  BY <1>8, FrugalStay DEF TimerFires
<1>9. ASSUME NEW h \in Holds, TimerDecides(h) PROVE Frugal
  BY <1>9, FrugalStay DEF TimerDecides
<1>10. ASSUME NEW h \in Holds, TimerIsLate(h) PROVE Frugal
  BY <1>10, FrugalStay DEF TimerIsLate
<1>11. ASSUME NEW p \in Procs, Unmatched(p) PROVE Frugal
  BY <1>11, FrugalStay DEF Unmatched
<1>12. ASSUME NEW p \in Procs, NEW i \in RuleIds, DeferDecision(p, i) PROVE Frugal
  BY <1>12, FrugalStay DEF DeferDecision
<1>13. ASSUME NEW p \in Procs, NEW i \in RuleIds, MatchNow(p, i) PROVE Frugal
  BY <1>13, FrugalStay DEF MatchNow
<1>14. ASSUME NEW p \in Procs, NEW w \in SUBSET Backends, NotNotified(p, w) PROVE Frugal
  BY <1>14, FrugalStay, PaidFaultless DEF NotNotified, Loads
<1>15. ASSUME NEW p \in Procs, NEW w \in SUBSET Backends, Escalate(p, w) PROVE Frugal
  BY <1>15, FrugalStay, PaidFaultless DEF Escalate, Loads
<1>16. ASSUME NEW p \in Procs, NEW w \in SUBSET Backends, RefreshUnderBetterRule(p, w)
      PROVE  Frugal
  BY <1>16, FrugalStay, PaidFaultless DEF RefreshUnderBetterRule, Loads
<1>17. ASSUME NEW p \in Procs, NEW w \in SUBSET Backends, SendUpdate(p, w) PROVE Frugal
  BY <1>17, FrugalStay, PaidFaultless DEF SendUpdate, Loads
<1>18. ASSUME NEW p \in Procs, NEW w \in SUBSET Backends, AlreadyNotified(p, w) PROVE Frugal
  BY <1>18, FrugalStay, PaidFaultless DEF AlreadyNotified, Loads
<1>19. ASSUME NEW p \in Procs, SkipCooldown(p) PROVE Frugal
  BY <1>19, FrugalStay DEF SkipCooldown
<1>20. ASSUME NEW p \in Procs, NothingDelivered(p) PROVE Frugal
  BY <1>20, FrugalStay DEF NothingDelivered
<1>21. ASSUME NEW p \in Procs, NEW w \in SUBSET Backends, OpenCooldown(p, w) PROVE Frugal
  BY <1>21, FrugalStay, PaidFaultless DEF OpenCooldown, TryCooldown
<1>22. ASSUME NEW p \in Procs, NEW w \in SUBSET Backends, SuppressedByCooldown(p, w) PROVE Frugal
  BY <1>22, FrugalStay, PaidFaultless DEF SuppressedByCooldown, TryCooldown
<1>23. ASSUME NEW p \in Procs, NEW w \in SUBSET Backends, Render(p, w) PROVE Frugal
  BY <1>23, FrugalStay, PaidFaultless DEF Render, ReadsText
<1>24. ASSUME NEW p \in Procs, NEW w \in SUBSET Backends, Rerender(p, w) PROVE Frugal
  BY <1>24, FrugalStay, PaidFaultless DEF Rerender, ReadsText
<1>25. ASSUME NEW p \in Procs, NEW d \in Delivery, NEW o \in {"ok", "lost", "failed"}, Push(p, d, o)
      PROVE  Frugal
  BY <1>25 DEF Push, Sent, Frugal, Faultless, TypeOK, Budget
<1>26. ASSUME NEW p \in Procs, NEW d \in Delivery, NEW o \in {"ok", "lost", "failed"}, Edit(p, d, o)
      PROVE  Frugal
  BY <1>26 DEF Edit, Sent, Frugal, Faultless, TypeOK, Budget
<1>27. ASSUME NEW p \in Procs, NEW w \in SUBSET Backends, ReleaseCooldown(p, w) PROVE Frugal
  BY <1>27, FrugalStay, PaidFaultless DEF ReleaseCooldown
<1>28. ASSUME NEW p \in Procs, NEW w \in SUBSET Backends, SaveReview(p, w) PROVE Frugal
  BY <1>28, FrugalStay, PaidFaultless DEF SaveReview
<1>29. ASSUME NEW p \in Procs, NEW w \in SUBSET Backends, IndexEvent(p, w) PROVE Frugal
  BY <1>29, FrugalStay, PaidFaultless DEF IndexEvent
<1>30. ASSUME NEW b \in Backends, ExpireSeen(b) PROVE Frugal
  BY <1>30 DEF ExpireSeen, Expiry, Frugal, Faultless, TypeOK, Budget
<1>31. ASSUME NEW b \in Backends, ExpireCooldown(b) PROVE Frugal
  BY <1>31 DEF ExpireCooldown, Expiry, Frugal, Faultless, TypeOK, Budget
<1>32. ASSUME NEW b \in Backends, ExpireReview(b) PROVE Frugal
  BY <1>32 DEF ExpireReview, Expiry, Frugal, Faultless, TypeOK, Budget
<1>33. ASSUME NEW b \in Backends, ExpireEvent(b) PROVE Frugal
  BY <1>33 DEF ExpireEvent, Expiry, Frugal, Faultless, TypeOK, Budget
<1>34. ASSUME NEW b \in Backends, ExpireDescription(b) PROVE Frugal
  BY <1>34 DEF ExpireDescription, Expiry, Frugal, Faultless, TypeOK, Budget
<1>35. ASSUME Shutdown PROVE Frugal
  <2>1. budget' = budget /\ budget.restarts # 0
    BY <1>35 DEF Shutdown, TypeOK, Budget
  <2> QED BY <2>1 DEF Frugal, Faultless, TypeOK, Budget
<1>36. ASSUME Restart PROVE Frugal
  BY <1>36 DEF Restart, Frugal, Faultless, TypeOK, Budget
<1>37. ASSUME Dispatch PROVE Frugal
  BY <1>37, <1>1, <1>2, <1>3, <1>4, <1>5, <1>6, ConfigAssumption DEF Dispatch
<1>38. ASSUME NEW p \in Procs, Decide(p) PROVE Frugal
  BY <1>38, <1>11, <1>12, <1>13, <1>14, <1>15, <1>16, <1>17, <1>18 DEF Decide
<1>39. ASSUME NEW p \in Procs, Send(p) PROVE Frugal
  BY <1>39, <1>19, <1>20, <1>21, <1>22, <1>23, <1>24, <1>27, <1>28, <1>29, <1>25, <1>26 DEF Send
<1>40. ASSUME NEW p \in Procs, Run(p) PROVE Frugal
  BY <1>40, <1>38, <1>39, <1>9, <1>10, <1>7 DEF Run, Timer, LookUpDescription
<1>41. ASSUME Expire PROVE Frugal
  BY <1>41, <1>30, <1>31, <1>32, <1>33, <1>34 DEF Expire
<1>42. CASE UNCHANGED vars
  BY <1>42, FrugalStay DEF vars
<1>43. ASSUME NEW m \in Message, LoseOwnMessage(m) PROVE Frugal
  BY <1>43, FaultlessSentOnce, NothingResent
<1>44. ASSUME NEW p \in Procs, Resend(p) PROVE Frugal
  BY <1>44, FaultlessSentOnce, NothingResent
<1> QED
  BY <1>37, <1>40, <1>41, <1>42, <1>43, <1>44, <1>8, <1>35, <1>36 DEF Next

LEMMA NewestInvariant ==
  ASSUME ~Resends \/ MaxFaults = 0
  PROVE  Spec => []Newest
<1>1. Spec => [](TypeOK /\ HoldsAreTracked)
  BY TypeCorrect, HoldsTracked, PTL
<1>2. Init => Newest
  BY NewestInit
<1>3. SentOnce /\ TypeOK /\ HoldsAreTracked /\ Newest /\ [Next]_vars => Newest'
  BY NewestNext
<1>4. CASE ~Resends
  <2>1. SentOnce
    BY <1>4 DEF SentOnce
  <2> QED BY <1>1, <1>2, <1>3, <2>1, PTL DEF Spec
<1>5. CASE MaxFaults = 0
  <2>1. Init => Faultless
    BY <1>5 DEF Init, Faultless
  <2>2. TypeOK /\ Faultless /\ [Next]_vars => Faultless'
    BY FrugalNext DEF Frugal, Faultless
  <2> QED BY <1>1, <1>2, <1>3, <2>1, <2>2, FaultlessSentOnce, PTL DEF Spec
<1> QED BY <1>4, <1>5

\* However the messages of a review interleave with its timer, and whatever is
\* redelivered, a holdoff decides on the newest message Frigate has sent of it:
\* the face it waited for is seen.  Where a command may be sent twice a message
\* can be dropped as its own redelivery, and the holdoff misses it.
THEOREM HeldIsNewest ==
  ASSUME ~Resends \/ MaxFaults = 0
  PROVE  Spec => []HoldKeepsNewest
<1>1. Newest => HoldKeepsNewest
  BY DEF Newest
<1> QED BY <1>1, NewestInvariant, PTL

-----------------------------------------------------------------------------
Global == \A i \in RuleIds : Rules[i].cooldown /\ Rules[i].scope = "global"
Open == cooling[Main][<<"global">>] # None
Ringing == {r \in Reviews : Rang(r)}
Used == (MaxExpiries - budget.expiries) + (MaxSendFaults - budget.sends)

\* A goroutine at l with locals j is sending in the window it opened; it has not
\* reached anybody there yet.
InWindow(l, j) == l \in {"render", "send"} /\ j.prior = None
Unheard(l, j) == InWindow(l, j) /\ (l = "render" \/ j.sent = {})
\* It works on a state of the review, or has reached somebody.
Heard(l, j) == \/ j.prior # None
               \/ l \in {"rerender", "edit"}
               \/ l = "send" /\ j.sent # {}

StoredRang == \A r \in Reviews : reviews[Main][r] # None => Rang(r)
HeardRang == \A p \in Procs : Heard(pc[p], job[p]) => Rang(job[p].review)
OneWindow ==
  /\ \A p \in Procs : InWindow(pc[p], job[p]) => Open
  /\ \A p, q \in Procs : InWindow(pc[p], job[p]) /\ InWindow(pc[q], job[q]) => p = q
Counted ==
  /\ IsFiniteSet(Ringing)
  /\ Cardinality(Ringing) <= 1 + Used
  /\ ~Open => Cardinality(Ringing) <= Used
  /\ \A p \in Procs : Unheard(pc[p], job[p]) => Cardinality(Ringing) <= Used
Windows == StoredRang /\ HeardRang /\ OneWindow /\ Counted

LEMMA UsedType ==
  ASSUME TypeOK
  PROVE  Used \in Int /\ budget.expiries \in Nat /\ budget.sends \in Nat
  BY ModelAssumption DEF TypeOK, Budget, Used

LEMMA UsedGrows ==
  ASSUME TypeOK, TypeOK', Frugal
  PROVE  Used \in Int /\ Used' \in Int /\ Used <= Used'
  BY UsedType, ModelAssumption DEF Frugal, Used, TypeOK, Budget

\* A step that rings nobody, leaves the windows and writes no state of a review that
\* has not rung.
LEMMA WindowsStay ==
  ASSUME TypeOK, TypeOK', Windows, Frugal, UNCHANGED <<cooling, rings>>,
         \A r \in Reviews : reviews'[Main][r] # None => Rang(r),
         \A p \in Procs :
           /\ InWindow(pc'[p], job'[p]) => InWindow(pc[p], job[p])
           /\ Unheard(pc'[p], job'[p]) => Unheard(pc[p], job[p])
           /\ Heard(pc'[p], job'[p]) => Rang(job'[p].review)
  PROVE  Windows'
<1>1. /\ \A r \in Reviews : Rang(r)' <=> Rang(r)
      /\ Ringing' = Ringing /\ (Open' <=> Open)
  BY DEF Rang, Ringing, Open
<1>2. Used \in Int /\ Used' \in Int /\ Used <= Used'
  BY UsedGrows
<1>3. IsFiniteSet(Ringing) /\ Cardinality(Ringing) \in Nat
  BY FS_CardinalityType DEF Windows, Counted
<1>4. StoredRang'
  BY <1>1 DEF StoredRang
<1>5. HeardRang'
  BY DEF HeardRang, Heard, Rang
<1>6. OneWindow'
  BY <1>1 DEF Windows, OneWindow, InWindow
<1>7. Counted'
  BY <1>1, <1>2, <1>3 DEF Windows, Counted, Unheard, InWindow
<1> QED BY <1>4, <1>5, <1>6, <1>7 DEF Windows

LEMMA WindowsSame ==
  ASSUME TypeOK, TypeOK', Windows, Frugal, UNCHANGED <<pc, job, cooling, rings, reviews>>
  PROVE  Windows'
<1>1. \A r \in Reviews : reviews'[Main][r] # None => Rang(r)
  BY DEF Windows, StoredRang
<1>2. \A p \in Procs : Heard(pc'[p], job'[p]) => Rang(job'[p].review)
  BY DEF Windows, HeardRang
<1> QED BY <1>1, <1>2, WindowsStay

LEMMA WindowsGo ==
  ASSUME TypeOK, TypeOK', Windows, Frugal, UNCHANGED <<cooling, rings, reviews>>,
         NEW p \in Procs, NEW l, NEW j, Goto(p, l), Become(p, j),
         InWindow(l, j) => InWindow(pc[p], job[p]),
         Unheard(l, j) => Unheard(pc[p], job[p]),
         Heard(l, j) => Rang(j.review)
  PROVE  Windows'
<1>1. \A r \in Reviews : reviews'[Main][r] # None => Rang(r)
  BY DEF Windows, StoredRang
<1>2. /\ pc'[p] = l /\ job'[p] = j
      /\ \A q \in Procs \ {p} : pc'[q] = pc[q] /\ job'[q] = job[q]
  BY DEF Goto, Become, TypeOK
<1>3. \A q \in Procs \ {p} : Heard(pc[q], job[q]) => Rang(job[q].review)
  BY DEF Windows, HeardRang
<1>4. ASSUME NEW q \in Procs
      PROVE  /\ InWindow(pc'[q], job'[q]) => InWindow(pc[q], job[q])
             /\ Unheard(pc'[q], job'[q]) => Unheard(pc[q], job[q])
             /\ Heard(pc'[q], job'[q]) => Rang(job'[q].review)
  <2>1. CASE q = p
    BY <1>2, <2>1
  <2>2. CASE q # p
    BY <1>2, <1>3, <2>2
  <2> QED BY <2>1, <2>2
<1> QED BY <1>1, <1>4, WindowsStay

LEMMA WindowsGoto ==
  ASSUME TypeOK, TypeOK', Windows, Frugal, UNCHANGED <<cooling, rings, reviews, job>>,
         NEW p \in Procs, NEW l \in PcValues \ {"render", "send", "rerender", "edit"}, Goto(p, l)
  PROVE  Windows'
<1>1. Become(p, job[p])
  BY DEF Become, TypeOK
<1>2. Heard(l, job[p]) => Rang(job[p].review)
  BY DEF Windows, HeardRang, Heard
<1> QED BY <1>1, <1>2, WindowsGo DEF InWindow, Unheard

LEMMA WindowsDone ==
  ASSUME TypeOK, TypeOK', Windows, Frugal, UNCHANGED <<cooling, rings, reviews>>,
         NEW p \in Procs, Done(p)
  PROVE  Windows'
  BY WindowsGo, BlankType DEF Done, InWindow, Unheard, Heard


LEMMA OneKey ==
  ASSUME Global, NEW i \in RuleIds, NEW r \in Reviews
  PROVE  CooldownKey(i, r) = <<"global">> /\ CooldownKeys = {<<"global">>}
<1>1. \A k \in RuleIds, q \in Reviews : CooldownKey(k, q) = <<"global">>
  BY DEF Global, CooldownKey
<1> QED BY <1>1 DEF CooldownKeys

LEMMA StillOpen ==
  ASSUME TypeOK, Undisturbed, NEW p \in Procs, NEW w \in SUBSET Backends, TryCooldown(p, w, FALSE)
  PROVE  cooling' = cooling
<1> DEFINE k == KeyOf(p)
           v == [b \in Backends |-> [cooling[b] EXCEPT ![k] = IF @ = None THEN job[p].review ELSE @]]
<1>1. w = {Main} /\ cooling[Main][k] # None /\ cooling' = Applied(cooling, w, v)
  BY MainAnswers DEF TryCooldown, Claimed
<1>2. [cooling[Main] EXCEPT ![k] = IF @ = None THEN job[p].review ELSE @] = cooling[Main]
  BY <1>1, ServingIsBackend DEF TypeOK
<1>3. cooling = [b \in Backends |-> cooling[b]]
  BY DEF TypeOK
<1> HIDE DEF k
<1>4. \A b \in Backends : cooling'[b] = cooling[b]
  BY <1>1, <1>2 DEF Applied
<1> QED BY <1>1, <1>3, <1>4 DEF Applied

LEMMA WindowsDefer ==
  ASSUME TypeOK, TypeOK', Frugal, Windows, NEW p \in Procs, NEW i \in RuleIds, DeferDecision(p, i)
  PROVE  Windows'
<1>1. UNCHANGED <<cooling, rings, reviews>> /\ job[p] \in Job /\ p \notin Holds
  BY ModelAssumption DEF DeferDecision, MustWait, store, world, TypeOK
<1>2. \A q \in Procs : Heard(pc[q], job[q]) => Rang(job[q].review)
  BY DEF Windows, HeardRang
<1>3. CASE pending[job[p].review] # None
  <2> DEFINE h == pending[job[p].review]
  <2>1. h \in Holds /\ h # p /\ job[h] \in Job
    BY <1>1, <1>3 DEF TypeOK, Job, Procs
  <2>2. /\ pc'[p] = "idle" /\ job'[p] = Blank
        /\ pc'[h] = pc[h] /\ job'[h] = Noted(h, job[p])
        /\ \A q \in Procs \ {p, h} : pc'[q] = pc[q] /\ job'[q] = job[q]
    BY <1>3, <2>1 DEF DeferDecision, Goto, TypeOK, Procs
  <2> HIDE DEF h
  <2>3. /\ Noted(h, job[p]).prior = job[h].prior /\ Noted(h, job[p]).sent = job[h].sent
        /\ Noted(h, job[p]).review = job[h].review
    BY <2>1 DEF Noted, Job
  <2>4. ASSUME NEW q \in Procs
        PROVE  /\ InWindow(pc'[q], job'[q]) => InWindow(pc[q], job[q])
               /\ Unheard(pc'[q], job'[q]) => Unheard(pc[q], job[q])
               /\ Heard(pc'[q], job'[q]) => Rang(job'[q].review)
    <3>1. CASE q = p
      BY <2>2, <3>1, BlankType DEF InWindow, Unheard, Heard
    <3>2. CASE q = h
      BY <1>2, <2>1, <2>2, <2>3, <3>2 DEF InWindow, Unheard, Heard
    <3>3. CASE q \notin {p, h}
      BY <1>2, <2>2, <3>3
    <3> QED BY <3>1, <3>2, <3>3
  <2> QED BY <1>1, <2>4, WindowsStay DEF Windows, StoredRang
<1>4. CASE pending[job[p].review] = None
  <2>1. PICK h \in Holds : /\ pc' = [pc EXCEPT ![p] = "idle", ![h] = "armed"]
                           /\ job' = [job EXCEPT ![p] = Blank, ![h] = [job[p] EXCEPT !.holding = FALSE]]
    BY <1>4 DEF DeferDecision
  <2>2. /\ pc'[p] = "idle" /\ job'[p] = Blank
        /\ pc'[h] = "armed" /\ job'[h] = [job[p] EXCEPT !.holding = FALSE]
        /\ \A q \in Procs \ {p, h} : pc'[q] = pc[q] /\ job'[q] = job[q]
    BY <1>1, <2>1 DEF TypeOK, Procs
  <2>3. [job[p] EXCEPT !.holding = FALSE].prior = job[p].prior /\ [job[p] EXCEPT !.holding = FALSE].review = job[p].review
    BY <1>1 DEF Job
  <2>4. ASSUME NEW q \in Procs
        PROVE  /\ InWindow(pc'[q], job'[q]) => InWindow(pc[q], job[q])
               /\ Unheard(pc'[q], job'[q]) => Unheard(pc[q], job[q])
               /\ Heard(pc'[q], job'[q]) => Rang(job'[q].review)
    <3>1. CASE q = p
      BY <2>2, <3>1, BlankType DEF InWindow, Unheard, Heard
    <3>2. CASE q = h
      BY <1>2, <2>2, <2>3, <3>2 DEF InWindow, Unheard, Heard
    <3>3. CASE q \notin {p, h}
      BY <1>2, <2>2, <3>3
    <3> QED BY <3>1, <3>2, <3>3
  <2> QED BY <1>1, <2>4, WindowsStay DEF Windows, StoredRang
<1> QED BY <1>3, <1>4

\* The window is the one of the only key there is, and its table the main backend's.
LEMMA GlobalWindow ==
  ASSUME TypeOK, Global, NEW p \in Procs
  PROVE  /\ KeyOf(p) = <<"global">> /\ <<"global">> \in CooldownKeys
         /\ job[p].review \in Reviews /\ Rules[job[p].rule].cooldown
<1>1. job[p].review \in Reviews /\ job[p].rule \in RuleIds
  BY DEF TypeOK, Job
<1>2. KeyOf(p) = <<"global">> /\ CooldownKeys = {<<"global">>}
  BY <1>1, OneKey DEF KeyOf
<1> QED BY <1>1, <1>2 DEF Global

LEMMA WindowsOpen ==
  ASSUME TypeOK, TypeOK', Frugal, Undisturbed, Global, Windows,
         NEW p \in Procs, NEW w \in SUBSET Backends, OpenCooldown(p, w)
  PROVE  Windows'
<1> DEFINE k == KeyOf(p)
           v == [b \in Backends |-> [cooling[b] EXCEPT ![k] = IF @ = None THEN job[p].review ELSE @]]
<1>1. /\ k = <<"global">> /\ k \in CooldownKeys
      /\ job[p].review \in Reviews /\ Main \in Backends
  BY GlobalWindow, ServingIsBackend
<1>2. /\ w = {Main} /\ cooling[Main][k] = None /\ cooling' = Applied(cooling, w, v)
      /\ UNCHANGED <<job, rings, reviews>> /\ Goto(p, "render") /\ pc[p] = "cooldown"
  BY MainAnswers DEF OpenCooldown, TryCooldown, Claimed, world
<1>3. ~Open
  BY <1>1, <1>2 DEF Open
<1>4. Open'
  <2>1. cooling'[Main] = [cooling[Main] EXCEPT ![k] = IF @ = None THEN job[p].review ELSE @]
    BY <1>1, <1>2 DEF Applied
  <2> HIDE DEF k
  <2>2. cooling'[Main][k] = job[p].review
    BY <2>1, <1>1, <1>2 DEF TypeOK
  <2> QED BY <2>2, <1>1, ModelAssumption DEF Open, Main
<1>5. /\ pc'[p] = "render" /\ job' = job
      /\ \A q \in Procs \ {p} : pc'[q] = pc[q]
  BY <1>2 DEF Goto, TypeOK
<1>6. \A q \in Procs : InWindow(pc'[q], job'[q]) => q = p
  BY <1>3, <1>5 DEF Windows, OneWindow
<1>7. (\A r \in Reviews : Rang(r)' <=> Rang(r)) /\ Ringing' = Ringing
  BY <1>2 DEF Rang, Ringing
<1>8. StoredRang' /\ OneWindow'
  BY <1>2, <1>4, <1>6, <1>7 DEF Windows, StoredRang, OneWindow, Main
<1>9. HeardRang'
  <2> SUFFICES ASSUME NEW q \in Procs, Heard(pc'[q], job'[q])
               PROVE  \E t \in Targets : rings'[job'[q].review][t] > 0
    BY DEF HeardRang, Rang, Heard
  <2>1. Heard(pc[q], job[q])
    BY <1>5 DEF Heard
  <2> QED BY <2>1, <1>2, <1>5 DEF Windows, HeardRang, Rang
<1>10. Counted'
  <2>1. Used \in Int /\ Used' \in Int /\ Used <= Used'
    BY UsedGrows
  <2>2. IsFiniteSet(Ringing) /\ Cardinality(Ringing) \in Nat /\ Cardinality(Ringing) <= Used
    BY <1>3, FS_CardinalityType DEF Windows, Counted
  <2> QED BY <1>7, <2>1, <2>2 DEF Counted
<1> QED BY <1>8, <1>9, <1>10 DEF Windows

LEMMA WindowsRelease ==
  ASSUME TypeOK, TypeOK', Frugal, Undisturbed, Global, Windows,
         NEW p \in Procs, NEW w \in SUBSET Backends, ReleaseCooldown(p, w)
  PROVE  Windows'
<1>1. /\ KeyOf(p) = <<"global">> /\ <<"global">> \in CooldownKeys /\ Main \in Backends
  BY GlobalWindow, ServingIsBackend
<1>2. /\ Reached(w) /\ cooling' = Written(cooling, w, <<"global">>, None)
      /\ UNCHANGED <<rings, reviews>> /\ Done(p)
      /\ Unheard(pc[p], job[p])
  BY <1>1 DEF ReleaseCooldown, Cooling, Escalating, Unheard, InWindow, world
<1>3. ~Open'
  <2>1. \A key : Written(cooling, w, key, None)[Main] = [cooling[Main] EXCEPT ![key] = None]
    <3>1. Reached(w)
      BY <1>2
    <3> QED BY <3>1, MainWritten
  <2>2. cooling'[Main] = [cooling[Main] EXCEPT ![<<"global">>] = None]
    BY <1>2, <2>1
  <2> QED BY <2>2, <1>1 DEF TypeOK, Open, Main
<1>4. /\ pc'[p] = "idle" /\ job'[p] = Blank
      /\ \A q \in Procs \ {p} : pc'[q] = pc[q] /\ job'[q] = job[q]
  BY <1>2 DEF Done, Goto, Become, TypeOK
<1>5. \A q \in Procs : ~InWindow(pc'[q], job'[q])
  BY <1>2, <1>4 DEF Windows, OneWindow, Unheard, InWindow
<1>6. (\A r \in Reviews : Rang(r)' <=> Rang(r)) /\ Ringing' = Ringing
  BY <1>2 DEF Rang, Ringing
<1>7. StoredRang' /\ OneWindow'
  BY <1>2, <1>5, <1>6 DEF Windows, StoredRang, OneWindow, Main
<1>8. HeardRang'
  <2> SUFFICES ASSUME NEW q \in Procs, Heard(pc'[q], job'[q]) PROVE Rang(job'[q].review)
    BY <1>2 DEF HeardRang, Rang, Heard
  <2>1. q # p /\ Heard(pc[q], job[q])
    BY <1>4, BlankType DEF Heard
  <2> QED BY <2>1, <1>4 DEF Windows, HeardRang
<1>9. Counted'
  <2>1. Used \in Int /\ Used' \in Int /\ Used <= Used'
    BY UsedGrows
  <2>2. IsFiniteSet(Ringing) /\ Cardinality(Ringing) \in Nat /\ Cardinality(Ringing) <= Used
    BY <1>2, FS_CardinalityType DEF Windows, Counted
  <2> QED BY <1>6, <2>1, <2>2 DEF Counted
<1> QED BY <1>7, <1>8, <1>9 DEF Windows

LEMMA WindowsExpire ==
  ASSUME TypeOK, TypeOK', Frugal, WindowOutlivesSend, Global, Windows,
         NEW b \in Backends, ExpireCooldown(b)
  PROVE  Windows'
<1>1. PICK k \in CooldownKeys :
        ~WindowInUse(k) /\ Expiry("cooldown") /\ UNCHANGED reviews
  BY DEF ExpireCooldown
<1>2. \A p \in Procs : ~InWindow(pc[p], job[p])
  <2> SUFFICES ASSUME NEW p \in Procs, InWindow(pc[p], job[p]) PROVE FALSE
    OBVIOUS
  <2>1. KeyOf(p) = k /\ Cooling(p)
    BY GlobalWindow, OneKey DEF CooldownKeys, InWindow, Cooling, Escalating, Global
  <2> QED BY <1>1, <2>1 DEF WindowInUse, InWindow
<1>3. UNCHANGED <<pc, job, rings, reviews>>
  BY <1>1 DEF Expiry, world
<1>4. (\A r \in Reviews : Rang(r)' <=> Rang(r)) /\ Ringing' = Ringing
  BY <1>3 DEF Rang, Ringing
<1>5. StoredRang' /\ OneWindow' /\ HeardRang'
  BY <1>2, <1>3, <1>4 DEF Windows, StoredRang, OneWindow, HeardRang, Main, Rang
<1>6. Counted'
  <2>1. Used \in Int /\ Used' = Used + 1
    BY <1>1, ModelAssumption DEF Expiry, Used, TypeOK, Budget
  <2>2. IsFiniteSet(Ringing) /\ Cardinality(Ringing) \in Nat /\ Cardinality(Ringing) <= 1 + Used
    BY FS_CardinalityType DEF Windows, Counted
  <2> QED BY <1>4, <2>1, <2>2 DEF Counted
<1> QED BY <1>5, <1>6 DEF Windows

LEMMA WindowsSave ==
  ASSUME TypeOK, TypeOK', Frugal, Undisturbed, Windows,
         NEW p \in Procs, NEW w \in SUBSET Backends, SaveReview(p, w)
  PROVE  Windows'
<1> DEFINE st == IF pc[p] = "send" THEN Delivered(p) ELSE Edited(p)
<1>1. /\ Reached(w) /\ reviews' = Written(reviews, w, job[p].review, st)
      /\ UNCHANGED <<cooling, rings>>
      /\ Heard(pc[p], job[p])
  BY DEF SaveReview, HasResult, Result, Heard, world
<1>2. Rang(job[p].review) /\ job[p].review \in Reviews /\ Main \in Backends
  BY <1>1, ServingIsBackend DEF Windows, HeardRang, TypeOK, Job
<1> HIDE DEF st
<1>3. reviews'[Main] = [reviews[Main] EXCEPT ![job[p].review] = st]
  BY <1>1, MainWritten
<1>4. \A r \in Reviews : reviews'[Main][r] # None => Rang(r)
  BY <1>2, <1>3 DEF Windows, StoredRang, TypeOK
<1>5. /\ pc'[p] \in {"index", "idle"} /\ job'[p].prior = None
      /\ \A q \in Procs \ {p} : pc'[q] = pc[q] /\ job'[q] = job[q]
  <2>1. [Blank EXCEPT !.review = job[p].review].prior = None
    BY BlankType DEF Job
  <2> QED BY <2>1, BlankType DEF SaveReview, HasResult, Result, Done, Goto, Become, TypeOK
<1>6. ASSUME NEW q \in Procs
      PROVE  /\ InWindow(pc'[q], job'[q]) => InWindow(pc[q], job[q])
             /\ Unheard(pc'[q], job'[q]) => Unheard(pc[q], job[q])
             /\ Heard(pc'[q], job'[q]) => Rang(job'[q].review)
  <2>1. CASE q = p
    BY <1>5, <2>1 DEF InWindow, Unheard, Heard
  <2>2. CASE q # p
    BY <1>5, <2>2 DEF Windows, HeardRang
  <2> QED BY <2>1, <2>2
<1> QED BY <1>1, <1>4, <1>6, WindowsStay

LEMMA OneMore ==
  ASSUME IsFiniteSet(Ringing), NEW r \in Reviews, Ringing' \in {Ringing, Ringing \cup {r}}
  PROVE  /\ IsFiniteSet(Ringing') /\ Cardinality(Ringing) \in Nat
         /\ Cardinality(Ringing') \in Nat /\ Cardinality(Ringing') <= Cardinality(Ringing) + 1
<1>1. Cardinality(Ringing) \in Nat
  BY FS_CardinalityType
<1>2. CASE Ringing' = Ringing
  BY <1>1, <1>2
<1>3. CASE Ringing' = Ringing \cup {r}
  BY <1>1, <1>3, FS_AddElement
<1> QED BY <1>2, <1>3

LEMMA WindowsPush ==
  ASSUME TypeOK, TypeOK', Frugal, Undisturbed, Windows, NEW p \in Procs,
         NEW d \in Delivery, NEW o \in {"ok", "lost", "failed"}, Push(p, d, o)
  PROVE  Windows'
<1> DEFINE r == job[p].review
           j == [job[p] EXCEPT !.todo = @ \ {d}, !.sent = Confirmed(p, d, o)]
<1>1. /\ r \in Reviews /\ d.target \in Targets /\ job[p] \in Job
      /\ UNCHANGED <<cooling, reviews, pc>> /\ pc[p] = "send" /\ o \in Outcomes
  BY DEF Push, store, TypeOK, Job, Delivery
<1>2. j.prior = job[p].prior /\ j.review = r /\ j.sent = Confirmed(p, d, o)
  BY <1>1 DEF Job
<1>3. Become(p, j) /\ budget' = Sent(o)
  BY DEF Push
<1> HIDE DEF j
<1>4. job'[p] = j /\ \A q \in Procs \ {p} : job'[q] = job[q]
  BY <1>3 DEF Become, TypeOK
<1>5. CASE o = "failed"
  <2>1. rings' = rings /\ Goto(p, "send") /\ j.sent = job[p].sent
    BY <1>1, <1>2, <1>5 DEF Push, Goto, TypeOK, Confirmed
  <2>2. Heard("send", j) => Rang(j.review)
    BY <1>1, <1>2, <2>1 DEF Windows, HeardRang, Heard
  <2> QED BY <1>1, <1>2, <1>3, <2>1, <2>2, WindowsGo DEF InWindow, Unheard
<1>6. CASE o # "failed"
  <2>1. /\ \A x \in Reviews : Rang(x)' <=> (Rang(x) \/ x = r)
        /\ Ringing' = Ringing \cup {r}
    <3>1. rings' = [rings EXCEPT ![r][d.target] = @ + 1]
      BY <1>6 DEF Push
    <3> HIDE DEF r
    <3>2. ASSUME NEW x \in Reviews PROVE Rang(x)' <=> (Rang(x) \/ x = r)
      <4>1. CASE x = r
        <5>1. rings'[r][d.target] = rings[r][d.target] + 1
          BY <3>1, <1>1 DEF TypeOK
        <5> QED BY <4>1, <5>1, <1>1 DEF Rang, TypeOK
      <4>2. CASE x # r
        BY <3>1, <4>2 DEF Rang, TypeOK
      <4> QED BY <4>1, <4>2
    <3> QED BY <3>2, <1>1 DEF Ringing
  <2>2. (\A q \in Procs : InWindow(pc'[q], job'[q]) <=> InWindow(pc[q], job[q])) /\ (Open' <=> Open)
    BY <1>1, <1>2, <1>4 DEF InWindow, Open, Main
  <2>3. StoredRang' /\ OneWindow'
    BY <1>1, <2>1, <2>2 DEF Windows, StoredRang, OneWindow, Main
  <2>4. HeardRang'
    <3> SUFFICES ASSUME NEW q \in Procs, Heard(pc'[q], job'[q])
                 PROVE  \E t \in Targets : rings'[job'[q].review][t] > 0
      BY DEF HeardRang, Heard, Rang
    <3>1. CASE q = p
      BY <1>1, <1>2, <1>4, <2>1, <3>1 DEF Rang
    <3>2. CASE q # p
      <4>1. Rang(job[q].review) /\ job[q].review \in Reviews /\ job'[q] = job[q]
        BY <1>1, <1>4, <3>2 DEF Windows, HeardRang, TypeOK, Job
      <4> QED BY <4>1, <2>1 DEF Rang
    <3> QED BY <3>1, <3>2
  <2>5. Counted'
    <3>1. /\ IsFiniteSet(Ringing') /\ Cardinality(Ringing) \in Nat
          /\ Cardinality(Ringing') \in Nat /\ Cardinality(Ringing') <= Cardinality(Ringing) + 1
      BY <1>1, <2>1, OneMore DEF Windows, Counted
    <3>2. Rang(r) => Ringing' = Ringing
      BY <1>1, <2>1 DEF Ringing
    <3>3. Used \in Int /\ Used' \in Int /\ Used <= Used'
      BY UsedGrows
    <3>4. \A q \in Procs \ {p} : Unheard(pc'[q], job'[q]) => Unheard(pc[q], job[q])
      BY <1>1, <1>4
    <3>5. CASE job[p].prior # None
      <4>1. Rang(r) /\ ~Unheard(pc'[p], job'[p])
        BY <1>2, <1>4, <3>5 DEF Windows, HeardRang, Heard, Unheard, InWindow
      <4> QED BY <4>1, <2>2, <3>1, <3>2, <3>3, <3>4 DEF Windows, Counted
    <3>6. CASE job[p].prior = None
      <4>1. Open' /\ \A q \in Procs \ {p} : ~Unheard(pc'[q], job'[q])
        BY <1>1, <2>2, <3>6 DEF Windows, OneWindow, InWindow, Unheard
      <4>2. CASE o = "ok"
        <5>1. ~Unheard(pc'[p], job'[p])
          BY <1>1, <1>2, <1>4, <4>2 DEF Unheard, InWindow, Confirmed
        <5>2. CASE job[p].sent = {}
          <6>1. Cardinality(Ringing) <= Used
            BY <1>1, <3>6, <5>2 DEF Windows, Counted, Unheard, InWindow
          <6> QED BY <6>1, <4>1, <5>1, <3>1, <3>3 DEF Counted
        <5>3. CASE job[p].sent # {}
          <6>1. Rang(r)
            BY <1>1, <5>3 DEF Windows, HeardRang, Heard
          <6> QED BY <6>1, <4>1, <5>1, <3>1, <3>2, <3>3 DEF Windows, Counted
        <5> QED BY <5>2, <5>3
      <4>3. CASE o = "lost"
        <5>1. Used' = Used + 1
          BY <1>3, <4>3, ModelAssumption DEF Sent, Undisturbed, Used, TypeOK, Budget
        <5>2. Unheard(pc'[p], job'[p]) => Cardinality(Ringing) <= Used
          <6>1. j.sent = job[p].sent
            BY <1>2, <4>3 DEF Confirmed
          <6> QED BY <6>1, <1>1, <1>2, <1>4, <3>6 DEF Windows, Counted, Unheard, InWindow
        <5>3. Cardinality(Ringing) <= 1 + Used
          BY DEF Windows, Counted
        <5> QED BY <5>1, <5>2, <5>3, <4>1, <3>1, <3>3 DEF Counted
      <4> QED BY <4>2, <4>3, <1>6
    <3> QED BY <3>5, <3>6
  <2> QED BY <2>3, <2>4, <2>5 DEF Windows
<1> QED BY <1>5, <1>6

LEMMA WindowsNext ==
  ASSUME TypeOK, TypeOK', Frugal, Undisturbed, WindowOutlivesSend, Global, Windows, [Next]_vars
  PROVE  Windows'
<1>1. ASSUME NEW m \in Message, NEW w \in SUBSET Backends, IgnoreReview(m, w) PROVE Windows'
  BY <1>1, WindowsSame DEF IgnoreReview, Receive, world
<1>2. ASSUME NEW m \in Message, NEW w \in SUBSET Backends, HandleGenAI(m, w) PROVE Windows'
  BY <1>2, WindowsGo, StartedType DEF HandleGenAI, Receive, world, Procs, InWindow, Unheard, Heard
<1>3. ASSUME NEW m \in Message, NEW w \in SUBSET Backends, HandlePhase(m, w) PROVE Windows'
  BY <1>3, WindowsGo, StartedType DEF HandlePhase, Receive, world, Procs, InWindow, Unheard, Heard
<1>4. ASSUME NEW m \in Message, NEW w \in SUBSET Backends, HandlePhaseWhileHeld(m, w)
      PROVE  Windows'
  <2> DEFINE h == pending[m.review]
  <2>1. h \in Holds /\ job[h] \in Job /\ Mqtt # h
    BY <1>4, ModelAssumption DEF HandlePhaseWhileHeld, Receive, TypeOK, Message, Procs
  <2>2. /\ pc'[Mqtt] = "match" /\ job'[Mqtt] = Started(m, TRUE)
        /\ pc'[h] = pc[h] /\ job'[h] = Noted(h, m)
        /\ \A q \in Procs \ {Mqtt, h} : pc'[q] = pc[q] /\ job'[q] = job[q]
        /\ UNCHANGED <<cooling, rings, reviews>>
    BY <1>4, <2>1 DEF HandlePhaseWhileHeld, Receive, Goto, TypeOK, Procs, world
  <2> HIDE DEF h
  <2>3. Noted(h, m).prior = job[h].prior /\ Noted(h, m).sent = job[h].sent /\ Noted(h, m).review = job[h].review
    BY <2>1 DEF Noted, Job
  <2>4. \A q \in Procs : Heard(pc[q], job[q]) => Rang(job[q].review)
    BY DEF Windows, HeardRang
  <2>5. ASSUME NEW q \in Procs
        PROVE  /\ InWindow(pc'[q], job'[q]) => InWindow(pc[q], job[q])
               /\ Unheard(pc'[q], job'[q]) => Unheard(pc[q], job[q])
               /\ Heard(pc'[q], job'[q]) => Rang(job'[q].review)
    <3>1. CASE q = Mqtt
      BY <2>2, <3>1, StartedType DEF InWindow, Unheard, Heard
    <3>2. CASE q = h
      BY <2>1, <2>2, <2>3, <2>4, <3>2 DEF InWindow, Unheard, Heard
    <3>3. CASE q \notin {Mqtt, h}
      BY <2>2, <2>4, <3>3
    <3> QED BY <3>1, <3>2, <3>3
  <2> QED BY <2>2, <2>5, WindowsStay DEF Windows, StoredRang
<1>5. ASSUME NEW m \in Message, NEW w \in SUBSET Backends, HandleEndWhileHeld(m, w) PROVE Windows'
  <2> DEFINE h == pending[m.review]
  <2>1. h \in Holds /\ job[h] \in Job /\ Mqtt # h
    BY <1>5, ModelAssumption DEF HandleEndWhileHeld, Receive, TypeOK, Message, Procs
  <2>2. /\ pc'[Mqtt] = "match" /\ job'[Mqtt] = Started(m, FALSE)
        /\ \/ pc'[h] = "idle" /\ job'[h] = Blank
           \/ pc'[h] = pc[h] /\ job'[h] = job[h]
        /\ \A q \in Procs \ {Mqtt, h} : pc'[q] = pc[q] /\ job'[q] = job[q]
        /\ UNCHANGED <<cooling, rings, reviews>>
    BY <1>5, <2>1 DEF HandleEndWhileHeld, Receive, TypeOK, Procs, world
  <2> HIDE DEF h
  <2>4. \A q \in Procs : Heard(pc[q], job[q]) => Rang(job[q].review)
    BY DEF Windows, HeardRang
  <2>5. ASSUME NEW q \in Procs
        PROVE  /\ InWindow(pc'[q], job'[q]) => InWindow(pc[q], job[q])
               /\ Unheard(pc'[q], job'[q]) => Unheard(pc[q], job[q])
               /\ Heard(pc'[q], job'[q]) => Rang(job'[q].review)
    <3>1. CASE q = Mqtt
      BY <2>2, <3>1, StartedType DEF InWindow, Unheard, Heard
    <3>2. CASE q = h
      BY <2>1, <2>2, <2>4, <3>2, BlankType DEF InWindow, Unheard, Heard, Procs
    <3>3. CASE q \notin {Mqtt, h}
      BY <2>2, <2>4, <3>3
    <3> QED BY <3>1, <3>2, <3>3
  <2> QED BY <2>2, <2>5, WindowsStay DEF Windows, StoredRang
<1>6. ASSUME NEW r \in Reviews, NEW d \in Descriptions, NEW v \in SUBSET Backends,
             NEW w \in SUBSET Backends, HandleDescription(r, d, v, w)
      PROVE  Windows'
  <2>1. [Blank EXCEPT !.review = r].prior = None
    BY BlankType DEF Job
  <2> QED BY <1>6, <2>1, WindowsSame, WindowsGo
             DEF HandleDescription, Procs, world, InWindow, Unheard, Heard
<1>7. ASSUME NEW v \in SUBSET Backends, NEW w \in SUBSET Backends, LateDescription(v, w)
      PROVE  Windows'
  <2> DEFINE st == reviews[Answer(w)][job[Mqtt].review]
             j == [job[Mqtt] EXCEPT !.phase = "description", !.prior = st,
                                    !.tag = st.tag, !.rule = st.ruleIndex]
  <2>1. Mqtt \in Procs /\ UNCHANGED <<cooling, rings, reviews>> /\ job[Mqtt] \in Job
    BY <1>7 DEF LateDescription, store, world, Procs, TypeOK
  <2>2. Reached(w)
    BY <1>7, PaidBothFaultless DEF LateDescription, Undisturbed
  <2>3. Answer(w) = Main
    BY <2>2, MainAnswers
  <2>4. CASE Done(Mqtt)
    BY <2>1, <2>4, WindowsDone
  <2>5. CASE st # None /\ Goto(Mqtt, "rerender") /\ Become(Mqtt, j)
    <3>1. Rang(job[Mqtt].review) /\ j.review = job[Mqtt].review
      BY <2>1, <2>3, <2>5 DEF Windows, StoredRang, Job
    <3> QED BY <2>1, <2>5, <3>1, WindowsGo DEF InWindow, Unheard, Heard
  <2> QED BY <1>7, <2>4, <2>5 DEF LateDescription
<1>8. ASSUME NEW h \in Holds, TimerFires(h) PROVE Windows'
  BY <1>8, WindowsGoto DEF TimerFires, PcValues, store, world, Procs
<1>9. ASSUME NEW h \in Holds, TimerDecides(h) PROVE Windows'
  <2>1. CASE canceled
    BY <1>9, <2>1, WindowsDone DEF TimerDecides, store, world, Procs
  <2>2. CASE ~canceled
    BY <1>9, <2>2, WindowsGoto DEF TimerDecides, PcValues, store, world, Procs
  <2> QED BY <2>1, <2>2
<1>10. ASSUME NEW h \in Holds, TimerIsLate(h) PROVE Windows'
  BY <1>10, WindowsDone DEF TimerIsLate, store, world, Procs
<1>11. ASSUME NEW p \in Procs, Unmatched(p) PROVE Windows'
  BY <1>11, WindowsDone DEF Unmatched, store, world
<1>12. ASSUME NEW p \in Procs, NEW i \in RuleIds, DeferDecision(p, i) PROVE Windows'
  BY <1>12, WindowsDefer
<1>13. ASSUME NEW p \in Procs, NEW i \in RuleIds, MatchNow(p, i) PROVE Windows'
  <2>1. /\ [job[p] EXCEPT !.rule = i, !.holding = FALSE].prior = job[p].prior
        /\ [job[p] EXCEPT !.rule = i, !.holding = FALSE].review = job[p].review
    BY DEF TypeOK, Job
  <2>2. job[p].prior # None => Rang(job[p].review)
    BY DEF Windows, HeardRang, Heard
  <2> QED BY <1>13, <2>1, <2>2, WindowsGo DEF MatchNow, store, world, InWindow, Unheard, Heard
<1>14. ASSUME NEW p \in Procs, NEW w \in SUBSET Backends, NotNotified(p, w) PROVE Windows'
  <2>1. [job[p] EXCEPT !.tag = "fn"].prior = job[p].prior /\ [job[p] EXCEPT !.tag = "fn"].review = job[p].review
    BY DEF TypeOK, Job
  <2>2. job[p].prior # None => Rang(job[p].review)
    BY DEF Windows, HeardRang, Heard
  <2> QED BY <1>14, <2>1, <2>2, WindowsGo, WindowsDone
             DEF NotNotified, Loads, store, world, InWindow, Unheard, Heard
<1>15. ASSUME NEW p \in Procs, NEW w \in SUBSET Backends, Escalate(p, w) PROVE Windows'
  <2>1. PICK st : st = Loaded(p, w) /\ st # None /\ UNCHANGED <<cooling, rings, reviews>>
    BY <1>15 DEF Escalate, Loads, store, world
  <2>2. Answer(w) = Main /\ job[p] \in Job
    BY <1>15, MainAnswers DEF Escalate, Loads, TypeOK
  <2>3. Rang(job[p].review)
    BY <2>1, <2>2 DEF Loaded, Windows, StoredRang, Job
  <2> QED BY <1>15, <2>1, <2>2, <2>3, WindowsGo DEF Escalate, InWindow, Unheard, Heard, Job
<1>16. ASSUME NEW p \in Procs, NEW w \in SUBSET Backends, RefreshUnderBetterRule(p, w)
      PROVE  Windows'
  <2>1. PICK st : st = Loaded(p, w) /\ st # None /\ UNCHANGED <<cooling, rings, reviews>>
    BY <1>16 DEF RefreshUnderBetterRule, Loads, store, world
  <2>2. Answer(w) = Main /\ job[p] \in Job
    BY <1>16, MainAnswers DEF RefreshUnderBetterRule, Loads, TypeOK
  <2>3. Rang(job[p].review)
    BY <2>1, <2>2 DEF Loaded, Windows, StoredRang, Job
  <2> QED BY <1>16, <2>1, <2>2, <2>3, WindowsGo
             DEF RefreshUnderBetterRule, InWindow, Unheard, Heard, Job
<1>17. ASSUME NEW p \in Procs, NEW w \in SUBSET Backends, SendUpdate(p, w) PROVE Windows'
  <2>1. PICK st : st = Loaded(p, w) /\ st # None /\ UNCHANGED <<cooling, rings, reviews>>
    BY <1>17 DEF SendUpdate, Loads, store, world
  <2>2. Answer(w) = Main /\ job[p] \in Job
    BY <1>17, MainAnswers DEF SendUpdate, Loads, TypeOK
  <2>3. Rang(job[p].review)
    BY <2>1, <2>2 DEF Loaded, Windows, StoredRang, Job
  <2> QED BY <1>17, <2>1, <2>2, <2>3, WindowsGo DEF SendUpdate, InWindow, Unheard, Heard, Job
<1>18. ASSUME NEW p \in Procs, NEW w \in SUBSET Backends, AlreadyNotified(p, w) PROVE Windows'
  BY <1>18, WindowsDone DEF AlreadyNotified, Loads, store, world
<1>19. ASSUME NEW p \in Procs, SkipCooldown(p) PROVE Windows'
  BY <1>19, ConfigAssumption DEF SkipCooldown, Global, TypeOK, Job
<1>20. ASSUME NEW p \in Procs, NothingDelivered(p) PROVE Windows'
  BY <1>20, WindowsDone DEF NothingDelivered, store, world
<1>21. ASSUME NEW p \in Procs, NEW w \in SUBSET Backends, OpenCooldown(p, w) PROVE Windows'
  BY <1>21, WindowsOpen
<1>22. ASSUME NEW p \in Procs, NEW w \in SUBSET Backends, SuppressedByCooldown(p, w)
      PROVE  Windows'
  <2>1. cooling' = cooling
    BY <1>22, StillOpen DEF SuppressedByCooldown
  <2> QED BY <1>22, <2>1, WindowsDone DEF SuppressedByCooldown, TryCooldown, world
<1>23. ASSUME NEW p \in Procs, NEW w \in SUBSET Backends, Render(p, w) PROVE Windows'
  <2>1. PICK to, text :
          Become(p, [job[p] EXCEPT !.text = text, !.sent = {},
                                   !.todo = [target : to, tag : {SameTag}]])
    BY <1>23 DEF Render
  <2> DEFINE j == [job[p] EXCEPT !.text = text, !.sent = {},
                                 !.todo = [target : to, tag : {SameTag}]]
  <2>2. j.prior = job[p].prior /\ j.review = job[p].review /\ j.sent = {}
    BY DEF TypeOK, Job
  <2>3. job[p].prior # None => Rang(job[p].review)
    BY DEF Windows, HeardRang, Heard
  <2> HIDE DEF j
  <2> QED BY <1>23, <2>1, <2>2, <2>3, WindowsGo
             DEF Render, store, world, InWindow, Unheard, Heard, j
<1>24. ASSUME NEW p \in Procs, NEW w \in SUBSET Backends, Rerender(p, w) PROVE Windows'
  <2>1. PICK text : Become(p, [job[p] EXCEPT !.text = text, !.sent = {}, !.todo = Originals(p)])
    BY <1>24 DEF Rerender
  <2> DEFINE j == [job[p] EXCEPT !.text = text, !.sent = {}, !.todo = Originals(p)]
  <2>2. j.prior = job[p].prior /\ j.review = job[p].review
    BY DEF TypeOK, Job
  <2>3. pc[p] = "rerender"
    BY <1>24 DEF Rerender
  <2>4. Rang(job[p].review)
    BY <2>3 DEF Windows, HeardRang, Heard
  <2> HIDE DEF j
  <2> QED BY <1>24, <2>1, <2>2, <2>4, WindowsGo
             DEF Rerender, store, world, InWindow, Unheard, Heard, j
<1>25. ASSUME NEW p \in Procs, NEW d \in Delivery, NEW o \in {"ok", "lost", "failed"}, Push(p, d, o)
      PROVE  Windows'
  BY <1>25, WindowsPush
<1>26. ASSUME NEW p \in Procs, NEW d \in Delivery, NEW o \in {"ok", "lost", "failed"}, Edit(p, d, o)
      PROVE  Windows'
  <2> DEFINE j == [job[p] EXCEPT !.todo = @ \ {d}]
  <2>1. Goto(p, "edit") /\ Become(p, j) /\ UNCHANGED <<cooling, rings, reviews>>
    BY <1>26 DEF Edit, Goto, TypeOK, store
  <2>2. j.prior = job[p].prior /\ j.review = job[p].review
    BY DEF TypeOK, Job
  <2>3. pc[p] = "edit"
    BY <1>26 DEF Edit
  <2>4. Rang(job[p].review)
    BY <2>3 DEF Windows, HeardRang, Heard
  <2> HIDE DEF j
  <2> QED BY <2>1, <2>2, <2>4, WindowsGo DEF InWindow, Unheard, Heard
<1>27. ASSUME NEW p \in Procs, NEW w \in SUBSET Backends, ReleaseCooldown(p, w) PROVE Windows'
  BY <1>27, WindowsRelease
<1>28. ASSUME NEW p \in Procs, NEW w \in SUBSET Backends, SaveReview(p, w) PROVE Windows'
  BY <1>28, WindowsSave
<1>29. ASSUME NEW p \in Procs, NEW w \in SUBSET Backends, IndexEvent(p, w) PROVE Windows'
  BY <1>29, WindowsDone DEF IndexEvent, world
<1>30. ASSUME NEW b \in Backends, ExpireSeen(b) PROVE Windows'
  BY <1>30, WindowsSame DEF ExpireSeen, Expiry, world
<1>31. ASSUME NEW b \in Backends, ExpireCooldown(b) PROVE Windows'
  BY <1>31, WindowsExpire
<1>32. ASSUME NEW b \in Backends, ExpireReview(b) PROVE Windows'
  <2>1. UNCHANGED <<pc, job, cooling, rings>> /\ \A r \in Reviews : reviews'[Main][r] # None => reviews[Main][r] # None
    BY <1>32, ServingIsBackend DEF ExpireReview, Expiry, world, TypeOK
  <2> QED BY <2>1, WindowsStay DEF Windows, StoredRang, HeardRang
<1>33. ASSUME NEW b \in Backends, ExpireEvent(b) PROVE Windows'
  BY <1>33, WindowsSame DEF ExpireEvent, Expiry, world
<1>34. ASSUME NEW b \in Backends, ExpireDescription(b) PROVE Windows'
  BY <1>34, WindowsSame DEF ExpireDescription, Expiry, world
<1>35. ASSUME Shutdown PROVE Windows'
  BY <1>35 DEF Shutdown, Undisturbed
<1>36. ASSUME Restart PROVE Windows'
  BY <1>36 DEF Restart, Undisturbed
<1>37. ASSUME Dispatch PROVE Windows'
  BY <1>37, <1>1, <1>2, <1>3, <1>4, <1>5, <1>6, ConfigAssumption DEF Dispatch
<1>38. ASSUME NEW p \in Procs, Decide(p) PROVE Windows'
  BY <1>38, <1>11, <1>12, <1>13, <1>14, <1>15, <1>16, <1>17, <1>18 DEF Decide
<1>39. ASSUME NEW p \in Procs, Send(p) PROVE Windows'
  BY <1>39, <1>19, <1>20, <1>21, <1>22, <1>23, <1>24, <1>27, <1>28, <1>29, <1>25, <1>26 DEF Send
<1>40. ASSUME NEW p \in Procs, Run(p) PROVE Windows'
  BY <1>40, <1>38, <1>39, <1>9, <1>10, <1>7 DEF Run, Timer, LookUpDescription
<1>41. ASSUME Expire PROVE Windows'
  BY <1>41, <1>30, <1>31, <1>32, <1>33, <1>34 DEF Expire
<1>42. CASE UNCHANGED vars
  BY <1>42, WindowsSame DEF vars, store, world
<1>43. ASSUME NEW m \in Message, LoseOwnMessage(m) PROVE Windows'
  BY <1>43, FaultlessSentOnce, NothingResent DEF Undisturbed
<1>44. ASSUME NEW p \in Procs, Resend(p) PROVE Windows'
  BY <1>44, FaultlessSentOnce, NothingResent DEF Undisturbed
<1> QED
  BY <1>37, <1>40, <1>41, <1>42, <1>43, <1>44, <1>8, <1>35, <1>36 DEF Next

\* With one global cooldown on every rule a window lets one review ring: a second one
\* needs an expiry, or a send whose failure released the window.  For any holdoffs and
\* any rules, while no operation on the primary fails and the service is not stopped.
THEOREM OneReviewRings ==
  ASSUME MaxFaults = 0, MaxRestarts = 0, WindowOutlivesSend
  PROVE  Spec => []OneReviewPerWindow
<1>1. Spec => []TypeOK
  BY TypeCorrect
<1>2. Init => Undisturbed
  BY DEF Init, Undisturbed, Faultless
<1>3. TypeOK /\ Undisturbed /\ [Next]_vars => Undisturbed'
  BY FrugalNext DEF Frugal, Undisturbed, Faultless
<1>4. Init => Windows
  <2> SUFFICES ASSUME Init PROVE Windows
    OBVIOUS
  <2>1. Ringing = {} /\ Used = 0 /\ Main \in Backends
    BY ServingIsBackend, ModelAssumption DEF Init, Ringing, Rang, Used
  <2>2. IsFiniteSet(Ringing) /\ Cardinality(Ringing) = 0
    BY <2>1, FS_EmptySet
  <2>3. \A p \in Procs : pc[p] = "idle" /\ job[p].prior = None
    BY BlankType DEF Init
  <2> QED BY <2>1, <2>2, <2>3 DEF Init, Windows, StoredRang, HeardRang, OneWindow, Counted,
                               InWindow, Unheard, Heard
<1>5. CASE Global
  <2>1. TypeOK /\ TypeOK' /\ Undisturbed /\ Windows /\ [Next]_vars => Windows'
    BY <1>5, FrugalNext, WindowsNext DEF Undisturbed
  <2>2. TypeOK /\ Windows => OneReviewPerWindow
    <3> SUFFICES ASSUME TypeOK, Windows PROVE OneReviewPerWindow
      OBVIOUS
    <3>1. Cardinality(Ringing) <= 1 + Used /\ Cardinality(Ringing) \in Nat
      BY FS_CardinalityType DEF Windows, Counted
    <3>2. 1 + Used = 1 + (MaxExpiries - budget.expiries) + (MaxSendFaults - budget.sends)
      BY UsedType, ModelAssumption DEF Used
    <3> QED BY <3>1, <3>2 DEF Ringing, OneReviewPerWindow
  <2> QED BY <1>1, <1>2, <1>3, <1>4, <2>1, <2>2, PTL DEF Spec
<1>6. CASE ~Global
  <2>1. OneReviewPerWindow
    BY <1>6 DEF Global, OneReviewPerWindow
  <2> QED BY <2>1, PTL
<1> QED BY <1>5, <1>6

-----------------------------------------------------------------------------
(***************************************************************************)
(* Configurations without holdoffs: no timer is ever armed, the dispatch   *)
(* goroutine is alone, and AloneStep are the steps that are left to take.  *)
(***************************************************************************)
NoHoldoffs == \A i \in RuleIds : ~Rules[i].holdoff
Alone == /\ \A h \in Holds : pc[h] = "idle"
         /\ \A r \in Reviews : pending[r] = None

AloneStep ==
  \/ \E m \in Message, w \in SUBSET Backends :
       IgnoreReview(m, w) \/ HandleGenAI(m, w) \/ HandlePhase(m, w)
  \/ \E r \in HasEvent, d \in Descriptions, v \in SUBSET Backends, w \in SUBSET Backends :
       HandleDescription(r, d, v, w)
  \/ \E v \in SUBSET Backends, w \in SUBSET Backends : LateDescription(v, w)
  \/ Unmatched(Mqtt) \/ \E i \in RuleIds : MatchNow(Mqtt, i)
  \/ \E w \in SUBSET Backends :
       \/ NotNotified(Mqtt, w) \/ Escalate(Mqtt, w) \/ RefreshUnderBetterRule(Mqtt, w)
       \/ SendUpdate(Mqtt, w) \/ AlreadyNotified(Mqtt, w)
  \/ SkipCooldown(Mqtt) \/ NothingDelivered(Mqtt)
  \/ \E w \in SUBSET Backends :
       \/ OpenCooldown(Mqtt, w) \/ SuppressedByCooldown(Mqtt, w)
       \/ Render(Mqtt, w) \/ Rerender(Mqtt, w)
       \/ ReleaseCooldown(Mqtt, w) \/ SaveReview(Mqtt, w) \/ IndexEvent(Mqtt, w)
  \/ \E d \in Delivery, o \in {"ok", "lost", "failed"} : Push(Mqtt, d, o) \/ Edit(Mqtt, d, o)
  \/ \E b \in Backends :
       \/ ExpireSeen(b) \/ ExpireCooldown(b) \/ ExpireReview(b) \/ ExpireEvent(b)
       \/ ExpireDescription(b)
  \/ Shutdown \/ Restart \/ UNCHANGED vars

LEMMA AloneNext ==
  ASSUME NoHoldoffs, Faultless, Alone, TypeOK, [Next]_vars
  PROVE  AloneStep
<1>1. \A m \in Message, w \in SUBSET Backends :
        ~HandlePhaseWhileHeld(m, w) /\ ~HandleEndWhileHeld(m, w)
  BY DEF Alone, HandlePhaseWhileHeld, HandleEndWhileHeld, Message
<1>2. \A p \in Procs, i \in RuleIds : ~DeferDecision(p, i)
  BY DEF DeferDecision, MustWait, NoHoldoffs
<1>3. ASSUME NEW h \in Holds PROVE ~Run(h) /\ ~TimerFires(h)
  <2>1. pc[h] = "idle" /\ h # Mqtt
    BY ModelAssumption DEF Alone
  <2>2. ~Decide(h)
    BY <2>1 DEF Decide, Unmatched, DeferDecision, MatchNow, Loads, NotNotified, Escalate,
                RefreshUnderBetterRule, SendUpdate, AlreadyNotified
  <2>3. ~Send(h)
    BY <2>1 DEF Send, SkipCooldown, NothingDelivered, OpenCooldown, SuppressedByCooldown,
                TryCooldown, Render, Rerender, ReleaseCooldown, SaveReview, HasResult, IndexEvent,
                Push, Edit
  <2>4. ~Timer(h) /\ ~TimerFires(h)
    BY <2>1 DEF Timer, TimerDecides, TimerIsLate, TimerFires
  <2> QED BY <2>1, <2>2, <2>3, <2>4 DEF Run
<1>4. CASE Dispatch
  BY <1>1, <1>4 DEF Dispatch, AloneStep
<1>5. CASE Decide(Mqtt)
  BY <1>2, <1>5 DEF Decide, AloneStep, Procs
<1>6. CASE Send(Mqtt)
  BY <1>6 DEF Send, AloneStep
<1>7. CASE LookUpDescription
  BY <1>7 DEF LookUpDescription, AloneStep
<1>8. CASE Expire
  BY <1>8 DEF Expire, AloneStep
<1>9. CASE Shutdown \/ Restart \/ UNCHANGED vars
  BY <1>9 DEF AloneStep
<1>10. CASE Run(Mqtt)
  BY <1>10, <1>5, <1>6, <1>7, ModelAssumption DEF Run
<1>11. (\A m : ~LoseOwnMessage(m)) /\ (\A p : ~Resend(p))
  BY FaultlessSentOnce, NothingResent
<1> QED BY <1>3, <1>4, <1>8, <1>9, <1>10, <1>11 DEF Next, Procs

LEMMA AloneMoves ==
  ASSUME TypeOK, Alone, UNCHANGED pending,
         UNCHANGED pc \/ \E l : Goto(Mqtt, l)
  PROVE  Alone'
<1>1. \A h \in Holds : h \in Procs \ {Mqtt}
  BY ModelAssumption DEF Procs
<1>2. CASE UNCHANGED pc
  BY <1>2 DEF Alone
<1>3. CASE \E l : Goto(Mqtt, l)
  <2>1. \A q \in Procs \ {Mqtt} : pc'[q] = pc[q]
    BY <1>3 DEF Goto, TypeOK
  <2> QED BY <1>1, <2>1 DEF Alone
<1> QED BY <1>2, <1>3

LEMMA AloneKept == NoHoldoffs /\ Faultless /\ TypeOK /\ Alone /\ [Next]_vars => Alone'
<1> SUFFICES ASSUME NoHoldoffs, Faultless, TypeOK, Alone, [Next]_vars PROVE Alone'
  OBVIOUS
<1>1. ASSUME NEW m \in Message, NEW w \in SUBSET Backends,
             IgnoreReview(m, w) \/ HandleGenAI(m, w) \/ HandlePhase(m, w)
      PROVE  Alone'
  BY <1>1, AloneMoves DEF IgnoreReview, HandleGenAI, HandlePhase
<1>2. ASSUME NEW r \in HasEvent, NEW d \in Descriptions, NEW v \in SUBSET Backends,
             NEW w \in SUBSET Backends, HandleDescription(r, d, v, w)
      PROVE  Alone'
  BY <1>2, AloneMoves DEF HandleDescription
<1>3. ASSUME NEW v \in SUBSET Backends, NEW w \in SUBSET Backends, LateDescription(v, w)
      PROVE  Alone'
  BY <1>3, AloneMoves DEF LateDescription, Done
<1>4. ASSUME NEW i \in RuleIds, Unmatched(Mqtt) \/ MatchNow(Mqtt, i) PROVE Alone'
  BY <1>4, AloneMoves DEF Unmatched, MatchNow, Done
<1>5. ASSUME NEW w \in SUBSET Backends,
             \/ NotNotified(Mqtt, w) \/ Escalate(Mqtt, w) \/ RefreshUnderBetterRule(Mqtt, w)
             \/ SendUpdate(Mqtt, w) \/ AlreadyNotified(Mqtt, w)
      PROVE  Alone'
  BY <1>5, AloneMoves
     DEF NotNotified, Escalate, RefreshUnderBetterRule, SendUpdate, AlreadyNotified, Loads, Done
<1>6. ASSUME SkipCooldown(Mqtt) \/ NothingDelivered(Mqtt) PROVE Alone'
  BY <1>6, AloneMoves DEF SkipCooldown, NothingDelivered, Done
<1>7. ASSUME NEW w \in SUBSET Backends,
             OpenCooldown(Mqtt, w) \/ SuppressedByCooldown(Mqtt, w) \/ ReleaseCooldown(Mqtt, w)
      PROVE  Alone'
  BY <1>7, AloneMoves DEF OpenCooldown, SuppressedByCooldown, TryCooldown, ReleaseCooldown, Done
<1>8. ASSUME NEW w \in SUBSET Backends, Render(Mqtt, w) \/ Rerender(Mqtt, w) PROVE Alone'
  BY <1>8, AloneMoves DEF Render, Rerender
<1>9. ASSUME NEW w \in SUBSET Backends, SaveReview(Mqtt, w) \/ IndexEvent(Mqtt, w) PROVE Alone'
  BY <1>9, AloneMoves DEF SaveReview, IndexEvent, Done
<1>10. ASSUME NEW d \in Delivery, NEW o \in {"ok", "lost", "failed"},
              Push(Mqtt, d, o) \/ Edit(Mqtt, d, o)
       PROVE  Alone'
  BY <1>10, AloneMoves DEF Push, Edit
<1>11. ASSUME NEW b \in Backends,
              \/ ExpireSeen(b) \/ ExpireCooldown(b) \/ ExpireReview(b) \/ ExpireEvent(b)
              \/ ExpireDescription(b)
       PROVE  Alone'
  BY <1>11, AloneMoves
     DEF ExpireSeen, ExpireCooldown, ExpireReview, ExpireEvent, ExpireDescription, Expiry
<1>12. ASSUME Restart PROVE Alone'
  BY <1>12 DEF Restart, Alone, Procs
<1>13. CASE Shutdown \/ UNCHANGED vars
  BY <1>13, AloneMoves DEF Shutdown, vars
<1>14. AloneStep
  BY AloneNext
<1>15. CASE Unmatched(Mqtt)
  BY <1>15, AloneMoves DEF Unmatched, Done
<1> QED
  BY <1>14, <1>1, <1>2, <1>3, <1>4, <1>5, <1>6, <1>7, <1>8, <1>9, <1>10, <1>11, <1>12, <1>13,
     <1>15 DEF AloneStep

\* The dispatch goroutine at l with locals j holds the state of its review as the
\* store has it, unless that expired or the store went over to an empty memory; what
\* it will write outranks it, or edits it in place.
Forgetful == "review" \in Expirable \/ canceled
HoldsState(j) ==
  LET st == reviews[Serving][j.review] IN st = j.prior \/ (st = None /\ Forgetful)
Refines(l, j) ==
  /\ l \in {"render", "send"} /\ j.prior # None =>
       /\ j.rule < j.prior.ruleIndex
       /\ Rules[j.rule].critical /\ ~j.prior.critical
  /\ l \in {"rerender", "edit"} => j.rule <= j.prior.ruleIndex
Held(l, j) == l \in {"cooldown", "render", "send", "rerender", "edit"} => HoldsState(j)
MemorySpare == HasPrimary /\ ~canceled => \A r \in Reviews : reviews["memory"][r] = None
Turn == MemorySpare /\ Held(pc[Mqtt], job[Mqtt]) /\ Refines(pc[Mqtt], job[Mqtt])

\* The step demotes no state.
Kept == \A b \in Backends, r \in Reviews :
  reviews[b][r] # None /\ reviews'[b][r] # None =>
    /\ reviews'[b][r].ruleIndex <= reviews[b][r].ruleIndex
    /\ reviews[b][r].critical => reviews'[b][r].critical

LEMMA KeptSame ==
  ASSUME TypeOK, \A b \in Backends, r \in Reviews :
                   reviews'[b][r] # None => reviews'[b][r] = reviews[b][r]
  PROVE  Kept
<1>1. \A b \in Backends, r \in Reviews : reviews[b][r] # None => reviews[b][r].ruleIndex \in Nat
  BY ConfigAssumption DEF TypeOK, ReviewState, RuleIds
<1> QED BY <1>1 DEF Kept

\* A step that leaves the states goes on with locals that hold one.
LEMMA TurnMove ==
  ASSUME TypeOK, Turn, UNCHANGED <<reviews, canceled>>,
         Held(pc'[Mqtt], job'[Mqtt]), Refines(pc'[Mqtt], job'[Mqtt])
  PROVE  Turn' /\ Kept
<1>1. Kept
  BY KeptSame
<1>2. Turn'
  BY DEF Turn, MemorySpare, Held, HoldsState, Refines, Serving, Forgetful
<1> QED BY <1>1, <1>2

LEMMA TurnSame ==
  ASSUME TypeOK, Turn, UNCHANGED <<reviews, canceled, pc, job>>
  PROVE  Turn' /\ Kept
  BY TurnMove DEF Turn

LEMMA TurnGo ==
  ASSUME TypeOK, Turn, UNCHANGED <<reviews, canceled>>, NEW l, NEW j,
         Goto(Mqtt, l), Become(Mqtt, j), Held(l, j), Refines(l, j)
  PROVE  Turn' /\ Kept
<1>1. pc'[Mqtt] = l /\ job'[Mqtt] = j
  BY DEF Goto, Become, TypeOK, Procs
<1> QED BY <1>1, TurnMove

LEMMA TurnGoto ==
  ASSUME TypeOK, Turn, UNCHANGED <<reviews, canceled, job>>, NEW l,
         Goto(Mqtt, l), Held(l, job[Mqtt]), Refines(l, job[Mqtt])
  PROVE  Turn' /\ Kept
<1>1. Become(Mqtt, job[Mqtt])
  BY DEF Become, TypeOK
<1> QED BY <1>1, TurnGo

LEMMA TurnDone ==
  ASSUME TypeOK, Turn, UNCHANGED <<reviews, canceled>>, Done(Mqtt)
  PROVE  Turn' /\ Kept
  BY TurnGo DEF Done, Held, Refines

LEMMA TurnSave ==
  ASSUME TypeOK, Locals, Faultless, Turn, NEW w \in SUBSET Backends, SaveReview(Mqtt, w)
  PROVE  Turn' /\ Kept
<1> DEFINE r  == job[Mqtt].review
           st == IF pc[Mqtt] = "send" THEN Delivered(Mqtt) ELSE Edited(Mqtt)
<1>1. /\ r \in Reviews /\ job[Mqtt] \in Job /\ Serving \in Backends
      /\ UNCHANGED canceled /\ pc[Mqtt] \in {"send", "edit"}
      /\ Reached(w) /\ reviews' = Written(reviews, w, r, st)
  BY ServingIsBackend DEF SaveReview, HasResult, Result, TypeOK, Procs, Job
<1>2. reviews[Serving][r] \in {job[Mqtt].prior, None}
  BY <1>1 DEF Turn, Held, HoldsState
<1>3. ASSUME job[Mqtt].prior # None
      PROVE  /\ st.ruleIndex <= job[Mqtt].prior.ruleIndex
             /\ job[Mqtt].prior.critical => st.critical
  <2>1. /\ job[Mqtt].prior \in ReviewState /\ job[Mqtt].rule \in Nat
        /\ job[Mqtt].prior.ruleIndex \in Nat
    BY <1>1, <1>3, ConfigAssumption DEF Job, ReviewState, RuleIds
  <2>2. CASE pc[Mqtt] = "send"
    BY <1>3, <2>1, <2>2 DEF Turn, Refines, Delivered
  <2>3. CASE pc[Mqtt] = "edit"
    BY <1>3, <2>1, <2>3 DEF Turn, Refines, Edited, ReviewState
  <2> QED BY <1>1, <2>2, <2>3
<1> HIDE DEF st
<1>4. \A b \in Backends, q \in Reviews :
        reviews'[b][q] = IF b = Serving /\ q = r THEN st ELSE reviews[b][q]
  BY <1>1, ServingWritten
<1>5. Kept
  <2>1. \A b \in Backends, q \in Reviews : reviews[b][q] # None => reviews[b][q].ruleIndex \in Nat
    BY ConfigAssumption DEF TypeOK, ReviewState, RuleIds
  <2> QED BY <1>2, <1>3, <1>4, <2>1 DEF Kept
<1>6. pc'[Mqtt] \in {"index", "idle"}
  BY DEF SaveReview, HasResult, Result, Done, Goto, TypeOK, Procs
<1>7. MemorySpare'
  BY <1>1, <1>4 DEF Turn, MemorySpare, Serving, Backends
<1> QED BY <1>5, <1>6, <1>7 DEF Turn, Held, Refines

LEMMA TurnNext ==
  ASSUME NoHoldoffs, Alone, TypeOK, Locals, Faultless, Turn, [Next]_vars
  PROVE  Turn' /\ Kept
<1>1. ASSUME NEW m \in Message, NEW w \in SUBSET Backends, IgnoreReview(m, w) PROVE Turn' /\ Kept
  BY <1>1, TurnSame DEF IgnoreReview, Receive
<1>2. ASSUME NEW m \in Message, NEW w \in SUBSET Backends, HandleGenAI(m, w) PROVE Turn' /\ Kept
  BY <1>2, TurnGo DEF HandleGenAI, Receive, Held, Refines
<1>3. ASSUME NEW m \in Message, NEW w \in SUBSET Backends, HandlePhase(m, w) PROVE Turn' /\ Kept
  BY <1>3, TurnGo DEF HandlePhase, Receive, Held, Refines
<1>4. ASSUME NEW r \in HasEvent, NEW d \in Descriptions, NEW v \in SUBSET Backends,
               NEW w \in SUBSET Backends, HandleDescription(r, d, v, w)
      PROVE  Turn' /\ Kept
  BY <1>4, TurnSame, TurnGo DEF HandleDescription, Held, Refines
<1>5. ASSUME NEW v \in SUBSET Backends, NEW w \in SUBSET Backends, LateDescription(v, w)
      PROVE  Turn' /\ Kept
  <2> DEFINE r  == job[Mqtt].review
             st == reviews[Answer(w)][r]
             j  == [job[Mqtt] EXCEPT !.phase = "description", !.prior = st,
                                     !.tag = st.tag, !.rule = st.ruleIndex]
  <2>1. Reached(w) /\ UNCHANGED <<reviews, canceled>>
    BY <1>5, PaidBothFaultless DEF LateDescription, store
  <2>2. st = reviews[Serving][r] /\ Mqtt \in Procs /\ job[Mqtt] \in Job
    BY <2>1, ServingAnswers DEF TypeOK, Procs
  <2>3. CASE Done(Mqtt)
    BY <2>1, <2>3, TurnDone
  <2>4. CASE st # None /\ Goto(Mqtt, "rerender") /\ Become(Mqtt, j)
    <3>1. st \in ReviewState /\ st.ruleIndex \in Nat
      BY <2>2, <2>4, ServingIsBackend, ConfigAssumption DEF TypeOK, Job, ReviewState, RuleIds
    <3>2. j.review = r /\ j.prior = st /\ j.rule = st.ruleIndex
      BY <2>2 DEF Job
    <3> HIDE DEF j, st
    <3>3. Held("rerender", j) /\ Refines("rerender", j)
      BY <2>2, <3>1, <3>2 DEF Held, HoldsState, Refines
    <3> QED BY <2>1, <2>4, <3>3, TurnGo
  <2> QED BY <1>5, <2>3, <2>4 DEF LateDescription
<1>6. ASSUME Unmatched(Mqtt) PROVE Turn' /\ Kept
  BY <1>6, TurnDone DEF Unmatched, store
<1>7. ASSUME NEW i \in RuleIds, MatchNow(Mqtt, i) PROVE Turn' /\ Kept
  BY <1>7, TurnGo DEF MatchNow, store, Held, Refines
<1>8. ASSUME NEW w \in SUBSET Backends, NotNotified(Mqtt, w) PROVE Turn' /\ Kept
  <2> DEFINE j == [job[Mqtt] EXCEPT !.tag = "fn"]
  <2>1. /\ Reached(w) /\ reviews[Serving][job[Mqtt].review] = None
        /\ UNCHANGED <<reviews, canceled>> /\ pc[Mqtt] = "load"
    BY <1>8, ServingAnswers DEF NotNotified, Loads, Loaded, store
  <2>2. job[Mqtt] \in Job /\ job[Mqtt].prior = None
    BY <2>1 DEF TypeOK, Procs, Locals, LocalOK
  <2>3. j.review = job[Mqtt].review /\ j.prior = None
    BY <2>2 DEF Job
  <2> HIDE DEF j
  <2>4. Held("cooldown", j) /\ Refines("cooldown", j)
    BY <2>1, <2>3 DEF Held, HoldsState, Refines
  <2>5. CASE Done(Mqtt)
    BY <2>1, <2>5, TurnDone
  <2>6. CASE Goto(Mqtt, "cooldown") /\ Become(Mqtt, j)
    BY <2>1, <2>4, <2>6, TurnGo
  <2> QED BY <1>8, <2>5, <2>6 DEF NotNotified, j
<1>9. ASSUME NEW w \in SUBSET Backends, Escalate(Mqtt, w) PROVE Turn' /\ Kept
  <2> DEFINE j == [job[Mqtt] EXCEPT !.prior = Loaded(Mqtt, w), !.tag = "fn-esc"]
  <2>1. /\ Reached(w) /\ Loaded(Mqtt, w) = reviews[Serving][job[Mqtt].review]
        /\ Become(Mqtt, j) /\ UNCHANGED <<reviews, canceled>>
    BY <1>9, ServingAnswers DEF Escalate, Loads, Loaded, store
  <2>2. job[Mqtt] \in Job /\ Mqtt \in Procs
    BY DEF TypeOK, Procs
  <2>3. /\ j.review = job[Mqtt].review /\ j.prior = Loaded(Mqtt, w)
        /\ j.rule = job[Mqtt].rule
    BY <2>2 DEF Job
  <2> HIDE DEF j
  <2>4. Held("render", j) /\ Refines("render", j)
    BY <1>9, <2>1, <2>3 DEF Escalate, Escalates, Outranks, Held, HoldsState, Refines
  <2> QED BY <1>9, <2>1, <2>4, TurnGo DEF Escalate
<1>10. ASSUME NEW w \in SUBSET Backends, RefreshUnderBetterRule(Mqtt, w) PROVE Turn' /\ Kept
  <2> DEFINE j == [job[Mqtt] EXCEPT !.prior = Loaded(Mqtt, w), !.tag = Loaded(Mqtt, w).tag]
  <2>1. /\ Reached(w) /\ Loaded(Mqtt, w) = reviews[Serving][job[Mqtt].review]
        /\ Become(Mqtt, j) /\ UNCHANGED <<reviews, canceled>>
    BY <1>10, ServingAnswers DEF RefreshUnderBetterRule, Loads, Loaded, store
  <2>2. job[Mqtt] \in Job /\ Mqtt \in Procs
    BY DEF TypeOK, Procs
  <2>3. /\ j.review = job[Mqtt].review /\ j.prior = Loaded(Mqtt, w)
        /\ j.rule = job[Mqtt].rule
    BY <2>2 DEF Job
  <2> HIDE DEF j
  <2>4. Held("rerender", j) /\ Refines("rerender", j)
    <3>1. job[Mqtt].rule < Loaded(Mqtt, w).ruleIndex
      BY <1>10 DEF RefreshUnderBetterRule, Outranks
    <3>2. job[Mqtt].rule \in Nat /\ Loaded(Mqtt, w).ruleIndex \in Nat
      BY <1>10, <2>2, LoadedType, ConfigAssumption
         DEF RefreshUnderBetterRule, Job, ReviewState, RuleIds
    <3> QED BY <2>1, <2>3, <3>1, <3>2 DEF Held, HoldsState, Refines
  <2> QED BY <1>10, <2>1, <2>4, TurnGo DEF RefreshUnderBetterRule
<1>11. ASSUME NEW w \in SUBSET Backends, SendUpdate(Mqtt, w) PROVE Turn' /\ Kept
  <2> DEFINE j == [job[Mqtt] EXCEPT !.prior = Loaded(Mqtt, w), !.tag = Loaded(Mqtt, w).tag,
                                   !.rule = Loaded(Mqtt, w).ruleIndex]
  <2>1. /\ Reached(w) /\ Loaded(Mqtt, w) = reviews[Serving][job[Mqtt].review]
        /\ Become(Mqtt, j) /\ UNCHANGED <<reviews, canceled>>
    BY <1>11, ServingAnswers DEF SendUpdate, Loads, Loaded, store
  <2>2. job[Mqtt] \in Job /\ Mqtt \in Procs
    BY DEF TypeOK, Procs
  <2>3. /\ j.review = job[Mqtt].review /\ j.prior = Loaded(Mqtt, w)
        /\ j.rule = Loaded(Mqtt, w).ruleIndex
    BY <2>2 DEF Job
  <2> HIDE DEF j
  <2>4. Held("rerender", j) /\ Refines("rerender", j)
    <3>1. Loaded(Mqtt, w).ruleIndex \in Nat
      BY <1>11, <2>2, LoadedType, ConfigAssumption DEF SendUpdate, ReviewState, RuleIds
    <3> QED BY <2>1, <2>3, <3>1 DEF Held, HoldsState, Refines
  <2> QED BY <1>11, <2>1, <2>4, TurnGo DEF SendUpdate
<1>12. ASSUME NEW w \in SUBSET Backends, AlreadyNotified(Mqtt, w) PROVE Turn' /\ Kept
  BY <1>12, TurnDone DEF AlreadyNotified, Loads, store
<1>13. ASSUME SkipCooldown(Mqtt) PROVE Turn' /\ Kept
  <2>1. pc[Mqtt] = "cooldown" /\ job[Mqtt].prior = None
    BY <1>13 DEF SkipCooldown, Locals, LocalOK, Procs
  <2>2. Held("render", job[Mqtt]) /\ Refines("render", job[Mqtt])
    BY <2>1 DEF Turn, Held, Refines
  <2> QED BY <1>13, <2>2, TurnGoto DEF SkipCooldown, store
<1>14. ASSUME NothingDelivered(Mqtt) PROVE Turn' /\ Kept
  BY <1>14, TurnDone DEF NothingDelivered, store
<1>15. ASSUME NEW w \in SUBSET Backends, OpenCooldown(Mqtt, w) PROVE Turn' /\ Kept
  <2>1. pc[Mqtt] = "cooldown" /\ job[Mqtt].prior = None
    BY <1>15 DEF OpenCooldown, TryCooldown, Locals, LocalOK, Procs
  <2>2. Held("render", job[Mqtt]) /\ Refines("render", job[Mqtt])
    BY <2>1 DEF Turn, Held, Refines
  <2> QED BY <1>15, <2>2, TurnGoto DEF OpenCooldown, TryCooldown
<1>16. ASSUME NEW w \in SUBSET Backends, SuppressedByCooldown(Mqtt, w) PROVE Turn' /\ Kept
  BY <1>16, TurnDone DEF SuppressedByCooldown, TryCooldown
<1>17. ASSUME NEW w \in SUBSET Backends, Render(Mqtt, w) PROVE Turn' /\ Kept
  <2>1. PICK to, text :
          Become(Mqtt, [job[Mqtt] EXCEPT !.text = text, !.sent = {},
                                         !.todo = [target : to, tag : {SameTag}]])
    BY <1>17 DEF Render
  <2> DEFINE j == [job[Mqtt] EXCEPT !.text = text, !.sent = {},
                                    !.todo = [target : to, tag : {SameTag}]]
  <2>2. j.prior = job[Mqtt].prior /\ j.review = job[Mqtt].review /\ j.rule = job[Mqtt].rule
    BY DEF TypeOK, Job, Procs
  <2> HIDE DEF j
  <2>3. pc[Mqtt] = "render" /\ Goto(Mqtt, "send") /\ UNCHANGED <<reviews, canceled>>
    BY <1>17 DEF Render, store
  <2>4. Held("send", j) /\ Refines("send", j)
    BY <2>2, <2>3 DEF Turn, Held, HoldsState, Refines
  <2> QED BY <2>1, <2>3, <2>4, TurnGo DEF j
<1>18. ASSUME NEW w \in SUBSET Backends, Rerender(Mqtt, w) PROVE Turn' /\ Kept
  <2>1. PICK text :
          Become(Mqtt, [job[Mqtt] EXCEPT !.text = text, !.sent = {}, !.todo = Originals(Mqtt)])
    BY <1>18 DEF Rerender
  <2> DEFINE j == [job[Mqtt] EXCEPT !.text = text, !.sent = {}, !.todo = Originals(Mqtt)]
  <2>2. j.prior = job[Mqtt].prior /\ j.review = job[Mqtt].review /\ j.rule = job[Mqtt].rule
    BY DEF TypeOK, Job, Procs
  <2> HIDE DEF j
  <2>3. pc[Mqtt] = "rerender" /\ Goto(Mqtt, "edit") /\ UNCHANGED <<reviews, canceled>>
    BY <1>18 DEF Rerender, store
  <2>4. Held("edit", j) /\ Refines("edit", j)
    BY <2>2, <2>3 DEF Turn, Held, HoldsState, Refines
  <2> QED BY <2>1, <2>3, <2>4, TurnGo DEF j
<1>19. ASSUME NEW d \in Delivery, NEW o \in {"ok", "lost", "failed"}, Push(Mqtt, d, o)
      PROVE  Turn' /\ Kept
  <2> DEFINE j == [job[Mqtt] EXCEPT !.todo = @ \ {d}, !.sent = Confirmed(Mqtt, d, o)]
  <2>1. j.prior = job[Mqtt].prior /\ j.review = job[Mqtt].review /\ j.rule = job[Mqtt].rule
    BY DEF TypeOK, Job, Procs
  <2>2. /\ pc[Mqtt] = "send" /\ Become(Mqtt, j) /\ UNCHANGED <<reviews, canceled>>
        /\ Goto(Mqtt, "send")
    BY <1>19 DEF Push, store, Goto, TypeOK
  <2> HIDE DEF j
  <2>3. Held("send", j) /\ Refines("send", j)
    BY <2>1, <2>2 DEF Turn, Held, HoldsState, Refines
  <2> QED BY <2>2, <2>3, TurnGo
<1>20. ASSUME NEW d \in Delivery, NEW o \in {"ok", "lost", "failed"}, Edit(Mqtt, d, o)
      PROVE  Turn' /\ Kept
  <2> DEFINE j == [job[Mqtt] EXCEPT !.todo = @ \ {d}]
  <2>1. j.prior = job[Mqtt].prior /\ j.review = job[Mqtt].review /\ j.rule = job[Mqtt].rule
    BY DEF TypeOK, Job, Procs
  <2>2. /\ pc[Mqtt] = "edit" /\ Become(Mqtt, j) /\ UNCHANGED <<reviews, canceled>>
        /\ Goto(Mqtt, "edit")
    BY <1>20 DEF Edit, store, Goto, TypeOK
  <2> HIDE DEF j
  <2>3. Held("edit", j) /\ Refines("edit", j)
    BY <2>1, <2>2 DEF Turn, Held, HoldsState, Refines
  <2> QED BY <2>2, <2>3, TurnGo
<1>21. ASSUME NEW w \in SUBSET Backends, ReleaseCooldown(Mqtt, w) PROVE Turn' /\ Kept
  BY <1>21, TurnDone DEF ReleaseCooldown
<1>22. ASSUME NEW w \in SUBSET Backends, SaveReview(Mqtt, w) PROVE Turn' /\ Kept
  BY <1>22, TurnSave
<1>23. ASSUME NEW w \in SUBSET Backends, IndexEvent(Mqtt, w) PROVE Turn' /\ Kept
  BY <1>23, TurnDone DEF IndexEvent
<1>24. ASSUME NEW b \in Backends, ExpireSeen(b) PROVE Turn' /\ Kept
  BY <1>24, TurnSame DEF ExpireSeen, Expiry
<1>25. ASSUME NEW b \in Backends, ExpireCooldown(b) PROVE Turn' /\ Kept
  BY <1>25, TurnSame DEF ExpireCooldown, Expiry
<1>27. ASSUME NEW b \in Backends, ExpireEvent(b) PROVE Turn' /\ Kept
  BY <1>27, TurnSame DEF ExpireEvent, Expiry
<1>28. ASSUME NEW b \in Backends, ExpireDescription(b) PROVE Turn' /\ Kept
  BY <1>28, TurnSame DEF ExpireDescription, Expiry
<1>26. ASSUME NEW b \in Backends, ExpireReview(b) PROVE Turn' /\ Kept
  <2>1. /\ UNCHANGED <<pc, job, canceled>> /\ "review" \in Expirable
        /\ \A c \in Backends, q \in Reviews : reviews'[c][q] \in {reviews[c][q], None}
    BY <1>26 DEF ExpireReview, Expiry, TypeOK
  <2>2. job[Mqtt].review \in Reviews
    BY DEF TypeOK, Procs, Job
  <2>3. Kept
    BY <2>1, KeptSame
  <2>4. Turn'
    BY <2>1, <2>2, ServingIsBackend
       DEF Turn, MemorySpare, Held, HoldsState, Refines, Serving, Forgetful, Backends
  <2> QED BY <2>3, <2>4
<1>29. ASSUME Shutdown PROVE Turn' /\ Kept
  <2>1. /\ UNCHANGED <<pc, job, reviews>> /\ canceled' = TRUE /\ ~canceled
    BY <1>29 DEF Shutdown, store
  <2>2. job[Mqtt].review \in Reviews
    BY DEF TypeOK, Procs, Job
  <2>3. Turn'
    BY <2>1, <2>2 DEF Turn, MemorySpare, Held, HoldsState, Refines, Serving, Forgetful
  <2> QED BY <2>1, <2>3, KeptSame
<1>30. ASSUME Restart PROVE Turn' /\ Kept
  <2>1. /\ pc'[Mqtt] = "idle" /\ job'[Mqtt] = Blank
        /\ \A b \in Backends, r \in Reviews :
             reviews'[b][r] = IF b = "memory" \/ ~HasPrimary THEN None ELSE reviews[b][r]
    BY <1>30 DEF Restart, Survives, Procs
  <2>2. Turn'
    BY <2>1 DEF Turn, MemorySpare, Held, Refines, Backends
  <2> QED BY <2>1, <2>2, KeptSame
<1>31. CASE UNCHANGED vars
  BY <1>31, TurnSame DEF vars, store
<1>32. AloneStep
  BY AloneNext
<1> QED
  BY <1>32, <1>1, <1>2, <1>3, <1>4, <1>5, <1>6, <1>7, <1>8, <1>9, <1>10, <1>11, <1>12, <1>13,
     <1>14, <1>15, <1>16, <1>17, <1>18, <1>19, <1>20, <1>21, <1>22, <1>23, <1>24, <1>25,
     <1>26, <1>27, <1>28, <1>29, <1>30, <1>31 DEF AloneStep

\* What is remembered of a review never falls to a lower-priority rule and never loses
\* "critical", whatever expires, whichever sends fail and however often the service
\* is stopped: where no rule has a holdoff, while no operation on the primary fails.
THEOREM NothingDemoted ==
  ASSUME NoHoldoffs, MaxFaults = 0
  PROVE  Spec => NeverDemoted
<1>1. Spec => [](TypeOK /\ Locals)
  BY TypesAndLocals
<1>2. Init => Faultless /\ Alone /\ Turn
  BY BlankType DEF Init, Faultless, Alone, Turn, MemorySpare, Held, Refines, Procs, Backends
<1>3. TypeOK /\ Locals /\ Faultless /\ Alone /\ Turn /\ [Next]_vars =>
        Faultless' /\ Alone' /\ Turn' /\ Kept
  BY FrugalNext, AloneKept, TurnNext DEF Frugal, Faultless
<1>4. Kept => [Kept]_vars
  OBVIOUS
<1> QED BY <1>1, <1>2, <1>3, PTL DEF Spec, NeverDemoted, Kept

-----------------------------------------------------------------------------
(***************************************************************************)
(* Whose push suppresses a review, where no rule has a holdoff.            *)
(***************************************************************************)
\* The dispatch goroutine at l with locals j is sending in a window it opened.
Opening(l, j) == l \in {"render", "send"} /\ j.prior = None /\ Rules[j.rule].cooldown

\* Every open window was opened for a review that is on record and rang, or for the
\* one that is being sent.
OpenedFor(k, o, l, j) ==
  \/ reviews[Main][o] # None /\ Rang(o)
  \/ Opening(l, j) /\ o = j.review /\ k = CooldownKey(j.rule, j.review)
Openers == \A k \in CooldownKeys : cooling[Main][k] # None =>
             OpenedFor(k, cooling[Main][k], pc[Mqtt], job[Mqtt])
\* Whoever confirmed a push rang.
Pushed(l, j) == l = "send" /\ j.sent # {} => Rang(j.review)
Openings == Openers /\ Pushed(pc[Mqtt], job[Mqtt])

LEMMA OpeningsMove ==
  ASSUME TypeOK, Openings, UNCHANGED <<reviews, rings>>,
         \A k \in CooldownKeys : cooling'[Main][k] \in {cooling[Main][k], None},
         Opening(pc[Mqtt], job[Mqtt]) =>
           /\ Opening(pc'[Mqtt], job'[Mqtt])
           /\ job'[Mqtt].review = job[Mqtt].review /\ job'[Mqtt].rule = job[Mqtt].rule,
         Pushed(pc'[Mqtt], job'[Mqtt])
  PROVE  Openings'
<1>1. Openers'
  BY DEF Openings, Openers, OpenedFor, Rang, Opening, CooldownKey, Main
<1>2. Pushed(pc[Mqtt], job[Mqtt])'
  BY DEF Pushed, Rang
<1> QED BY <1>1, <1>2 DEF Openings

LEMMA OpeningsSame ==
  ASSUME TypeOK, Openings, UNCHANGED <<reviews, rings, pc, job, cooling>>
  PROVE  Openings'
  BY OpeningsMove DEF Openings

LEMMA OpeningsGo ==
  ASSUME TypeOK, Openings, UNCHANGED <<reviews, rings, cooling>>, NEW l, NEW j,
         Goto(Mqtt, l), Become(Mqtt, j),
         Opening(pc[Mqtt], job[Mqtt]) =>
           Opening(l, j) /\ j.review = job[Mqtt].review /\ j.rule = job[Mqtt].rule,
         Pushed(l, j)
  PROVE  Openings'
<1>1. pc'[Mqtt] = l /\ job'[Mqtt] = j
  BY DEF Goto, Become, TypeOK, Procs
<1> QED BY <1>1, OpeningsMove

LEMMA OpeningsDone ==
  ASSUME TypeOK, Openings, UNCHANGED <<reviews, rings, cooling>>, Done(Mqtt),
         ~Opening(pc[Mqtt], job[Mqtt])
  PROVE  Openings'
  BY OpeningsGo DEF Done, Pushed

\* A step from where nothing is sent to where nothing is.
LEMMA OpeningsQuiet ==
  ASSUME TypeOK, Openings, UNCHANGED <<reviews, rings, cooling>>,
         pc[Mqtt] \notin {"render", "send"}, pc'[Mqtt] # "send"
  PROVE  Openings'
  BY OpeningsMove DEF Opening, Pushed

LEMMA OpeningsOpen ==
  ASSUME TypeOK, Locals, Undisturbed, Openings, NEW w \in SUBSET Backends, OpenCooldown(Mqtt, w)
  PROVE  Openings'
<1> DEFINE c == KeyOf(Mqtt)
           v == [b \in Backends |-> [cooling[b] EXCEPT ![c] = IF @ = None THEN job[Mqtt].review ELSE @]]
<1>1. /\ job[Mqtt] \in Job /\ c \in CooldownKeys /\ Main \in Backends
      /\ pc[Mqtt] = "cooldown" /\ pc'[Mqtt] = "render" /\ job' = job
      /\ UNCHANGED <<reviews, rings>> /\ Rules[job[Mqtt].rule].cooldown
      /\ job[Mqtt].prior = None
  <2>1. /\ job[Mqtt] \in Job /\ pc[Mqtt] = "cooldown"
        /\ pc'[Mqtt] = "render" /\ job' = job
        /\ UNCHANGED <<reviews, rings>> /\ Rules[job[Mqtt].rule].cooldown
    BY DEF OpenCooldown, TryCooldown, Claimed, Goto, TypeOK, Procs, world
  <2>2. c \in CooldownKeys
    BY <2>1 DEF KeyOf, CooldownKeys, Job
  <2>3. job[Mqtt].prior = None
    BY <2>1 DEF Locals, LocalOK, Procs
  <2> QED BY <2>1, <2>2, <2>3, ServingIsBackend
<1>2. w = {Main} /\ cooling[Main][c] = None /\ cooling' = Applied(cooling, w, v)
  BY MainAnswers DEF OpenCooldown, TryCooldown, Claimed
<1>3. cooling'[Main] = [cooling[Main] EXCEPT ![c] = IF @ = None THEN job[Mqtt].review ELSE @]
  BY <1>1, <1>2 DEF Applied
<1>4. CooldownKey(job[Mqtt].rule, job[Mqtt].review) = c
  BY DEF KeyOf
<1> HIDE DEF c
<1>5. \A k \in CooldownKeys :
        cooling'[Main][k] = IF k = c THEN job[Mqtt].review ELSE cooling[Main][k]
  BY <1>1, <1>2, <1>3 DEF TypeOK
<1>6. Openers'
  BY <1>1, <1>4, <1>5 DEF Openings, Openers, OpenedFor, Opening, Rang, Main
<1> QED BY <1>1, <1>6 DEF Openings, Pushed

LEMMA OpeningsRelease ==
  ASSUME TypeOK, Undisturbed, Openings, NEW w \in SUBSET Backends, ReleaseCooldown(Mqtt, w)
  PROVE  Openings'
<1> DEFINE c == KeyOf(Mqtt)
<1>1. /\ Reached(w) /\ cooling' = Written(cooling, w, c, None)
      /\ UNCHANGED <<reviews, rings>> /\ pc'[Mqtt] = "idle" /\ Main \in Backends
  BY ServingIsBackend DEF ReleaseCooldown, Done, Goto, TypeOK, Procs, world
<1>2. CooldownKey(job[Mqtt].rule, job[Mqtt].review) = c
  BY DEF KeyOf
<1> HIDE DEF c
<1>3. cooling'[Main] = [cooling[Main] EXCEPT ![c] = None]
  BY <1>1, MainAnswers DEF Written, Applied
<1>4. \A k \in CooldownKeys : cooling'[Main][k] = IF k = c THEN None ELSE cooling[Main][k]
  BY <1>1, <1>3 DEF TypeOK
<1>5. Openers'
  BY <1>1, <1>2, <1>4 DEF Openings, Openers, OpenedFor, Rang, Main
<1> QED BY <1>1, <1>5 DEF Openings, Pushed

\* Where a save writes, and what it leaves alone.
LEMMA SavedInMain ==
  ASSUME TypeOK, Locals, Undisturbed, NEW w \in SUBSET Backends, SaveReview(Mqtt, w)
  PROVE  LET st == IF pc[Mqtt] = "send" THEN Delivered(Mqtt) ELSE Edited(Mqtt) IN
         /\ st \in ReviewState /\ st # None
         /\ \A q \in Reviews :
              reviews'[Main][q] = IF q = job[Mqtt].review THEN st ELSE reviews[Main][q]
         /\ pc'[Mqtt] \in {"index", "idle"} /\ job[Mqtt].review \in Reviews
         /\ pc'[Mqtt] = "index" <=> job[Mqtt].review \in HasEvent
         /\ job'[Mqtt] = IF pc'[Mqtt] = "index" THEN [Blank EXCEPT !.review = job[Mqtt].review]
                                                ELSE Blank
         /\ UNCHANGED <<seen, cooling, events, descs, phone, rings, life, last>>
<1> DEFINE st == IF pc[Mqtt] = "send" THEN Delivered(Mqtt) ELSE Edited(Mqtt)
<1>1. st \in ReviewState /\ st # None
  BY SavedType, ModelAssumption DEF SaveReview, HasResult, Result, Procs
<1>2. Faultless /\ Serving = Main /\ Main \in Backends /\ job[Mqtt].review \in Reviews
  BY ServingIsBackend DEF Undisturbed, Serving, Main, TypeOK, Procs, Job
<1>3. Reached(w) /\ reviews' = Written(reviews, w, job[Mqtt].review, st)
  BY DEF SaveReview, HasResult, Result
<1> HIDE DEF st
<1>4. \A q \in Reviews :
        reviews'[Main][q] = IF q = job[Mqtt].review THEN st ELSE reviews[Main][q]
  BY <1>2, <1>3, ServingWritten
<1> QED
  BY <1>1, <1>2, <1>4 DEF SaveReview, HasResult, Result, Done, Goto, Become, TypeOK, Procs, world, st

LEMMA OpeningsSave ==
  ASSUME TypeOK, Locals, Undisturbed, Openings, NEW w \in SUBSET Backends, SaveReview(Mqtt, w)
  PROVE  Openings'
<1>1. /\ UNCHANGED <<cooling, rings>> /\ pc'[Mqtt] # "send"
      /\ \A q \in Reviews : reviews[Main][q] # None => reviews'[Main][q] # None
      /\ job[Mqtt].review \in Reviews /\ reviews'[Main][job[Mqtt].review] # None
  BY SavedInMain
<1>2. Opening(pc[Mqtt], job[Mqtt]) => Rang(job[Mqtt].review)
  BY DEF SaveReview, HasResult, Result, Openings, Pushed, Opening
<1>3. \A k \in CooldownKeys : cooling[Main][k] # None => cooling[Main][k] \in Reviews
  BY ServingIsBackend DEF TypeOK
<1>4. Openers'
  BY <1>1, <1>2, <1>3 DEF Openings, Openers, OpenedFor, Rang, Main
<1> QED BY <1>1, <1>4 DEF Openings, Pushed

LEMMA OpeningsPush ==
  ASSUME TypeOK, Openings, NEW d \in Delivery, NEW o \in {"ok", "lost", "failed"},
         Push(Mqtt, d, o)
  PROVE  Openings'
<1> DEFINE r == job[Mqtt].review
           j == [job[Mqtt] EXCEPT !.todo = @ \ {d}, !.sent = Confirmed(Mqtt, d, o)]
<1>1. /\ r \in Reviews /\ d.target \in Targets /\ job[Mqtt] \in Job
      /\ UNCHANGED <<cooling, reviews, pc>> /\ pc[Mqtt] = "send" /\ Become(Mqtt, j)
  BY DEF Push, store, TypeOK, Job, Delivery, Procs
<1>2. /\ j.prior = job[Mqtt].prior /\ j.review = r /\ j.rule = job[Mqtt].rule
      /\ j.sent = Confirmed(Mqtt, d, o)
  BY <1>1 DEF Job
<1>3. /\ \A q \in Reviews, t \in Targets : rings[q][t] > 0 => rings'[q][t] > 0
      /\ o # "failed" => rings'[r][d.target] > 0
  <2>1. CASE o = "failed"
    BY <2>1 DEF Push
  <2>2. CASE o # "failed"
    <3>1. rings' = [rings EXCEPT ![r][d.target] = @ + 1]
      BY <2>2 DEF Push
    <3> HIDE DEF r
    <3>2. \A q \in Reviews, t \in Targets :
            rings'[q][t] = IF q = r /\ t = d.target THEN rings[q][t] + 1 ELSE rings[q][t]
      BY <1>1, <3>1 DEF TypeOK
    <3>3. \A q \in Reviews, t \in Targets : rings[q][t] \in Nat
      BY DEF TypeOK
    <3> QED BY <1>1, <3>2, <3>3
  <2> QED BY <2>1, <2>2
<1> HIDE DEF j
<1>4. job'[Mqtt] = j
  BY <1>1 DEF Become, TypeOK, Procs
<1>5. \A k \in CooldownKeys : cooling[Main][k] # None => cooling[Main][k] \in Reviews
  BY ServingIsBackend DEF TypeOK
<1>6. Openers'
  BY <1>1, <1>2, <1>3, <1>4, <1>5 DEF Openings, Openers, OpenedFor, Opening, Rang, Main
<1>7. Pushed(pc[Mqtt], job[Mqtt])'
  <2>1. job[Mqtt].sent # {} => \E t \in Targets : rings[r][t] > 0
    BY <1>1 DEF Openings, Pushed, Rang
  <2>2. j.sent # {} => \E t \in Targets : rings'[r][t] > 0
    BY <1>1, <1>2, <1>3, <2>1 DEF Confirmed
  <2> QED BY <1>2, <1>4, <2>2 DEF Pushed, Rang
<1> QED BY <1>6, <1>7 DEF Openings

LEMMA OpeningsNext ==
  ASSUME NoHoldoffs, Alone, TypeOK, Locals, Undisturbed, "review" \notin Expirable,
         Openings, [Next]_vars
  PROVE  Openings'
<1>1. ASSUME NEW m \in Message, NEW w \in SUBSET Backends, IgnoreReview(m, w) PROVE Openings'
  BY <1>1, OpeningsSame DEF IgnoreReview, Receive, world
<1>2. ASSUME NEW m \in Message, NEW w \in SUBSET Backends, HandleGenAI(m, w) PROVE Openings'
  BY <1>2, OpeningsQuiet DEF HandleGenAI, Receive, Goto, TypeOK, Procs, world, store
<1>3. ASSUME NEW m \in Message, NEW w \in SUBSET Backends, HandlePhase(m, w) PROVE Openings'
  BY <1>3, OpeningsQuiet DEF HandlePhase, Receive, Goto, TypeOK, Procs, world, store
<1>4. ASSUME NEW r \in HasEvent, NEW d \in Descriptions, NEW v \in SUBSET Backends,
            NEW w \in SUBSET Backends, HandleDescription(r, d, v, w)
      PROVE  Openings'
  BY <1>4, OpeningsQuiet DEF HandleDescription, Goto, TypeOK, Procs, world, store
<1>5. ASSUME NEW v \in SUBSET Backends, NEW w \in SUBSET Backends, LateDescription(v, w)
      PROVE  Openings'
  BY <1>5, OpeningsQuiet DEF LateDescription, Done, Goto, TypeOK, Procs, world, store
<1>6. ASSUME Unmatched(Mqtt) PROVE Openings'
  BY <1>6, OpeningsQuiet DEF Unmatched, Done, Goto, TypeOK, Procs, world, store
<1>7. ASSUME NEW i \in RuleIds, MatchNow(Mqtt, i) PROVE Openings'
  BY <1>7, OpeningsQuiet DEF MatchNow, Goto, TypeOK, Procs, world, store
<1>8. ASSUME NEW w \in SUBSET Backends, NotNotified(Mqtt, w) PROVE Openings'
  BY <1>8, OpeningsQuiet DEF NotNotified, Loads, Done, Goto, TypeOK, Procs, world, store
<1>9. ASSUME NEW w \in SUBSET Backends, Escalate(Mqtt, w) PROVE Openings'
  BY <1>9, OpeningsQuiet DEF Escalate, Loads, Goto, TypeOK, Procs, world, store
<1>10. ASSUME NEW w \in SUBSET Backends, RefreshUnderBetterRule(Mqtt, w) PROVE Openings'
  BY <1>10, OpeningsQuiet DEF RefreshUnderBetterRule, Loads, Goto, TypeOK, Procs, world, store
<1>11. ASSUME NEW w \in SUBSET Backends, SendUpdate(Mqtt, w) PROVE Openings'
  BY <1>11, OpeningsQuiet DEF SendUpdate, Loads, Goto, TypeOK, Procs, world, store
<1>12. ASSUME NEW w \in SUBSET Backends, AlreadyNotified(Mqtt, w) PROVE Openings'
  BY <1>12, OpeningsQuiet DEF AlreadyNotified, Loads, Done, Goto, TypeOK, Procs, world, store
<1>13. ASSUME SkipCooldown(Mqtt) PROVE Openings'
  BY <1>13, OpeningsQuiet DEF SkipCooldown, Goto, TypeOK, Procs, world, store
<1>14. ASSUME NothingDelivered(Mqtt) PROVE Openings'
  BY <1>14, OpeningsDone DEF NothingDelivered, Cooling, Escalating, Opening, world, store
<1>15. ASSUME NEW w \in SUBSET Backends, OpenCooldown(Mqtt, w) PROVE Openings'
  BY <1>15, OpeningsOpen
<1>16. ASSUME NEW w \in SUBSET Backends, SuppressedByCooldown(Mqtt, w) PROVE Openings'
  <2>1. cooling' = cooling
    BY <1>16, StillOpen DEF SuppressedByCooldown, Procs
  <2> QED BY <1>16, <2>1, OpeningsQuiet DEF SuppressedByCooldown, TryCooldown, Done, Goto,
             TypeOK, Procs, world
<1>17. ASSUME NEW w \in SUBSET Backends, Render(Mqtt, w) PROVE Openings'
  <2>1. PICK to, text :
          Become(Mqtt, [job[Mqtt] EXCEPT !.text = text, !.sent = {},
                                         !.todo = [target : to, tag : {SameTag}]])
    BY <1>17 DEF Render
  <2> DEFINE j == [job[Mqtt] EXCEPT !.text = text, !.sent = {},
                                    !.todo = [target : to, tag : {SameTag}]]
  <2>2. /\ j.prior = job[Mqtt].prior /\ j.review = job[Mqtt].review /\ j.rule = job[Mqtt].rule
        /\ j.sent = {}
    BY DEF TypeOK, Job, Procs
  <2> HIDE DEF j
  <2>3. Goto(Mqtt, "send") /\ UNCHANGED <<reviews, rings, cooling>>
    BY <1>17 DEF Render, store, world
  <2> QED BY <2>1, <2>2, <2>3, OpeningsGo DEF j, Opening, Pushed
<1>18. ASSUME NEW w \in SUBSET Backends, Rerender(Mqtt, w) PROVE Openings'
  BY <1>18, OpeningsQuiet DEF Rerender, Goto, TypeOK, Procs, world, store
<1>19. ASSUME NEW d \in Delivery, NEW o \in {"ok", "lost", "failed"}, Push(Mqtt, d, o)
      PROVE  Openings'
  BY <1>19, OpeningsPush
<1>20. ASSUME NEW d \in Delivery, NEW o \in {"ok", "lost", "failed"}, Edit(Mqtt, d, o)
      PROVE  Openings'
  BY <1>20, OpeningsQuiet DEF Edit, store
<1>21. ASSUME NEW w \in SUBSET Backends, ReleaseCooldown(Mqtt, w) PROVE Openings'
  BY <1>21, OpeningsRelease
<1>22. ASSUME NEW w \in SUBSET Backends, SaveReview(Mqtt, w) PROVE Openings'
  BY <1>22, OpeningsSave
<1>23. ASSUME NEW w \in SUBSET Backends, IndexEvent(Mqtt, w) PROVE Openings'
  BY <1>23, OpeningsQuiet DEF IndexEvent, Done, Goto, TypeOK, Procs, world, store
<1>24. ASSUME NEW b \in Backends, ExpireSeen(b) PROVE Openings'
  BY <1>24, OpeningsSame DEF ExpireSeen, Expiry, world
<1>25. ASSUME NEW b \in Backends, ExpireCooldown(b) PROVE Openings'
  <2>1. /\ UNCHANGED <<pc, job, reviews, rings>>
        /\ \A k \in CooldownKeys : cooling'[Main][k] \in {cooling[Main][k], None}
    BY <1>25, ServingIsBackend DEF ExpireCooldown, Expiry, TypeOK, world
  <2> QED BY <2>1, OpeningsMove DEF Openings
<1>26. ASSUME NEW b \in Backends, ExpireReview(b) PROVE Openings'
  BY <1>26 DEF ExpireReview, Expiry
<1>27. ASSUME NEW b \in Backends, ExpireEvent(b) PROVE Openings'
  BY <1>27, OpeningsSame DEF ExpireEvent, Expiry, world
<1>28. ASSUME NEW b \in Backends, ExpireDescription(b) PROVE Openings'
  BY <1>28, OpeningsSame DEF ExpireDescription, Expiry, world
<1>29. ASSUME Shutdown PROVE Openings'
  BY <1>29 DEF Shutdown, Undisturbed
<1>30. ASSUME Restart PROVE Openings'
  BY <1>30 DEF Restart, Undisturbed
<1>31. CASE UNCHANGED vars
  BY <1>31, OpeningsSame DEF vars, store, world
<1>32. AloneStep
  BY AloneNext DEF Undisturbed
<1> QED
  BY <1>32, <1>1, <1>2, <1>3, <1>4, <1>5, <1>6, <1>7, <1>8, <1>9, <1>10, <1>11, <1>12, <1>13,
     <1>14, <1>15, <1>16, <1>17, <1>18, <1>19, <1>20, <1>21, <1>22, <1>23, <1>24, <1>25,
     <1>26, <1>27, <1>28, <1>29, <1>30, <1>31 DEF AloneStep

\* Only the dispatch goroutine is ever suppressed, and never by a window its own review
\* opened: that review is on record, so it would have been updated instead.
LEMMA SuppressedByAnother ==
  ASSUME Alone, TypeOK, Locals, Undisturbed, "review" \notin Expirable, Turn, Openings,
         NEW p \in Procs, NEW w \in SUBSET Backends, SuppressedByCooldown(p, w)
  PROVE  Opener(p, w) # job[p].review /\ Rang(Opener(p, w))
<1>1. pc[p] = "cooldown" /\ Reached(w) /\ cooling[Answer(w)][KeyOf(p)] # None
  BY DEF SuppressedByCooldown, TryCooldown
<1>2. p = Mqtt
  BY <1>1 DEF Alone, Procs
<1>3. Answer(w) = Main /\ Serving = Main
  <2>1. Answer(w) = Main
    BY <1>1, MainAnswers
  <2> QED BY <2>1 DEF Undisturbed, Serving, Main
<1>4. KeyOf(p) \in CooldownKeys
  BY DEF TypeOK, Job, KeyOf, CooldownKeys
<1>5. reviews[Main][Opener(p, w)] # None /\ Rang(Opener(p, w))
  BY <1>1, <1>2, <1>3, <1>4 DEF Openings, Openers, OpenedFor, Opening, Opener
<1>6. reviews[Main][job[p].review] = None
  BY <1>1, <1>2, <1>3 DEF Turn, Held, HoldsState, Forgetful, Undisturbed, Locals, LocalOK
<1> QED BY <1>5, <1>6

\* What suppresses a review is the push of another one that rang someone: where no rule
\* has a holdoff and no review's record expires, while no operation on the primary fails
\* and the service is not stopped, whichever sends fail.
THEOREM SuppressedByAPush ==
  ASSUME NoHoldoffs, MaxFaults = 0, MaxRestarts = 0, "review" \notin Expirable
  PROVE  Spec => SuppressedOnlyByAPush
<1> DEFINE Inv == TypeOK /\ Locals /\ Undisturbed /\ Alone /\ Turn /\ Openings
           Suppressed == \A p \in Procs, w \in SUBSET Backends :
             SuppressedByCooldown(p, w) =>
               /\ Opener(p, w) # job[p].review
               /\ Rang(Opener(p, w)) \/ BeingSent(Opener(p, w))
<1>1. Spec => [](TypeOK /\ Locals)
  BY TypesAndLocals
<1>2. Init => Undisturbed /\ Alone /\ Turn /\ Openings
  BY BlankType, ServingIsBackend
     DEF Init, Undisturbed, Faultless, Alone, Turn, MemorySpare, Held, Refines, Procs, Backends,
         Openings, Openers, Pushed
<1>3. TypeOK /\ Locals /\ Undisturbed /\ Alone /\ Turn /\ Openings /\ [Next]_vars =>
        Undisturbed' /\ Alone' /\ Turn' /\ Openings'
  BY FrugalNext, AloneKept, TurnNext, OpeningsNext DEF Frugal, Undisturbed, Faultless
<1>4. Inv => Suppressed
  BY SuppressedByAnother
<1>5. Suppressed => [Suppressed]_vars
  OBVIOUS
<1>6. Spec => []Inv
  BY <1>1, <1>2, <1>3, PTL DEF Spec
<1> QED BY <1>4, <1>5, <1>6, PTL DEF SuppressedOnlyByAPush

-----------------------------------------------------------------------------
(***************************************************************************)
(* How often a target rings: once for a first push, once more for an       *)
(* escalation, and never off the record.                                   *)
(***************************************************************************)
TargetsOf(deliveries) == {d.target : d \in deliveries}

\* The rings that review r's record allows each target, and the targets that rang since.
Recording(r) == reviews[Main][r]
Allowed(r) == IF Recording(r) = None THEN 0 ELSE IF Recording(r).critical THEN 2 ELSE 1
OnRecord(r) == IF Recording(r) = None THEN {} ELSE TargetsOf(Recording(r).deliveries)
Reaching(l, j, r) == IF l = "send" /\ j.review = r THEN TargetsOf(j.sent) ELSE {}

\* A send goes to each of its targets once.
Rounds(l, j) == l = "send" => /\ \A d \in j.todo \cup j.sent : d.tag = SameTag
                              /\ j.todo \cap j.sent = {}

Tally(r, t, l, j) ==
  /\ rings[r][t] > 0 => t \in OnRecord(r) \cup Reaching(l, j, r)
  /\ rings[r][t] <= Allowed(r) + (IF t \in Reaching(l, j, r) THEN 1 ELSE 0)

Tallied == /\ budget.sends = 0
           /\ Rounds(pc[Mqtt], job[Mqtt])
           /\ \A r \in Reviews, t \in Targets : Tally(r, t, pc[Mqtt], job[Mqtt])

LEMMA SendsStayNone ==
  ASSUME TypeOK', Frugal, budget.sends = 0
  PROVE  budget'.sends = 0
<1>1. budget'.sends \in Nat /\ budget'.sends <= 0
  BY DEF TypeOK, Budget, Frugal
<1> QED BY <1>1

LEMMA AllowedType == \A r \in Reviews : Allowed(r) \in {0, 1, 2}
  BY DEF Allowed

\* Steps that ring and record nothing: whoever a send reached stays counted, and another
\* send has yet to reach anyone.
LEMMA TalliedMove ==
  ASSUME TypeOK, TypeOK', Frugal, Tallied, UNCHANGED <<reviews, rings>>,
         \A r \in Reviews : Reaching(pc'[Mqtt], job'[Mqtt], r) = Reaching(pc[Mqtt], job[Mqtt], r),
         Rounds(pc'[Mqtt], job'[Mqtt])
  PROVE  Tallied'
<1>1. \A r \in Reviews, t \in Targets : Tally(r, t, pc'[Mqtt], job'[Mqtt])
  BY DEF Tallied, Tally
<1>2. (\A r \in Reviews, t \in Targets : Tally(r, t, pc[Mqtt], job[Mqtt]))'
  BY <1>1 DEF Tally, OnRecord, Allowed, Recording, Reaching, Main
<1>3. Rounds(pc[Mqtt], job[Mqtt])'
  BY DEF Rounds
<1> QED BY <1>2, <1>3, SendsStayNone DEF Tallied

LEMMA TalliedSame ==
  ASSUME TypeOK, TypeOK', Frugal, Tallied, UNCHANGED <<reviews, rings, pc, job>>
  PROVE  Tallied'
  BY TalliedMove DEF Tallied

\* A step of a goroutine that has reached nobody, to where nothing is sent.
LEMMA TalliedQuiet ==
  ASSUME TypeOK, TypeOK', Frugal, Tallied, UNCHANGED <<reviews, rings>>,
         pc[Mqtt] # "send" \/ job[Mqtt].sent = {}, pc'[Mqtt] # "send"
  PROVE  Tallied'
<1>1. \A r \in Reviews : /\ Reaching(pc[Mqtt], job[Mqtt], r) = {}
                         /\ Reaching(pc'[Mqtt], job'[Mqtt], r) = {}
  BY DEF Reaching, TargetsOf
<1> QED BY <1>1, TalliedMove DEF Rounds

LEMMA TalliedRender ==
  ASSUME TypeOK, TypeOK', Frugal, Tallied, NEW w \in SUBSET Backends, Render(Mqtt, w)
  PROVE  Tallied'
<1>1. PICK to, text :
        Become(Mqtt, [job[Mqtt] EXCEPT !.text = text, !.sent = {},
                                       !.todo = [target : to, tag : {SameTag}]])
  BY DEF Render
<1> DEFINE todo == [target : to, tag : {SameTag}]
<1>2. \A d \in todo : d.tag = SameTag
  OBVIOUS
<1> HIDE DEF todo
<1> DEFINE j == [job[Mqtt] EXCEPT !.text = text, !.sent = {}, !.todo = todo]
<1>3. /\ pc[Mqtt] = "render" /\ pc'[Mqtt] = "send" /\ job'[Mqtt] = j
      /\ UNCHANGED <<reviews, rings>>
  BY <1>1 DEF todo, Render, Goto, Become, TypeOK, Procs, world, store
<1>4. j.sent = {} /\ j.todo = todo
  BY DEF TypeOK, Job, Procs
<1> HIDE DEF j
<1>5. Rounds("send", j)
  BY <1>4, <1>2 DEF Rounds
<1>6. \A r \in Reviews : /\ Reaching(pc[Mqtt], job[Mqtt], r) = {}
                         /\ Reaching(pc'[Mqtt], job'[Mqtt], r) = {}
  BY <1>3, <1>4 DEF Reaching, TargetsOf
<1> QED BY <1>3, <1>5, <1>6, TalliedMove

\* A push is to a target the send has not reached yet, so the record allows its ring.
LEMMA TalliedPush ==
  ASSUME TypeOK, TypeOK', Undisturbed, Frugal, Tallied,
         NEW d \in Delivery, NEW o \in {"ok", "lost", "failed"}, Push(Mqtt, d, o)
  PROVE  Tallied'
<1> DEFINE r == job[Mqtt].review
           j == [job[Mqtt] EXCEPT !.todo = @ \ {d}, !.sent = Confirmed(Mqtt, d, o)]
<1>1. /\ r \in Reviews /\ d.target \in Targets /\ job[Mqtt] \in Job
      /\ UNCHANGED <<reviews, pc>> /\ pc[Mqtt] = "send" /\ Become(Mqtt, j) /\ d \in job[Mqtt].todo
  BY DEF Push, store, TypeOK, Job, Delivery, Procs
<1>2. o = "ok"
  BY DEF Push, Outcomes, Undisturbed, Tallied
<1>3. rings' = [rings EXCEPT ![r][d.target] = @ + 1]
  BY <1>2 DEF Push
<1>4. /\ j.review = r /\ j.todo = job[Mqtt].todo \ {d} /\ j.sent = job[Mqtt].sent \cup {d}
  BY <1>1, <1>2 DEF Job, Confirmed
<1> HIDE DEF j
<1>5. job'[Mqtt] = j /\ pc'[Mqtt] = "send"
  BY <1>1 DEF Become, TypeOK, Procs
<1>6. Rounds("send", j)
  BY <1>1, <1>4 DEF Tallied, Rounds
<1>7. d.target \notin TargetsOf(job[Mqtt].sent)
  <2> SUFFICES ASSUME NEW e \in job[Mqtt].sent, e.target = d.target PROVE FALSE
    BY DEF TargetsOf
  <2>1. e \in Delivery /\ e.tag = d.tag
    BY <1>1 DEF Tallied, Rounds, Job
  <2>2. e = d
    BY <2>1 DEF Delivery
  <2> QED BY <2>2, <1>1 DEF Tallied, Rounds
<1>8. \A q \in Reviews : Reaching("send", j, q) =
        Reaching("send", job[Mqtt], q) \cup (IF q = r THEN {d.target} ELSE {})
  BY <1>4 DEF Reaching, TargetsOf
<1>9. \A q \in Reviews, t \in Targets :
        rings'[q][t] = IF q = r /\ t = d.target THEN rings[q][t] + 1 ELSE rings[q][t]
  <2> HIDE DEF r
  <2> QED BY <1>1, <1>3 DEF TypeOK
<1>10. ASSUME NEW q \in Reviews, NEW t \in Targets
       PROVE  /\ rings'[q][t] > 0 => t \in OnRecord(q) \cup Reaching("send", j, q)
              /\ rings'[q][t] <= Allowed(q) + (IF t \in Reaching("send", j, q) THEN 1 ELSE 0)
  <2>1. /\ Tally(q, t, "send", job[Mqtt]) /\ rings[q][t] \in Nat /\ Allowed(q) \in {0, 1, 2}
    BY <1>1, AllowedType DEF Tallied, TypeOK
  <2>2. CASE q = r /\ t = d.target
    <3>1. t \notin Reaching("send", job[Mqtt], q) /\ t \in Reaching("send", j, q)
      BY <2>2, <1>7, <1>8 DEF Reaching
    <3>2. rings'[q][t] = rings[q][t] + 1 /\ rings[q][t] <= Allowed(q)
      BY <2>1, <2>2, <3>1, <1>9 DEF Tally
    <3> QED BY <2>1, <3>1, <3>2
  <2>3. CASE ~(q = r /\ t = d.target)
    <3>1. t \in Reaching("send", j, q) <=> t \in Reaching("send", job[Mqtt], q)
      BY <2>3, <1>8
    <3> QED BY <2>1, <2>3, <3>1, <1>9 DEF Tally
  <2> QED BY <2>2, <2>3
<1>11. (\A q \in Reviews, t \in Targets : Tally(q, t, pc[Mqtt], job[Mqtt]))'
  BY <1>1, <1>5, <1>10 DEF Tally, OnRecord, Allowed, Recording, Reaching, Main
<1>12. Rounds(pc[Mqtt], job[Mqtt])'
  BY <1>5, <1>6 DEF Rounds
<1> QED BY <1>11, <1>12, SendsStayNone DEF Tallied

\* What is saved lists everyone the record listed and everyone the send reached, and only
\* an escalation of an uncritical record adds to what it allows.
LEMMA TalliedSave ==
  ASSUME TypeOK, TypeOK', Locals, Undisturbed, "review" \notin Expirable, Frugal, Turn, Tallied,
         NEW w \in SUBSET Backends, SaveReview(Mqtt, w)
  PROVE  Tallied'
<1> DEFINE r  == job[Mqtt].review
           st == IF pc[Mqtt] = "send" THEN Delivered(Mqtt) ELSE Edited(Mqtt)
<1>1. /\ st \in ReviewState /\ st # None /\ r \in Reviews
      /\ \A q \in Reviews : reviews'[Main][q] = IF q = r THEN st ELSE reviews[Main][q]
      /\ pc'[Mqtt] \in {"index", "idle"} /\ rings' = rings /\ pc[Mqtt] \in {"send", "edit"}
  BY SavedInMain DEF SaveReview, HasResult, Result
<1>2. Recording(r) = job[Mqtt].prior
  BY <1>1 DEF Recording, Turn, Held, HoldsState, Forgetful, Undisturbed, Serving, Main
<1>3. /\ OnRecord(r) \cup Reaching(pc[Mqtt], job[Mqtt], r) \subseteq TargetsOf(st.deliveries)
      /\ \A t \in Targets : Allowed(r) + (IF t \in Reaching(pc[Mqtt], job[Mqtt], r) THEN 1 ELSE 0)
                              <= (IF st.critical THEN 2 ELSE 1)
  <2>1. CASE pc[Mqtt] = "send" /\ job[Mqtt].prior = None
    <3>1. st.deliveries = job[Mqtt].sent /\ st.critical \in BOOLEAN
      BY <1>1, <2>1 DEF Delivered, Escalating, ReviewState
    <3> HIDE DEF st
    <3> QED BY <1>2, <2>1, <3>1 DEF OnRecord, Allowed, Reaching
  <2>2. CASE pc[Mqtt] = "send" /\ job[Mqtt].prior # None
    <3>1. /\ st.deliveries = CarryOver(job[Mqtt].sent, job[Mqtt].prior)
          /\ st.critical /\ ~job[Mqtt].prior.critical
      BY <2>2 DEF Delivered, Escalating, Turn, Refines
    <3> HIDE DEF st
    <3>2. TargetsOf(job[Mqtt].prior.deliveries) \cup TargetsOf(job[Mqtt].sent)
            \subseteq TargetsOf(CarryOver(job[Mqtt].sent, job[Mqtt].prior))
      <4>1. ASSUME NEW e \in job[Mqtt].prior.deliveries,
                   \A f \in job[Mqtt].sent : f.target # e.target
            PROVE  \E x \in CarryOver(job[Mqtt].sent, job[Mqtt].prior) : x.target = e.target
        <5> DEFINE x == [target |-> e.target, tag |-> TagOf(e, job[Mqtt].prior.tag)]
        <5>1. x \in CarryOver(job[Mqtt].sent, job[Mqtt].prior) /\ x.target = e.target
          BY <4>1 DEF CarryOver
        <5> QED BY <5>1
      <4>2. job[Mqtt].sent \subseteq CarryOver(job[Mqtt].sent, job[Mqtt].prior)
        BY DEF CarryOver
      <4> QED BY <4>1, <4>2 DEF TargetsOf
    <3>3. Allowed(r) = 1
      BY <1>2, <2>2, <3>1 DEF Allowed
    <3> QED BY <1>2, <2>2, <3>1, <3>2, <3>3 DEF OnRecord, Reaching
  <2>3. CASE pc[Mqtt] = "edit"
    <3>1. job[Mqtt].prior # None /\ job[Mqtt].prior \in ReviewState
      BY <2>3 DEF Locals, LocalOK, TypeOK, Procs, Job
    <3>2. st.deliveries = job[Mqtt].prior.deliveries /\ st.critical = job[Mqtt].prior.critical
      BY <2>3, <3>1 DEF Edited, ReviewState
    <3> HIDE DEF st
    <3> QED BY <1>2, <2>3, <3>1, <3>2 DEF OnRecord, Allowed, Reaching
  <2> QED BY <1>1, <2>1, <2>2, <2>3
<1> HIDE DEF st
<1>4. ASSUME NEW q \in Reviews, NEW t \in Targets
      PROVE  /\ rings[q][t] > 0 => t \in TargetsOf(IF reviews'[Main][q] = None THEN {}
                                                  ELSE reviews'[Main][q].deliveries)
             /\ rings[q][t] <= IF reviews'[Main][q] = None THEN 0
                               ELSE IF reviews'[Main][q].critical THEN 2 ELSE 1
  <2>1. Tally(q, t, pc[Mqtt], job[Mqtt]) /\ rings[q][t] \in Nat /\ Allowed(q) \in {0, 1, 2}
    BY AllowedType DEF Tallied, TypeOK
  <2>2. CASE q = r
    <3>1. reviews'[Main][q] = st /\ st # None
      BY <1>1, <2>2
    <3> QED BY <2>1, <2>2, <3>1, <1>3 DEF Tally
  <2>3. CASE q # r
    <3>1. reviews'[Main][q] = Recording(q) /\ Reaching(pc[Mqtt], job[Mqtt], q) = {}
      BY <1>1, <2>3 DEF Recording, Reaching
    <3> QED BY <2>1, <3>1 DEF Tally, OnRecord, Allowed, TargetsOf
  <2> QED BY <2>2, <2>3
<1>5. (\A q \in Reviews, t \in Targets : Tally(q, t, pc[Mqtt], job[Mqtt]))'
  <2>1. TargetsOf({}) = {}
    BY DEF TargetsOf
  <2>2. pc'[Mqtt] # "send" /\ rings' = rings /\ \A q \in Reviews, t \in Targets : rings[q][t] \in Nat
    BY <1>1 DEF TypeOK
  <2> QED BY <1>4, <2>1, <2>2 DEF Tally, OnRecord, Allowed, Recording, Reaching, Main
<1>6. Rounds(pc[Mqtt], job[Mqtt])'
  BY <1>1 DEF Rounds
<1> QED BY <1>5, <1>6, SendsStayNone DEF Tallied

LEMMA TalliedNext ==
  ASSUME NoHoldoffs, Alone, TypeOK, TypeOK', Locals, Undisturbed, "review" \notin Expirable, Frugal,
         Turn, Tallied, [Next]_vars
  PROVE  Tallied'
<1>1. ASSUME NEW m \in Message, NEW w \in SUBSET Backends, IgnoreReview(m, w) PROVE Tallied'
  BY <1>1, TalliedSame DEF IgnoreReview, Receive, world
<1>2. ASSUME NEW m \in Message, NEW w \in SUBSET Backends, HandleGenAI(m, w) PROVE Tallied'
  BY <1>2, TalliedQuiet DEF HandleGenAI, Receive, Goto, TypeOK, Procs, world, store
<1>3. ASSUME NEW m \in Message, NEW w \in SUBSET Backends, HandlePhase(m, w) PROVE Tallied'
  BY <1>3, TalliedQuiet DEF HandlePhase, Receive, Goto, TypeOK, Procs, world, store
<1>4. ASSUME NEW r \in HasEvent, NEW d \in Descriptions, NEW v \in SUBSET Backends,
            NEW w \in SUBSET Backends, HandleDescription(r, d, v, w)
      PROVE  Tallied'
  BY <1>4, TalliedQuiet DEF HandleDescription, Goto, TypeOK, Procs, world, store
<1>5. ASSUME NEW v \in SUBSET Backends, NEW w \in SUBSET Backends, LateDescription(v, w)
      PROVE  Tallied'
  BY <1>5, TalliedQuiet DEF LateDescription, Done, Goto, TypeOK, Procs, world, store
<1>6. ASSUME Unmatched(Mqtt) PROVE Tallied'
  BY <1>6, TalliedQuiet DEF Unmatched, Done, Goto, TypeOK, Procs, world, store
<1>7. ASSUME NEW i \in RuleIds, MatchNow(Mqtt, i) PROVE Tallied'
  BY <1>7, TalliedQuiet DEF MatchNow, Goto, TypeOK, Procs, world, store
<1>8. ASSUME NEW w \in SUBSET Backends, NotNotified(Mqtt, w) PROVE Tallied'
  BY <1>8, TalliedQuiet DEF NotNotified, Loads, Done, Goto, TypeOK, Procs, world, store
<1>9. ASSUME NEW w \in SUBSET Backends, Escalate(Mqtt, w) PROVE Tallied'
  BY <1>9, TalliedQuiet DEF Escalate, Loads, Goto, TypeOK, Procs, world, store
<1>10. ASSUME NEW w \in SUBSET Backends, RefreshUnderBetterRule(Mqtt, w) PROVE Tallied'
  BY <1>10, TalliedQuiet DEF RefreshUnderBetterRule, Loads, Goto, TypeOK, Procs, world, store
<1>11. ASSUME NEW w \in SUBSET Backends, SendUpdate(Mqtt, w) PROVE Tallied'
  BY <1>11, TalliedQuiet DEF SendUpdate, Loads, Goto, TypeOK, Procs, world, store
<1>12. ASSUME NEW w \in SUBSET Backends, AlreadyNotified(Mqtt, w) PROVE Tallied'
  BY <1>12, TalliedQuiet DEF AlreadyNotified, Loads, Done, Goto, TypeOK, Procs, world, store
<1>13. ASSUME SkipCooldown(Mqtt) PROVE Tallied'
  BY <1>13, TalliedQuiet DEF SkipCooldown, Goto, TypeOK, Procs, world, store
<1>14. ASSUME NothingDelivered(Mqtt) PROVE Tallied'
  BY <1>14, TalliedQuiet DEF NothingDelivered, Done, Goto, TypeOK, Procs, world, store
<1>15. ASSUME NEW w \in SUBSET Backends, OpenCooldown(Mqtt, w) PROVE Tallied'
  BY <1>15, TalliedQuiet DEF OpenCooldown, TryCooldown, Goto, TypeOK, Procs, world, store
<1>16. ASSUME NEW w \in SUBSET Backends, SuppressedByCooldown(Mqtt, w) PROVE Tallied'
  BY <1>16, TalliedQuiet DEF SuppressedByCooldown, TryCooldown, Done, Goto, TypeOK, Procs,
     world, store
<1>17. ASSUME NEW w \in SUBSET Backends, Render(Mqtt, w) PROVE Tallied'
  BY <1>17, TalliedRender
<1>18. ASSUME NEW w \in SUBSET Backends, Rerender(Mqtt, w) PROVE Tallied'
  BY <1>18, TalliedQuiet DEF Rerender, Goto, TypeOK, Procs, world, store
<1>19. ASSUME NEW d \in Delivery, NEW o \in {"ok", "lost", "failed"}, Push(Mqtt, d, o)
      PROVE  Tallied'
  BY <1>19, TalliedPush
<1>20. ASSUME NEW d \in Delivery, NEW o \in {"ok", "lost", "failed"}, Edit(Mqtt, d, o)
      PROVE  Tallied'
  BY <1>20, TalliedQuiet DEF Edit, store
<1>21. ASSUME NEW w \in SUBSET Backends, ReleaseCooldown(Mqtt, w) PROVE Tallied'
  BY <1>21, TalliedQuiet DEF ReleaseCooldown, Done, Goto, TypeOK, Procs, world, store
<1>22. ASSUME NEW w \in SUBSET Backends, SaveReview(Mqtt, w) PROVE Tallied'
  BY <1>22, TalliedSave
<1>23. ASSUME NEW w \in SUBSET Backends, IndexEvent(Mqtt, w) PROVE Tallied'
  BY <1>23, TalliedQuiet DEF IndexEvent, Done, Goto, TypeOK, Procs, world, store
<1>24. ASSUME NEW b \in Backends, ExpireSeen(b) PROVE Tallied'
  BY <1>24, TalliedSame DEF ExpireSeen, Expiry, world
<1>25. ASSUME NEW b \in Backends, ExpireCooldown(b) PROVE Tallied'
  BY <1>25, TalliedSame DEF ExpireCooldown, Expiry, world
<1>26. ASSUME NEW b \in Backends, ExpireReview(b) PROVE Tallied'
  BY <1>26 DEF ExpireReview, Expiry
<1>27. ASSUME NEW b \in Backends, ExpireEvent(b) PROVE Tallied'
  BY <1>27, TalliedSame DEF ExpireEvent, Expiry, world
<1>28. ASSUME NEW b \in Backends, ExpireDescription(b) PROVE Tallied'
  BY <1>28, TalliedSame DEF ExpireDescription, Expiry, world
<1>29. ASSUME Shutdown PROVE Tallied'
  BY <1>29 DEF Shutdown, Undisturbed
<1>30. ASSUME Restart PROVE Tallied'
  BY <1>30 DEF Restart, Undisturbed
<1>31. CASE UNCHANGED vars
  BY <1>31, TalliedSame DEF vars, store, world
<1>32. AloneStep
  BY AloneNext DEF Undisturbed
<1> QED
  BY <1>32, <1>1, <1>2, <1>3, <1>4, <1>5, <1>6, <1>7, <1>8, <1>9, <1>10, <1>11, <1>12, <1>13,
     <1>14, <1>15, <1>16, <1>17, <1>18, <1>19, <1>20, <1>21, <1>22, <1>23, <1>24, <1>25,
     <1>26, <1>27, <1>28, <1>29, <1>30, <1>31 DEF AloneStep

\* Whatever rang is on record once the send is over, and nothing rings more than twice:
\* where no rule has a holdoff and no review's record expires, while no send and no
\* operation on the primary fails and the service is not stopped.
THEOREM RingsOnRecord ==
  ASSUME NoHoldoffs, HasPrimary, MaxFaults = 0, MaxSendFaults = 0, MaxRestarts = 0,
         "review" \notin Expirable
  PROVE  Spec => []RingsAreAccountedFor
<1> DEFINE Inv == Undisturbed /\ Alone /\ Turn /\ Tallied
<1>1. Spec => [](TypeOK /\ Locals)
  BY TypesAndLocals
<1>2. Init => Inv
  <2>1. Init => Undisturbed /\ Alone /\ Turn
    BY BlankType, ServingIsBackend
       DEF Init, Undisturbed, Faultless, Alone, Turn, MemorySpare, Held, Refines, Procs, Backends
  <2>2. ASSUME Init PROVE Tallied
    <3>1. /\ pc[Mqtt] = "idle" /\ budget.sends = 0
          /\ \A r \in Reviews, t \in Targets : rings[r][t] = 0 /\ reviews[Main][r] = None
      BY <2>2, ServingIsBackend DEF Init, Procs
    <3> QED BY <3>1 DEF Tallied, Tally, Rounds, Allowed, Recording, Reaching
  <2> QED BY <2>1, <2>2
<1>3. TypeOK /\ TypeOK' /\ Locals /\ Inv /\ [Next]_vars => Inv'
  BY FrugalNext, AloneKept, TurnNext, TalliedNext DEF Frugal, Undisturbed, Faultless
<1>4. TypeOK /\ Inv => RingsAreAccountedFor
  <2> SUFFICES ASSUME TypeOK, Inv, NEW r \in Reviews, NEW t \in Targets
               PROVE  /\ Quiet /\ rings[r][t] > 0 => \E n \in Recorded(r) : n[1] = t
                      /\ rings[r][t] <= 2
    BY DEF RingsAreAccountedFor
  <2>1. Tally(r, t, pc[Mqtt], job[Mqtt]) /\ rings[r][t] \in Nat /\ Allowed(r) \in {0, 1, 2}
    BY AllowedType DEF Tallied, TypeOK
  <2>2. ASSUME Quiet, rings[r][t] > 0 PROVE \E n \in Recorded(r) : n[1] = t
    <3>1. t \in OnRecord(r)
      BY <2>1, <2>2 DEF Tally, Reaching, Quiet, Procs
    <3>2. PICK d \in reviews["primary"][r].deliveries : d.target = t /\ reviews["primary"][r] # None
      BY <3>1 DEF OnRecord, TargetsOf, Recording, Main
    <3>3. <<d.target, TagOf(d, reviews["primary"][r].tag)>> \in Recorded(r)
      BY <3>2 DEF Recorded
    <3> QED BY <3>2, <3>3
  <2>3. rings[r][t] <= 2
    <3>1. Allowed(r) = 2 => t \notin Reaching(pc[Mqtt], job[Mqtt], r)
      <4> SUFFICES ASSUME Allowed(r) = 2, t \in Reaching(pc[Mqtt], job[Mqtt], r) PROVE FALSE
        OBVIOUS
      <4>1. pc[Mqtt] = "send" /\ job[Mqtt].review = r
        BY DEF Reaching
      <4>2. Recording(r) # None /\ Recording(r).critical
        BY DEF Allowed
      <4> QED BY <4>1, <4>2 DEF Turn, Held, HoldsState, Refines, Forgetful, Undisturbed,
                 Recording, Serving, Main
    <3> QED BY <2>1, <3>1 DEF Tally
  <2> QED BY <2>2, <2>3
<1> QED BY <1>1, <1>2, <1>3, <1>4, PTL DEF Spec

-----------------------------------------------------------------------------
(***************************************************************************)
(* The end reaches every notification on record, and so does the newest    *)
(* description: configurations where a rule matches whatever Frigate       *)
(* reports and none is critical, so that the end is an update to everyone. *)
(***************************************************************************)
NeverCritical == \A i \in RuleIds : ~Rules[i].critical
AlwaysMatched == \A c \in Contents : 0 \notin MayMatch[c]
KeepsTexts    == "event" \notin Expirable /\ "description" \notin Expirable

Work == {"match", "load", "cooldown", "render", "send", "rerender", "edit"}
At(l, j, r)   == l \in Work /\ j.review = r
Late(l, j, r) == l = "late" /\ j.review = r
Ends(m) == m # None /\ m.phase \in {"end", "genai"}

\* A goroutine at l with locals j works on the newest message of its review, or on a
\* description of it, and renders the newest text.
Abreast(l, j) ==
  /\ l \in Work =>
       /\ CameraOf[j.review] \in Cameras
       /\ j.phase = "description" \/ (life[j.review] # None /\ j.phase = life[j.review].phase)
  /\ l = "late" => j.review \in HasEvent
  /\ l \in {"send", "edit"} /\ KeepsTexts => j.text = descs[Main][j.review]

\* The targets it is done with show what it rendered.
Bears(j, d) == LET n == phone[j.review][d.target][TagOf(d, j.tag)]
               IN  n.ended = Ended(j.phase) /\ n.text = j.text
Progress(l, j) == /\ l = "send" => \A d \in j.sent : Bears(j, d)
                  /\ l = "edit" => \A d \in j.prior.deliveries \ j.todo : Bears(j, d)

\* What is on record of a review is of a camera in the config, and found by its event.
Filed(r, l, j) ==
  Recording(r) # None =>
    /\ CameraOf[r] \in Cameras
    /\ KeepsTexts /\ r \in HasEvent => r \in events[Main] \/ (l = "index" /\ j.review = r)

\* The notifications on record of a review that is over show so, once its last message
\* m is dealt with, and the newest description, once that is.
Settled(r, l, j, m) ==
  Recording(r) # None /\ Ends(m) /\ ~At(l, j, r) =>
    /\ Recording(r).ended
    /\ \A d \in Recording(r).deliveries :
         LET n == phone[r][d.target][TagOf(d, Recording(r).tag)]
         IN  n.ended /\ (KeepsTexts /\ ~Late(l, j, r) => n.text = descs[Main][r])

Final ==
  /\ budget.sends = 0
  /\ Abreast(pc[Mqtt], job[Mqtt]) /\ Progress(pc[Mqtt], job[Mqtt])
  /\ \A r \in Reviews : /\ Filed(r, pc[Mqtt], job[Mqtt])
                        /\ Settled(r, pc[Mqtt], job[Mqtt], life[r])
  /\ \A r \in Reviews \ HasEvent : descs[Main][r] = None

\* Steps that show nothing and record nothing: they may forget, they go on with a review
\* until it is settled, and index what they recorded.
LEMMA FinalMove ==
  ASSUME TypeOK, TypeOK', Frugal, Final, UNCHANGED phone,
         Abreast(pc[Mqtt], job[Mqtt])', Progress(pc'[Mqtt], job'[Mqtt]),
         \A r \in Reviews :
           /\ reviews'[Main][r] \in {reviews[Main][r], None}
           /\ descs'[Main][r] \in {descs[Main][r], None}
           /\ KeepsTexts => descs'[Main][r] = descs[Main][r] /\ (r \in events[Main] => r \in events'[Main]),
         pc[Mqtt] = "index" => UNCHANGED <<pc, job>> \/ job[Mqtt].review \in events'[Main],
         \A r \in Reviews :
           \/ reviews[Main][r] = None \/ ~Ends(life'[r])
           \/ At(pc'[Mqtt], job'[Mqtt], r)
           \/ /\ life'[r] = life[r] /\ ~At(pc[Mqtt], job[Mqtt], r)
              /\ KeepsTexts /\ Late(pc[Mqtt], job[Mqtt], r) => Late(pc'[Mqtt], job'[Mqtt], r)
  PROVE  Final'
<1>1. Progress(pc[Mqtt], job[Mqtt])'
  BY DEF Progress, Bears
<1>2. \A r \in Reviews \ HasEvent : descs'[Main][r] = None
  BY DEF Final
<1>3. ASSUME NEW r \in Reviews PROVE Filed(r, pc[Mqtt], job[Mqtt])'
  BY <1>3 DEF Final, Filed, Recording, Main
<1>4. ASSUME NEW r \in Reviews PROVE Settled(r, pc[Mqtt], job[Mqtt], life[r])'
  <2> SUFFICES ASSUME reviews'[Main][r] # None, Ends(life'[r]), ~At(pc'[Mqtt], job'[Mqtt], r)
               PROVE  /\ reviews'[Main][r].ended
                      /\ \A d \in reviews'[Main][r].deliveries :
                           /\ phone[r][d.target][TagOf(d, reviews'[Main][r].tag)].ended
                           /\ KeepsTexts /\ ~Late(pc'[Mqtt], job'[Mqtt], r) =>
                                phone[r][d.target][TagOf(d, reviews'[Main][r].tag)].text = descs'[Main][r]
    BY DEF Settled, Recording, Main, At, Late, Ends
  <2>1. /\ reviews'[Main][r] = reviews[Main][r] /\ life'[r] = life[r] /\ ~At(pc[Mqtt], job[Mqtt], r)
        /\ KeepsTexts /\ Late(pc[Mqtt], job[Mqtt], r) => Late(pc'[Mqtt], job'[Mqtt], r)
    OBVIOUS
  <2>2. Settled(r, pc[Mqtt], job[Mqtt], life[r])
    BY DEF Final
  <2> QED BY <2>1, <2>2 DEF Settled, Recording
<1> QED BY <1>1, <1>2, <1>3, <1>4, SendsStayNone DEF Final, Main

LEMMA FinalSame ==
  ASSUME TypeOK, TypeOK', Frugal, Final, UNCHANGED <<phone, pc, job, life, descs, reviews, events>>
  PROVE  Final'
<1>1. Abreast(pc[Mqtt], job[Mqtt])'
  BY DEF Final, Abreast, Main
<1>2. \A r \in Reviews : ~At(pc[Mqtt], job[Mqtt], r) \/ At(pc'[Mqtt], job'[Mqtt], r)
  OBVIOUS
<1> QED BY <1>1, <1>2, FinalMove DEF Final

\* A step of a goroutine on one review, which it leaves only when there is nothing to
\* settle.
LEMMA FinalGo ==
  ASSUME TypeOK, TypeOK', Frugal, Final, UNCHANGED <<phone, life, descs, reviews, events>>,
         NEW l, NEW j, Goto(Mqtt, l), Become(Mqtt, j), pc[Mqtt] # "index",
         Abreast(l, j), Progress(l, j),
         LET r == job[Mqtt].review IN
           \/ reviews[Main][r] = None \/ ~Ends(life[r]) \/ At(l, j, r)
           \/ pc[Mqtt] \notin Work \cup {"late"}
  PROVE  Final'
<1>1. pc'[Mqtt] = l /\ job'[Mqtt] = j
  BY DEF Goto, Become, TypeOK, Procs
<1>2. Abreast(pc[Mqtt], job[Mqtt])'
  BY <1>1 DEF Abreast, Main
<1> QED BY <1>1, <1>2, FinalMove DEF At, Late

LEMMA FinalDone ==
  ASSUME TypeOK, TypeOK', Frugal, Final, UNCHANGED <<phone, life, descs, reviews, events>>,
         Done(Mqtt), pc[Mqtt] # "index",
         LET r == job[Mqtt].review IN
           reviews[Main][r] = None \/ ~Ends(life[r]) \/ pc[Mqtt] \notin Work \cup {"late"}
  PROVE  Final'
<1>1. Abreast("idle", Blank) /\ Progress("idle", Blank)
  BY DEF Abreast, Progress, Work
<1> QED BY <1>1, FinalGo DEF Done

LEMMA FinalGoto ==
  ASSUME TypeOK, TypeOK', Frugal, Final, UNCHANGED <<phone, life, descs, reviews, events, job>>,
         NEW l \in Work \ {"send", "edit"}, Goto(Mqtt, l), pc[Mqtt] \in Work
  PROVE  Final'
<1>1. Become(Mqtt, job[Mqtt])
  BY DEF Become, TypeOK
<1>2. Abreast(l, job[Mqtt]) /\ Progress(l, job[Mqtt]) /\ At(l, job[Mqtt], job[Mqtt].review)
  BY DEF Final, Abreast, Progress, At, Work
<1> QED BY <1>1, <1>2, FinalGo DEF Work

\* The locals change, their review and its phase do not.
LEMMA FinalOn ==
  ASSUME TypeOK, TypeOK', Frugal, Final, UNCHANGED <<phone, life, descs, reviews, events>>,
         NEW l \in Work \ {"send", "edit"}, NEW j, Goto(Mqtt, l), Become(Mqtt, j),
         pc[Mqtt] \in Work, j.review = job[Mqtt].review, j.phase = job[Mqtt].phase
  PROVE  Final'
<1>1. Abreast(l, j) /\ Progress(l, j) /\ At(l, j, job[Mqtt].review)
  BY DEF Final, Abreast, Progress, At, Work
<1> QED BY <1>1, FinalGo DEF Work

\* A send that records nothing is a first one, of a review not on record.
LEMMA FirstSend ==
  ASSUME NeverCritical, TypeOK, Locals, Undisturbed, Turn, pc[Mqtt] \in {"cooldown", "render",
         "send"}
  PROVE  job[Mqtt].prior = None /\ reviews[Main][job[Mqtt].review] = None
<1>1. job[Mqtt].prior = None
  <2>1. job[Mqtt].rule \in RuleIds
    BY DEF TypeOK, Job, Procs
  <2> QED BY <2>1 DEF Turn, Refines, NeverCritical, Locals, LocalOK, Procs
<1> QED BY <1>1 DEF Turn, Held, HoldsState, Undisturbed, Serving, Main

\* The text a notification is rendered with is the newest there is.
LEMMA NewestText ==
  ASSUME TypeOK, Undisturbed, Final, NEW w \in SUBSET Backends, NEW text,
         ReadsText(Mqtt, w, text)
  PROVE  text = descs[Main][job[Mqtt].review]
<1>1. job[Mqtt].review \in Reviews /\ Main \in Backends
  BY ServingIsBackend DEF TypeOK, Job, Procs
<1>2. CASE Descriptions = {} \/ job[Mqtt].review \notin HasEvent
  BY <1>1, <1>2 DEF ReadsText, Final, TypeOK
<1>3. CASE ~(Descriptions = {} \/ job[Mqtt].review \notin HasEvent)
  <2>1. Reached(w) /\ text = descs[Answer(w)][job[Mqtt].review]
    BY <1>3 DEF ReadsText
  <2> QED BY <2>1, MainAnswers
<1> QED BY <1>2, <1>3

LEMMA FinalRender ==
  ASSUME TypeOK, TypeOK', Undisturbed, Frugal, Final, NEW w \in SUBSET Backends, Render(Mqtt, w)
  PROVE  Final'
<1>1. PICK to, text :
        /\ ReadsText(Mqtt, w, text)
        /\ Become(Mqtt, [job[Mqtt] EXCEPT !.text = text, !.sent = {},
                                          !.todo = [target : to, tag : {SameTag}]])
  BY DEF Render
<1> DEFINE j == [job[Mqtt] EXCEPT !.text = text, !.sent = {},
                                  !.todo = [target : to, tag : {SameTag}]]
<1>2. /\ j.sent = {} /\ j.text = text /\ j.review = job[Mqtt].review /\ j.phase = job[Mqtt].phase
  BY DEF TypeOK, Job, Procs
<1>3. /\ pc[Mqtt] = "render" /\ Goto(Mqtt, "send") /\ Become(Mqtt, j)
      /\ UNCHANGED <<phone, life, descs, reviews, events>>
  BY <1>1 DEF Render, world, store
<1> HIDE DEF j
<1>4. Abreast("send", j) /\ Progress("send", j) /\ At("send", j, job[Mqtt].review)
  BY <1>1, <1>2, <1>3, NewestText DEF Final, Abreast, Progress, At, Work
<1> QED BY <1>3, <1>4, FinalGo

LEMMA FinalRerender ==
  ASSUME TypeOK, TypeOK', Undisturbed, Frugal, Final, NEW w \in SUBSET Backends, Rerender(Mqtt, w)
  PROVE  Final'
<1>1. PICK text :
        /\ ReadsText(Mqtt, w, text)
        /\ Become(Mqtt, [job[Mqtt] EXCEPT !.text = text, !.sent = {}, !.todo = Originals(Mqtt)])
  BY DEF Rerender
<1> DEFINE j == [job[Mqtt] EXCEPT !.text = text, !.sent = {}, !.todo = Originals(Mqtt)]
<1>2. /\ j.todo = job[Mqtt].prior.deliveries /\ j.text = text /\ j.review = job[Mqtt].review
      /\ j.phase = job[Mqtt].phase /\ j.prior = job[Mqtt].prior
  BY DEF TypeOK, Job, Procs, Originals
<1>3. /\ pc[Mqtt] = "rerender" /\ Goto(Mqtt, "edit") /\ Become(Mqtt, j)
      /\ UNCHANGED <<phone, life, descs, reviews, events>>
  BY <1>1 DEF Rerender, world, store
<1> HIDE DEF j
<1>4. Abreast("edit", j) /\ Progress("edit", j) /\ At("edit", j, job[Mqtt].review)
  BY <1>1, <1>2, <1>3, NewestText DEF Final, Abreast, Progress, At, Work
<1> QED BY <1>3, <1>4, FinalGo

\* A message handed over: of a camera in the config it is worked on, of another nothing
\* is on record, and a redelivery is no news.
LEMMA FinalReceive ==
  ASSUME TypeOK, TypeOK', Frugal, Final, NEW m \in Message, NEW w, Receive(m, w, TRUE),
         Configured(m),
         NEW l \in {"match", "load"}, Goto(Mqtt, l), Become(Mqtt, Started(m, FALSE))
  PROVE  Final'
<1>1. /\ pc[Mqtt] = "idle" /\ UNCHANGED <<phone, descs, reviews, events>>
      /\ pc'[Mqtt] = l /\ job'[Mqtt] = Started(m, FALSE) /\ m.review \in Reviews
      /\ life'[m.review] = m /\ \A q \in Reviews \ {m.review} : life'[q] = life[q]
  BY DEF Receive, Goto, Become, TypeOK, Procs, world, Message
<1>2. Started(m, FALSE).review = m.review /\ Started(m, FALSE).phase = m.phase
  BY DEF Started, Blank
<1>3. Abreast(pc[Mqtt], job[Mqtt])'
  BY <1>1, <1>2, ModelAssumption DEF Abreast, Configured
<1>4. Progress(pc'[Mqtt], job'[Mqtt]) /\ At(pc'[Mqtt], job'[Mqtt], m.review)
  BY <1>1, <1>2 DEF Progress, At, Work
<1> QED BY <1>1, <1>3, <1>4, FinalMove DEF At, Late, Work

LEMMA FinalIgnore ==
  ASSUME TypeOK, TypeOK', Frugal, Newest, Final, NEW m \in Message, NEW w \in SUBSET Backends,
         IgnoreReview(m, w)
  PROVE  Final'
<1>1. /\ pc[Mqtt] = "idle" /\ UNCHANGED <<pc, job, phone, descs, reviews, events>>
  BY DEF IgnoreReview, Receive, world
<1>2. CASE Receive(m, w, FALSE)
  BY <1>1, <1>2, SeenIsNoNews, FinalSame
<1>3. CASE Receive(m, w, TRUE) /\ ~Configured(m)
  <2>1. /\ reviews[Main][m.review] = None
        /\ \A q \in Reviews \ {m.review} : life'[q] = life[q]
    BY <1>3 DEF Final, Filed, Recording, Configured, Message, Receive, TypeOK
  <2>2. Abreast(pc[Mqtt], job[Mqtt])'
    BY <1>1 DEF Abreast, Work
  <2>3. Progress(pc'[Mqtt], job'[Mqtt]) /\ pc[Mqtt] \notin Work \cup {"late"}
    BY <1>1 DEF Progress, Work
  <2> QED BY <1>1, <2>1, <2>2, <2>3, FinalMove DEF At, Late
<1> QED BY <1>2, <1>3 DEF IgnoreReview

\* A new description is news until it is on the notifications.
LEMMA FinalDescribe ==
  ASSUME TypeOK, TypeOK', Undisturbed, Frugal, Final,
         NEW r \in HasEvent, NEW d \in Descriptions, NEW v \in SUBSET Backends,
         NEW w \in SUBSET Backends, HandleDescription(r, d, v, w)
  PROVE  Final'
<1>1. /\ Reached(v) /\ Reached(w) /\ pc[Mqtt] = "idle" /\ r \in Reviews
      /\ UNCHANGED <<phone, reviews, events, life>> /\ descs' = Written(descs, w, r, d)
  BY PaidBothFaultless, ConfigAssumption DEF HandleDescription, Undisturbed, world
<1>2. descs'[Main] = [descs[Main] EXCEPT ![r] = d]
  <2>1. \A key, val : Written(descs, w, key, val)[Main] = [descs[Main] EXCEPT ![key] = val]
    BY <1>1, MainWritten
  <2> QED BY <1>1, <2>1
<1>3. /\ descs'[Main][r] = d /\ \A q \in Reviews \ {r} : descs'[Main][q] = descs[Main][q]
  BY <1>1, <1>2, ServingIsBackend DEF TypeOK
<1>4. CASE descs[Main][r] = d
  <2>1. UNCHANGED <<pc, job>>
    BY <1>1, <1>4, MainAnswers DEF HandleDescription
  <2>2. Abreast(pc[Mqtt], job[Mqtt])'
    BY <1>1, <2>1 DEF Abreast, Work
  <2>3. Progress(pc'[Mqtt], job'[Mqtt]) /\ pc[Mqtt] \notin Work \cup {"late"}
    BY <1>1, <2>1 DEF Progress, Work
  <2>4. \A q \in Reviews : descs'[Main][q] = descs[Main][q]
    BY <1>3, <1>4
  <2> QED BY <1>1, <2>1, <2>2, <2>3, <2>4, FinalMove DEF At, Late
<1>5. CASE descs[Main][r] # d
  <2>1. pc'[Mqtt] = "late" /\ job'[Mqtt].review = r
    <3>1. Goto(Mqtt, "late") /\ Become(Mqtt, [Blank EXCEPT !.review = r])
      BY <1>1, <1>5, MainAnswers DEF HandleDescription
    <3> QED BY <3>1, BlankType DEF Goto, Become, TypeOK, Procs, Blank
  <2>2. Abreast(pc[Mqtt], job[Mqtt])' /\ Progress(pc[Mqtt], job[Mqtt])'
    BY <2>1 DEF Abreast, Progress, Work
  <2>3. \A q \in Reviews \ HasEvent : descs'[Main][q] = None
    BY <1>3 DEF Final
  <2>4. ASSUME NEW q \in Reviews
        PROVE  Filed(q, pc[Mqtt], job[Mqtt])' /\ Settled(q, pc[Mqtt], job[Mqtt], life[q])'
    <3>1. Filed(q, pc[Mqtt], job[Mqtt]) /\ Settled(q, pc[Mqtt], job[Mqtt], life[q])
      BY DEF Final
    <3>2. Filed(q, pc[Mqtt], job[Mqtt])'
      BY <1>1, <2>1, <3>1 DEF Filed, Recording, Main
    <3>3. q # r => descs'[Main][q] = descs[Main][q]
      BY <1>3
    <3>4. Settled(q, pc[Mqtt], job[Mqtt], life[q])'
      BY <1>1, <2>1, <3>1, <3>3 DEF Settled, Recording, Main, At, Late, Work
    <3> QED BY <3>2, <3>4
  <2> QED BY <2>2, <2>3, <2>4, SendsStayNone DEF Final, Main
<1> QED BY <1>4, <1>5

\* A description that changes no notification is of a review that is not over: the record
\* of one that is has ended, and its event is indexed.
LEMMA FinalLate ==
  ASSUME TypeOK, TypeOK', Undisturbed, Frugal, Final, NEW v \in SUBSET Backends,
         NEW w \in SUBSET Backends, LateDescription(v, w)
  PROVE  Final'
<1> DEFINE r  == job[Mqtt].review
           st == reviews[Answer(w)][r]
           j  == [job[Mqtt] EXCEPT !.phase = "description", !.prior = st,
                                   !.tag = st.tag, !.rule = st.ruleIndex]
<1>1. /\ Reached(v) /\ Reached(w) /\ pc[Mqtt] = "late" /\ r \in Reviews
      /\ UNCHANGED <<phone, reviews, events, life, descs>>
  BY PaidBothFaultless DEF LateDescription, Undisturbed, world, store, TypeOK, Job, Procs
<1>2. st = reviews[Main][r] /\ events[Answer(v)] = events[Main]
  BY <1>1, MainAnswers
<1>3. CASE st # None /\ Goto(Mqtt, "rerender") /\ Become(Mqtt, j)
  <2>1. j.review = r /\ j.phase = "description"
    BY DEF TypeOK, Job, Procs
  <2>2. CameraOf[r] \in Cameras
    BY <1>1, <1>2, <1>3 DEF Final, Filed, Recording
  <2> HIDE DEF j, st
  <2>3. Abreast("rerender", j) /\ Progress("rerender", j) /\ At("rerender", j, r)
    BY <2>1, <2>2 DEF Abreast, Progress, At, Work
  <2> QED BY <1>1, <1>3, <2>3, FinalGo
<1>4. CASE Done(Mqtt) /\ ~(r \in events[Main] /\ st # None /\ st.ended)
  <2>1. pc'[Mqtt] = "idle" /\ pc[Mqtt] \notin Work
    BY <1>1, <1>4 DEF Done, Goto, TypeOK, Procs, Work
  <2>2. Abreast(pc[Mqtt], job[Mqtt])' /\ Progress(pc'[Mqtt], job'[Mqtt])
    BY <2>1 DEF Abreast, Progress, Work
  <2>3. reviews[Main][r] = None \/ ~Ends(life[r]) \/ ~KeepsTexts
    <3> SUFFICES ASSUME reviews[Main][r] # None, Ends(life[r]), KeepsTexts PROVE FALSE
      OBVIOUS
    <3>1. Filed(r, pc[Mqtt], job[Mqtt]) /\ Settled(r, pc[Mqtt], job[Mqtt], life[r]) /\ r \in HasEvent
      BY <1>1 DEF Final, Abreast
    <3>2. r \in events[Main] /\ st.ended
      BY <1>1, <1>2, <2>1, <3>1 DEF Filed, Settled, Recording, At
    <3> QED BY <1>2, <1>4, <3>2
  <2>4. \A q \in Reviews : Late(pc[Mqtt], job[Mqtt], q) => q = r
    BY DEF Late
  <2> HIDE DEF r
  <2> QED BY <1>1, <2>1, <2>2, <2>3, <2>4, FinalMove DEF At
<1> QED BY <1>2, <1>3, <1>4 DEF LateDescription

LEMMA FinalNotNotified ==
  ASSUME TypeOK, TypeOK', Undisturbed, Frugal, Final, NEW w \in SUBSET Backends,
         NotNotified(Mqtt, w)
  PROVE  Final'
<1> DEFINE j == [job[Mqtt] EXCEPT !.tag = "fn"]
<1>1. /\ pc[Mqtt] = "load" /\ reviews[Main][job[Mqtt].review] = None
      /\ UNCHANGED <<phone, reviews, events, life, descs>>
  BY MainAnswers DEF NotNotified, Loads, Loaded, world, store
<1>2. j.review = job[Mqtt].review /\ j.phase = job[Mqtt].phase
  BY DEF TypeOK, Job, Procs
<1> HIDE DEF j
<1>3. CASE Done(Mqtt)
  BY <1>1, <1>3, FinalDone
<1>4. CASE Goto(Mqtt, "cooldown") /\ Become(Mqtt, j)
  BY <1>1, <1>2, <1>4, FinalOn DEF Work
<1> QED BY <1>3, <1>4 DEF NotNotified, j

LEMMA FinalNotified ==
  ASSUME TypeOK, TypeOK', Undisturbed, Frugal, Final, NEW w \in SUBSET Backends,
         AlreadyNotified(Mqtt, w)
  PROVE  Final'
<1>1. /\ pc[Mqtt] = "load" /\ ~Ended(job[Mqtt].phase) /\ Done(Mqtt)
      /\ UNCHANGED <<phone, reviews, events, life, descs>>
  BY DEF AlreadyNotified, Loads, world, store
<1>2. ~Ends(life[job[Mqtt].review])
  BY <1>1 DEF Final, Abreast, Ends, Ended, Work
<1> QED BY <1>1, <1>2, FinalDone

LEMMA FinalUpdate ==
  ASSUME TypeOK, TypeOK', Frugal, Final, NEW w \in SUBSET Backends,
         RefreshUnderBetterRule(Mqtt, w) \/ SendUpdate(Mqtt, w)
  PROVE  Final'
<1> DEFINE st == Loaded(Mqtt, w)
           j == [job[Mqtt] EXCEPT !.prior = st, !.tag = st.tag]
           k == [job[Mqtt] EXCEPT !.prior = st, !.tag = st.tag, !.rule = st.ruleIndex]
<1>1. /\ pc[Mqtt] = "load" /\ Goto(Mqtt, "rerender") /\ (Become(Mqtt, j) \/ Become(Mqtt, k))
      /\ UNCHANGED <<phone, reviews, events, life, descs>>
  BY DEF RefreshUnderBetterRule, SendUpdate, Loads, world, store
<1>2. /\ j.review = job[Mqtt].review /\ j.phase = job[Mqtt].phase
      /\ k.review = job[Mqtt].review /\ k.phase = job[Mqtt].phase
  BY DEF TypeOK, Job, Procs
<1> HIDE DEF j, k
<1> QED BY <1>1, <1>2, FinalOn DEF Work

\* Nobody was reached, so the send was a first one and there is nothing on record.
LEMMA FinalNobody ==
  ASSUME NeverCritical, TypeOK, TypeOK', Locals, Undisturbed, Frugal, Turn, Final,
         UNCHANGED <<phone, reviews, events, life, descs>>,
         pc[Mqtt] \in {"cooldown", "send"}, Done(Mqtt)
  PROVE  Final'
  BY FirstSend, FinalDone

\* What a target shows once a rendered notification has landed on it.
LEMMA Landing ==
  ASSUME TypeOK, NEW d \in Delivery, Lands(Mqtt, d)
  PROVE  /\ \A q \in Reviews, t \in Targets, g \in Tags :
              phone'[q][t][g] = IF q = job[Mqtt].review /\ t = d.target /\ g = TagOf(d, job[Mqtt].tag)
                                THEN Content(Mqtt, d.target) ELSE phone[q][t][g]
         /\ Content(Mqtt, d.target).ended = Ended(job[Mqtt].phase)
         /\ Content(Mqtt, d.target).text = job[Mqtt].text
<1>1. /\ job[Mqtt].review \in Reviews /\ d.target \in Targets
      /\ TagOf(d, job[Mqtt].tag) \in Tags
  BY TagOfType DEF TypeOK, Job, Delivery, Procs
<1> DEFINE r == job[Mqtt].review
           g == TagOf(d, job[Mqtt].tag)
           n == Content(Mqtt, d.target)
<1>2. phone' = [phone EXCEPT ![r][d.target][g] = n]
  BY DEF Lands
<1>3. n.ended = Ended(job[Mqtt].phase) /\ n.text = job[Mqtt].text
  BY DEF Content
<1>4. r \in Reviews /\ g \in Tags
  BY <1>1
<1> HIDE DEF r, g, n
<1>5. \A q \in Reviews, t \in Targets, h \in Tags :
        phone'[q][t][h] = IF q = r /\ t = d.target /\ h = g THEN n ELSE phone[q][t][h]
  BY <1>1, <1>2, <1>4 DEF TypeOK
<1> QED BY <1>3, <1>5 DEF r, g, n

\* The notification landed on d's target; the others of the review are as they were, and
\* no other review's is touched.
LEMMA FinalLand ==
  ASSUME TypeOK, TypeOK', Frugal, Final, NEW d \in Delivery, NEW j,
         UNCHANGED <<pc, reviews, events, life, descs>>, pc[Mqtt] \in {"send", "edit"},
         Lands(Mqtt, d), Become(Mqtt, j),
         j.review = job[Mqtt].review, j.phase = job[Mqtt].phase, j.text = job[Mqtt].text,
         j.tag = job[Mqtt].tag, j.prior = job[Mqtt].prior,
         pc[Mqtt] = "send" => j.sent = job[Mqtt].sent \cup {d},
         pc[Mqtt] = "edit" => j.prior # None /\ j.todo = job[Mqtt].todo \ {d}
  PROVE  Final'
<1>1. job'[Mqtt] = j /\ job[Mqtt] \in Job
  BY DEF Become, TypeOK, Procs
<1>2. Abreast(pc[Mqtt], job[Mqtt])'
  BY <1>1 DEF Final, Abreast, Main
<1>3. ASSUME NEW e \in Delivery,
             e = d \/ Bears(job[Mqtt], e)
      PROVE  LET n == phone'[j.review][e.target][TagOf(e, j.tag)]
             IN  n.ended = Ended(j.phase) /\ n.text = j.text
  <2>1. e.target \in Targets /\ TagOf(e, j.tag) \in Tags /\ j.review \in Reviews
    BY <1>1, TagOfType DEF Delivery, Job
  <2> QED BY <1>3, <2>1, Landing DEF Bears
<1>4. Progress(pc[Mqtt], job[Mqtt])'
  <2>1. CASE pc[Mqtt] = "send"
    <3>1. \A e \in j.sent : e \in Delivery /\ (e = d \/ Bears(job[Mqtt], e))
      BY <1>1, <2>1 DEF Final, Progress, Job
    <3> QED BY <1>1, <1>3, <2>1, <3>1 DEF Progress, Bears
  <2>2. CASE pc[Mqtt] = "edit"
    <3>1. job[Mqtt].prior \in ReviewState
      BY <1>1, <2>2 DEF Job
    <3>2. \A e \in j.prior.deliveries \ j.todo : e \in Delivery /\ (e = d \/ Bears(job[Mqtt], e))
      BY <1>1, <2>2, <3>1 DEF Final, Progress, ReviewState
    <3> QED BY <1>1, <1>3, <2>2, <3>2 DEF Progress, Bears
  <2> QED BY <2>1, <2>2
<1>5. ASSUME NEW q \in Reviews
      PROVE  Filed(q, pc[Mqtt], job[Mqtt])' /\ Settled(q, pc[Mqtt], job[Mqtt], life[q])'
  <2>1. Filed(q, pc[Mqtt], job[Mqtt]) /\ Settled(q, pc[Mqtt], job[Mqtt], life[q])
    BY DEF Final
  <2>2. Filed(q, pc[Mqtt], job[Mqtt])'
    BY <1>1, <2>1 DEF Filed, Recording, Main
  <2>3. ASSUME reviews[Main][q] # None, q # j.review, NEW e \in reviews[Main][q].deliveries
        PROVE  phone'[q][e.target][TagOf(e, reviews[Main][q].tag)]
                 = phone[q][e.target][TagOf(e, reviews[Main][q].tag)]
    <3>1. reviews[Main][q] \in ReviewState
      BY <2>3, ServingIsBackend DEF TypeOK
    <3>2. e.target \in Targets /\ TagOf(e, reviews[Main][q].tag) \in Tags
      BY <3>1, TagOfType DEF ReviewState, Delivery
    <3> QED BY <2>3, <3>2, Landing
  <2>4. Settled(q, pc[Mqtt], job[Mqtt], life[q])'
    <3>1. CASE q = j.review
      BY <1>1, <3>1 DEF Settled, At, Work
    <3>2. CASE q # j.review
      BY <1>1, <2>1, <2>3, <3>2 DEF Settled, Recording, Main, At, Late
    <3> QED BY <3>1, <3>2
  <2> QED BY <2>2, <2>4
<1>6. \A q \in Reviews \ HasEvent : descs'[Main][q] = None
  BY DEF Final
<1> QED BY <1>2, <1>4, <1>5, <1>6, SendsStayNone DEF Final, Main

LEMMA FinalPush ==
  ASSUME TypeOK, TypeOK', Undisturbed, Frugal, Final, NEW d \in Delivery,
         NEW o \in {"ok", "lost", "failed"}, Push(Mqtt, d, o)
  PROVE  Final'
<1> DEFINE j == [job[Mqtt] EXCEPT !.todo = @ \ {d}, !.sent = Confirmed(Mqtt, d, o)]
<1>1. o = "ok"
  BY DEF Push, Outcomes, Undisturbed, Final
<1>2. /\ UNCHANGED <<pc, reviews, events, life, descs>> /\ pc[Mqtt] = "send"
      /\ Lands(Mqtt, d) /\ Become(Mqtt, j)
  BY <1>1 DEF Push, store
<1>3. /\ j.review = job[Mqtt].review /\ j.phase = job[Mqtt].phase /\ j.text = job[Mqtt].text
      /\ j.tag = job[Mqtt].tag /\ j.prior = job[Mqtt].prior /\ j.sent = job[Mqtt].sent \cup {d}
  BY <1>1 DEF Confirmed, TypeOK, Job, Procs
<1> HIDE DEF j
<1> QED BY <1>2, <1>3, FinalLand

LEMMA FinalEdit ==
  ASSUME TypeOK, TypeOK', Locals, Undisturbed, Frugal, Final, NEW d \in Delivery,
         NEW o \in {"ok", "lost", "failed"}, Edit(Mqtt, d, o)
  PROVE  Final'
<1> DEFINE j == [job[Mqtt] EXCEPT !.todo = @ \ {d}]
<1>1. o = "ok"
  BY DEF Edit, Outcomes, Undisturbed, Final
<1>2. /\ UNCHANGED <<pc, reviews, events, life, descs>> /\ pc[Mqtt] = "edit"
      /\ Lands(Mqtt, d) /\ Become(Mqtt, j) /\ job[Mqtt].prior # None
  BY <1>1 DEF Edit, store, Locals, LocalOK, Procs
<1>3. /\ j.review = job[Mqtt].review /\ j.phase = job[Mqtt].phase /\ j.text = job[Mqtt].text
      /\ j.tag = job[Mqtt].tag /\ j.prior = job[Mqtt].prior /\ j.todo = job[Mqtt].todo \ {d}
  BY DEF TypeOK, Job, Procs
<1> HIDE DEF j
<1> QED BY <1>2, <1>3, FinalLand

\* Everyone on the record that is saved shows what was rendered last.
LEMMA FinalSave ==
  ASSUME NeverCritical, TypeOK, TypeOK', Locals, Undisturbed, Frugal, Turn, Final,
         NEW w \in SUBSET Backends, SaveReview(Mqtt, w)
  PROVE  Final'
<1> DEFINE r  == job[Mqtt].review
           st == IF pc[Mqtt] = "send" THEN Delivered(Mqtt) ELSE Edited(Mqtt)
<1>1. /\ r \in Reviews /\ pc[Mqtt] \in {"send", "edit"} /\ job[Mqtt].todo = {}
      /\ \A q \in Reviews : reviews'[Main][q] = IF q = r THEN st ELSE reviews[Main][q]
      /\ pc'[Mqtt] \in {"index", "idle"} /\ (pc'[Mqtt] = "index" <=> r \in HasEvent)
      /\ job'[Mqtt] = IF pc'[Mqtt] = "index" THEN [Blank EXCEPT !.review = r] ELSE Blank
      /\ UNCHANGED <<phone, descs, events, life>>
  BY SavedInMain DEF SaveReview, HasResult, Result
<1>2. pc'[Mqtt] = "index" => job'[Mqtt].review = r
  BY <1>1 DEF Blank
<1>3. st.ended = Ended(job[Mqtt].phase) /\ \A d \in st.deliveries :
        LET n == phone[r][d.target][TagOf(d, st.tag)]
        IN  n.ended = Ended(job[Mqtt].phase) /\ n.text = job[Mqtt].text
  <2>1. CASE pc[Mqtt] = "send"
    <3>1. st.ended = Ended(job[Mqtt].phase) /\ st.tag = job[Mqtt].tag /\ st.deliveries = job[Mqtt].sent
      BY <2>1, FirstSend DEF Delivered, Escalating
    <3> HIDE DEF st
    <3> QED BY <2>1, <3>1 DEF Final, Progress, Bears
  <2>2. CASE pc[Mqtt] = "edit"
    <3>1. /\ job[Mqtt].prior # None /\ job[Mqtt].prior \in ReviewState
          /\ job[Mqtt].tag = job[Mqtt].prior.tag
      BY <2>2 DEF Locals, LocalOK, TypeOK, Procs, Job
    <3>2. /\ st.ended = Ended(job[Mqtt].phase) /\ st.tag = job[Mqtt].tag
          /\ st.deliveries = job[Mqtt].prior.deliveries
      BY <2>2, <3>1 DEF Edited, ReviewState
    <3> HIDE DEF st
    <3> QED BY <1>1, <2>2, <3>2 DEF Final, Progress, Bears
  <2> QED BY <1>1, <2>1, <2>2
<1> HIDE DEF st
<1>4. /\ CameraOf[r] \in Cameras /\ (Ends(life[r]) => Ended(job[Mqtt].phase))
      /\ KeepsTexts => job[Mqtt].text = descs[Main][r]
  BY <1>1 DEF Final, Abreast, Work, Ends, Ended
<1>5. Abreast(pc[Mqtt], job[Mqtt])' /\ Progress(pc[Mqtt], job[Mqtt])'
  BY <1>1 DEF Abreast, Progress, Work
<1>6. ASSUME NEW q \in Reviews
      PROVE  Filed(q, pc[Mqtt], job[Mqtt])' /\ Settled(q, pc[Mqtt], job[Mqtt], life[q])'
  <2>1. Filed(q, pc[Mqtt], job[Mqtt]) /\ Settled(q, pc[Mqtt], job[Mqtt], life[q])
    BY DEF Final
  <2>2. CASE q = r
    <3>1. reviews'[Main][q] = st
      BY <1>1, <2>2
    <3>2. Filed(q, pc[Mqtt], job[Mqtt])'
      BY <1>1, <1>2, <1>4, <2>2 DEF Filed
    <3>3. Settled(q, pc[Mqtt], job[Mqtt], life[q])'
      BY <1>1, <1>3, <1>4, <2>2, <3>1 DEF Settled, Recording, Main
    <3> QED BY <3>2, <3>3
  <2>3. CASE q # r
    <3>1. reviews'[Main][q] = reviews[Main][q]
      BY <1>1, <2>3
    <3>2. Filed(q, pc[Mqtt], job[Mqtt])'
      BY <1>1, <2>1, <3>1 DEF Filed, Recording, Main
    <3>3. ~At(pc[Mqtt], job[Mqtt], q) /\ ~Late(pc[Mqtt], job[Mqtt], q)
      BY <1>1, <2>3 DEF At, Late
    <3>4. Settled(q, pc[Mqtt], job[Mqtt], life[q])'
      BY <1>1, <2>1, <3>1, <3>3 DEF Settled, Recording, Main
    <3> QED BY <3>2, <3>4
  <2> QED BY <2>2, <2>3
<1>7. \A q \in Reviews \ HasEvent : descs'[Main][q] = None
  BY <1>1 DEF Final
<1> QED BY <1>5, <1>6, <1>7, SendsStayNone DEF Final, Main

\* What expires is missed by nobody: a record that is gone tracks nothing.
LEMMA FinalForget ==
  ASSUME TypeOK, TypeOK', Frugal, Final, NEW b \in Backends,
         ExpireReview(b) \/ ExpireEvent(b) \/ ExpireDescription(b)
  PROVE  Final'
<1>1. UNCHANGED <<phone, pc, job, life>>
  BY DEF ExpireReview, ExpireEvent, ExpireDescription, Expiry, world
<1>2. \A r \in Reviews :
        /\ reviews'[Main][r] \in {reviews[Main][r], None}
        /\ descs'[Main][r] \in {descs[Main][r], None}
        /\ KeepsTexts => descs'[Main][r] = descs[Main][r] /\ (r \in events[Main] => r \in events'[Main])
  <2>1. CASE ExpireReview(b)
    BY <2>1, ServingIsBackend DEF ExpireReview, TypeOK
  <2>2. CASE ExpireEvent(b)
    BY <2>2, ServingIsBackend DEF ExpireEvent, Expiry, KeepsTexts, TypeOK
  <2>3. CASE ExpireDescription(b)
    BY <2>3, ServingIsBackend DEF ExpireDescription, Expiry, KeepsTexts, TypeOK
  <2> QED BY <2>1, <2>2, <2>3
<1>3. Abreast(pc[Mqtt], job[Mqtt])'
  <2>1. job[Mqtt].review \in Reviews
    BY DEF TypeOK, Job, Procs
  <2> QED BY <1>1, <1>2, <2>1 DEF Final, Abreast, Main
<1>4. Progress(pc'[Mqtt], job'[Mqtt])
  BY <1>1 DEF Final
<1> QED BY <1>1, <1>2, <1>3, <1>4, FinalMove

LEMMA FinalIndex ==
  ASSUME TypeOK, TypeOK', Undisturbed, Frugal, Final, NEW w \in SUBSET Backends, IndexEvent(Mqtt, w)
  PROVE  Final'
<1>1. /\ pc[Mqtt] = "index" /\ pc'[Mqtt] = "idle" /\ UNCHANGED <<phone, life, reviews, descs>>
      /\ Reached(w)
      /\ events' = Applied(events, w, [b \in Backends |-> events[b] \cup {job[Mqtt].review}])
  BY DEF IndexEvent, Done, Goto, TypeOK, Procs, world
<1>2. events'[Main] = events[Main] \cup {job[Mqtt].review}
  <2>1. w = {Main} /\ Main \in Backends
    BY <1>1, MainAnswers, ServingIsBackend
  <2> QED BY <1>1, <2>1 DEF Applied
<1>3. Abreast(pc[Mqtt], job[Mqtt])' /\ Progress(pc'[Mqtt], job'[Mqtt])
  BY <1>1 DEF Abreast, Progress, Work
<1>4. pc[Mqtt] \notin Work \cup {"late"}
  BY <1>1 DEF Work
<1> QED BY <1>1, <1>2, <1>3, <1>4, FinalMove DEF At, Late

LEMMA FinalNext ==
  ASSUME NoHoldoffs, NeverCritical, AlwaysMatched, Alone, TypeOK, TypeOK', Locals, Undisturbed,
         Frugal,
         Turn, Newest, Final, [Next]_vars
  PROVE  Final'
<1>1. ASSUME NEW m \in Message, NEW w \in SUBSET Backends, IgnoreReview(m, w) PROVE Final'
  BY <1>1, FinalIgnore
<1>2. ASSUME NEW m \in Message, NEW w \in SUBSET Backends, HandleGenAI(m, w) PROVE Final'
  BY <1>2, FinalReceive DEF HandleGenAI
<1>3. ASSUME NEW m \in Message, NEW w \in SUBSET Backends, HandlePhase(m, w) PROVE Final'
  BY <1>3, FinalReceive DEF HandlePhase
<1>4. ASSUME NEW r \in HasEvent, NEW d \in Descriptions, NEW v \in SUBSET Backends,
            NEW w \in SUBSET Backends, HandleDescription(r, d, v, w)
      PROVE  Final'
  BY <1>4, FinalDescribe
<1>5. ASSUME NEW v \in SUBSET Backends, NEW w \in SUBSET Backends, LateDescription(v, w)
      PROVE  Final'
  BY <1>5, FinalLate
<1>6. ASSUME Unmatched(Mqtt) PROVE Final'
  BY <1>6 DEF Unmatched, AlwaysMatched, TypeOK, Job, Procs
<1>7. ASSUME NEW i \in RuleIds, MatchNow(Mqtt, i) PROVE Final'
  <2> DEFINE j == [job[Mqtt] EXCEPT !.rule = i, !.holding = FALSE]
  <2>1. j.review = job[Mqtt].review /\ j.phase = job[Mqtt].phase
    BY DEF TypeOK, Job, Procs
  <2>2. /\ pc[Mqtt] = "match" /\ Goto(Mqtt, "load") /\ Become(Mqtt, j)
        /\ UNCHANGED <<phone, life, descs, reviews, events>>
    BY <1>7 DEF MatchNow, store, world
  <2> HIDE DEF j
  <2> QED BY <2>1, <2>2, FinalOn DEF Work
<1>8. ASSUME NEW w \in SUBSET Backends, NotNotified(Mqtt, w) PROVE Final'
  BY <1>8, FinalNotNotified
<1>9. ASSUME NEW w \in SUBSET Backends, Escalate(Mqtt, w) PROVE Final'
  BY <1>9 DEF Escalate, Escalates, NeverCritical, TypeOK, Job, Procs
<1>10. ASSUME NEW w \in SUBSET Backends, RefreshUnderBetterRule(Mqtt, w) PROVE Final'
  BY <1>10, FinalUpdate
<1>11. ASSUME NEW w \in SUBSET Backends, SendUpdate(Mqtt, w) PROVE Final'
  BY <1>11, FinalUpdate
<1>12. ASSUME NEW w \in SUBSET Backends, AlreadyNotified(Mqtt, w) PROVE Final'
  BY <1>12, FinalNotified
<1>13. ASSUME SkipCooldown(Mqtt) PROVE Final'
  BY <1>13, FinalGoto DEF SkipCooldown, Work, store, world
<1>14. ASSUME NothingDelivered(Mqtt) PROVE Final'
  BY <1>14, FinalNobody DEF NothingDelivered, store, world
<1>15. ASSUME NEW w \in SUBSET Backends, OpenCooldown(Mqtt, w) PROVE Final'
  BY <1>15, FinalGoto DEF OpenCooldown, TryCooldown, Work, world
<1>16. ASSUME NEW w \in SUBSET Backends, SuppressedByCooldown(Mqtt, w) PROVE Final'
  BY <1>16, FinalNobody DEF SuppressedByCooldown, TryCooldown, world
<1>17. ASSUME NEW w \in SUBSET Backends, Render(Mqtt, w) PROVE Final'
  BY <1>17, FinalRender
<1>18. ASSUME NEW w \in SUBSET Backends, Rerender(Mqtt, w) PROVE Final'
  BY <1>18, FinalRerender
<1>19. ASSUME NEW d \in Delivery, NEW o \in {"ok", "lost", "failed"}, Push(Mqtt, d, o)
      PROVE  Final'
  BY <1>19, FinalPush
<1>20. ASSUME NEW d \in Delivery, NEW o \in {"ok", "lost", "failed"}, Edit(Mqtt, d, o)
      PROVE  Final'
  BY <1>20, FinalEdit
<1>21. ASSUME NEW w \in SUBSET Backends, ReleaseCooldown(Mqtt, w) PROVE Final'
  BY <1>21, FinalNobody DEF ReleaseCooldown, world
<1>22. ASSUME NEW w \in SUBSET Backends, SaveReview(Mqtt, w) PROVE Final'
  BY <1>22, FinalSave
<1>23. ASSUME NEW w \in SUBSET Backends, IndexEvent(Mqtt, w) PROVE Final'
  BY <1>23, FinalIndex
<1>24. ASSUME NEW b \in Backends, ExpireSeen(b) PROVE Final'
  BY <1>24, FinalSame DEF ExpireSeen, Expiry, world
<1>25. ASSUME NEW b \in Backends, ExpireCooldown(b) PROVE Final'
  BY <1>25, FinalSame DEF ExpireCooldown, Expiry, world
<1>26. ASSUME NEW b \in Backends, ExpireReview(b) PROVE Final'
  BY <1>26, FinalForget
<1>27. ASSUME NEW b \in Backends, ExpireEvent(b) PROVE Final'
  BY <1>27, FinalForget
<1>28. ASSUME NEW b \in Backends, ExpireDescription(b) PROVE Final'
  BY <1>28, FinalForget
<1>29. ASSUME Shutdown PROVE Final'
  BY <1>29 DEF Shutdown, Undisturbed
<1>30. ASSUME Restart PROVE Final'
  BY <1>30 DEF Restart, Undisturbed
<1>31. CASE UNCHANGED vars
  BY <1>31, FinalSame DEF vars, store, world
<1>32. AloneStep
  BY AloneNext DEF Undisturbed
<1> QED
  BY <1>32, <1>1, <1>2, <1>3, <1>4, <1>5, <1>6, <1>7, <1>8, <1>9, <1>10, <1>11, <1>12, <1>13,
     <1>14, <1>15, <1>16, <1>17, <1>18, <1>19, <1>20, <1>21, <1>22, <1>23, <1>24, <1>25,
     <1>26, <1>27, <1>28, <1>29, <1>30, <1>31 DEF AloneStep

LEMMA FinalInvariant ==
  ASSUME NoHoldoffs, NeverCritical, AlwaysMatched, MaxFaults = 0, MaxSendFaults = 0, MaxRestarts = 0
  PROVE  Spec => []Final
<1> DEFINE Inv == Undisturbed /\ Alone /\ Turn /\ Final
<1>1. Spec => [](TypeOK /\ Locals)
  BY TypesAndLocals
<1>2. Spec => []Newest
  BY NewestInvariant
<1>3. Init => Inv
  <2>1. Init => Undisturbed /\ Alone /\ Turn
    BY BlankType, ServingIsBackend
       DEF Init, Undisturbed, Faultless, Alone, Turn, MemorySpare, Held, Refines, Procs, Backends
  <2>2. ASSUME Init PROVE Final
    <3>1. /\ pc[Mqtt] = "idle" /\ budget.sends = 0
          /\ \A r \in Reviews : reviews[Main][r] = None /\ descs[Main][r] = None
      BY <2>2, ServingIsBackend DEF Init, Procs
    <3> QED BY <3>1 DEF Final, Abreast, Progress, Filed, Settled, Recording, Work
  <2> QED BY <2>1, <2>2
<1>4. TypeOK /\ TypeOK' /\ Locals /\ Newest /\ Inv /\ [Next]_vars => Inv'
  BY FrugalNext, AloneKept, TurnNext, FinalNext DEF Frugal, Undisturbed, Faultless
<1> QED BY <1>1, <1>2, <1>3, <1>4, PTL DEF Spec

\* The end reaches every notification the service still tracks: where no rule has a
\* holdoff, none is critical and one matches whatever is reported, while no send and no
\* operation on the primary fails and the service is not stopped, whatever expires.
THEOREM NobodyLeftStale ==
  ASSUME NoHoldoffs, NeverCritical, AlwaysMatched, HasPrimary,
         MaxFaults = 0, MaxSendFaults = 0, MaxRestarts = 0
  PROVE  Spec => []NothingLeftStale
<1>1. Final => NothingLeftStale
  <2> SUFFICES ASSUME Final, Quiet, NEW r \in Reviews, Over(r), NEW n \in Recorded(r)
               PROVE  phone[r][n[1]][n[2]].ended
    BY DEF NothingLeftStale
  <2>1. Settled(r, pc[Mqtt], job[Mqtt], life[r]) /\ ~At(pc[Mqtt], job[Mqtt], r) /\ Ends(life[r])
    BY DEF Final, At, Work, Quiet, Procs, Over, Ends
  <2>2. reviews["primary"][r] # None
    BY DEF Recorded
  <2>3. PICK d \in reviews["primary"][r].deliveries :
          n = <<d.target, TagOf(d, reviews["primary"][r].tag)>>
    BY <2>2 DEF Recorded
  <2> QED BY <2>1, <2>2, <2>3 DEF Settled, Recording, Main
<1> QED BY <1>1, FinalInvariant, PTL

\* By then each of them carries the newest description too, where neither descriptions
\* nor the index of events expires.
THEOREM NewestDescriptionShown ==
  ASSUME NoHoldoffs, NeverCritical, AlwaysMatched, HasPrimary, KeepsTexts,
         MaxFaults = 0, MaxSendFaults = 0, MaxRestarts = 0
  PROVE  Spec => []DescriptionIsShown
<1>1. Final => DescriptionIsShown
  <2> SUFFICES ASSUME Final, Quiet, NEW r \in Reviews, Over(r), NEW n \in Recorded(r)
               PROVE  phone[r][n[1]][n[2]].text = descs["primary"][r]
    BY DEF DescriptionIsShown
  <2>1. /\ Settled(r, pc[Mqtt], job[Mqtt], life[r]) /\ Ends(life[r])
        /\ ~At(pc[Mqtt], job[Mqtt], r) /\ ~Late(pc[Mqtt], job[Mqtt], r)
    BY DEF Final, At, Late, Work, Quiet, Procs, Over, Ends
  <2>2. reviews["primary"][r] # None
    BY DEF Recorded
  <2>3. PICK d \in reviews["primary"][r].deliveries :
          n = <<d.target, TagOf(d, reviews["primary"][r].tag)>>
    BY <2>2 DEF Recorded
  <2> QED BY <2>1, <2>2, <2>3 DEF Settled, Recording, Main
<1> QED BY <1>1, FinalInvariant, PTL
=============================================================================
