------------------------- MODULE NotifierProperties -------------------------
(***************************************************************************)
(* What should be true of the notifier.  Which of these hold under which   *)
(* interleavings and failures is what the runs of MCNotifier are about.    *)
(***************************************************************************)
EXTENDS Notifier

A == INSTANCE Audience

\* An update edits a notification that is already on the target and rings
\* nobody; a push goes only to someone the rule is addressed to, in the form
\* they allow, and an escalation only to someone it can wake.  This is what the
\* comments of redeliver, fanOut and handleGenAI promise, whatever goroutines
\* interleave and whichever store operations and sends fail.
AudienceSpec == A!Spec

\* The pending map and the timers agree: an armed timer is its review's live
\* holdoff, and a live holdoff has a timer that is still to decide it.  An entry
\* without a timer would swallow every later payload of the review.
HoldsAreTracked ==
  /\ \A h \in Holds : pc[h] = "armed" => pending[job[h].review] = h
  /\ \A r \in Reviews : pending[r] # None =>
       /\ pc[pending[r]] \in {"armed", "fired"}
       /\ job[pending[r]].review = r

\* A live holdoff carries the newest lifecycle message of its review, so the
\* face it waits for is seen when it decides (pendingDecision's comment).
HoldKeepsNewest ==
  \A r \in Reviews : pending[r] # None /\ life[r].phase # "genai" =>
    LET j == job[pending[r]] IN j.phase = life[r].phase /\ j.content = life[r].content

\* Every holdoff ends: its timer decides, or the review's end does.
HeldIsDecided == \A r \in Reviews : pending[r] # None ~> pending[r] = None

-----------------------------------------------------------------------------
\* The notification of delivery d of review r is on its target.
IsShown(r, d, tag) == phone[r][d.target][TagOf(d, tag)] # None

\* Whatever a review's state or a goroutine's copy of it lists is on its target
\* already, under the tag the state gives it: an update, which has no other
\* guard, edits it and does not make a new one (redeliver's "an update can't
\* create a notification for someone policy kept out").
RecordIsShown ==
  /\ \A b \in Backends, r \in Reviews : reviews[b][r] # None =>
       \A d \in reviews[b][r].deliveries : IsShown(r, d, reviews[b][r].tag)
  /\ \A p \in Procs : job[p].prior # None =>
       \A d \in job[p].prior.deliveries : IsShown(job[p].review, d, job[p].prior.tag)

\* A send that has chosen its targets keeps to them: people its rule lists, only
\* those it can wake under an escalation's tag; an edit keeps to the targets of
\* the state it loaded, under that state's tag.
SendsKeepToTheirAudience ==
  \A p \in Procs :
    /\ pc[p] = "send" =>
         /\ \A d \in job[p].todo \cup job[p].sent : d.tag = SameTag
         /\ \A d \in job[p].todo :
              /\ OwnerOf[d.target] \in Rules[job[p].rule].to
              /\ job[p].tag = "fn-esc" => Wakes(job[p].rule, d.target)
         /\ \A d \in job[p].sent : IsShown(job[p].review, d, job[p].tag)
    /\ pc[p] = "edit" =>
         /\ Escalating(p) /\ job[p].tag = job[p].prior.tag
         /\ job[p].todo \subseteq job[p].prior.deliveries

-----------------------------------------------------------------------------
Quiet == \A p \in Procs : pc[p] = "idle"
Over(r) == life[r] # None /\ life[r].phase \in {"end", "genai"}

\* The notifications the state of review r says are on its targets.
Recorded(r) ==
  LET st == reviews["primary"][r] IN
  IF st = None THEN {}
  ELSE {<<d.target, TagOf(d, st.tag)>> : d \in st.deliveries}

\* Once a review is over and nothing is being sent, every notification the
\* service still tracks was rendered from the ended review: the end reached it
\* ("so the end of the review still updates it instead of leaving it stale").
NothingLeftStale ==
  Quiet => \A r \in Reviews : Over(r) =>
    \A n \in Recorded(r) : phone[r][n[1]][n[2]].ended

\* By then each of them also carries the newest description of its event: one
\* that landed before the end rode the end update, a later one was an update of
\* its own (HandleTrackedObjectUpdate's comment).
DescriptionIsShown ==
  Quiet => \A r \in Reviews : Over(r) =>
    \A n \in Recorded(r) : phone[r][n[1]][n[2]].text = descs["primary"][r]

\* Whatever rang is on record once the send is over, so that later phases edit
\* it, and no phase of the same review rings it again: a target rings at most
\* twice, for a first push and an escalation.
RingsAreAccountedFor ==
  \A r \in Reviews, t \in Targets :
    /\ Quiet /\ rings[r][t] > 0 => \E n \in Recorded(r) : n[1] = t
    /\ rings[r][t] <= 2

\* What is remembered of a review never falls to a lower-priority rule and
\* never loses "critical" ("a lower-priority match never demotes a critical
\* alert").
NeverDemoted ==
  [][\A b \in Backends, r \in Reviews :
       reviews[b][r] # None /\ reviews'[b][r] # None =>
         /\ reviews'[b][r].ruleIndex <= reviews[b][r].ruleIndex
         /\ reviews[b][r].critical => reviews'[b][r].critical]_vars

-----------------------------------------------------------------------------
\* The review whose send opened the window that p runs into.
Opener(p, w) == cooling[Answer(w)][KeyOf(p)]

Rang(r)      == \E t \in Targets : rings[r][t] > 0
BeingSent(r) == \E p \in Procs : pc[p] \in {"render", "send"} /\ job[p].review = r

\* What suppresses a review is the push of another one: the window it runs into
\* was opened for a review that rang someone or is being sent, and never for
\* itself, since cooldowns gate first sends and not the updates that follow ("a
\* cooldown exists to stop a second push").
SuppressedOnlyByAPush ==
  [][\A p \in Procs, w \in SUBSET Backends :
       SuppressedByCooldown(p, w) =>
         /\ Opener(p, w) # job[p].review
         /\ Rang(Opener(p, w)) \/ BeingSent(Opener(p, w))]_vars

\* With one global cooldown on every rule, a window lets one review ring: a
\* second one needs an expiry, or a send whose failure released the window.
OneReviewPerWindow ==
  (\A i \in RuleIds : Rules[i].cooldown /\ Rules[i].scope = "global") =>
    Cardinality({r \in Reviews : Rang(r)})
      <= 1 + (MaxExpiries - budget.expiries) + (MaxSendFaults - budget.sends)
=============================================================================
