------------------------------ MODULE Decisions ------------------------------
(***************************************************************************)
(* What should be true of the decisions that read no state: which          *)
(* configurations the service starts on, which rule a review matches, and  *)
(* what its notification carries.  A behaviour looks at one input, a       *)
(* configuration, a window or a notification to build, and stops.          *)
(***************************************************************************)
EXTENDS Config, Content

CONSTANTS Inputs,      \* what is looked at
          Contexts,    \* the reviews, as rules see them
          Faces,       \* the faces that can be recognised
          Stranger,    \* one that no configuration names
          Entities     \* the entities Home Assistant can be asked about

\* A window, its ends as they were parsed.
IsWindow(w) == {w.from.kind, w.to.kind} \subseteq {"clock", "solar", "invalid"}

IsCondition(u) ==
  /\ Stranger \notin u.subLabels \cup u.excludeSubLabels
  /\ u.hours # None => IsWindow(u.hours)
  /\ DOMAIN u.entityState \subseteq Entities

\* A configuration as the YAML is parsed, whatever it says.
IsConfiguration(c) ==
  /\ DOMAIN c = {"fields", "linkTTL", "frigateUIURL", "rules", "recipients", "cameras"}
  /\ DOMAIN c.fields = Fields
  /\ Len(c.rules) \in Nat /\ DOMAIN c.rules = 1..Len(c.rules)
  /\ \A i \in DOMAIN c.rules :
       /\ DOMAIN c.rules[i] = {"name", "when", "unless", "holdoff", "cooldown", "scope", "to",
                               "preset", "timezone"}
       /\ IsCondition(c.rules[i].when)
       /\ \A j \in DOMAIN c.rules[i].unless : IsCondition(c.rules[i].unless[j])

\* A review as rules see it: every entity has an answer.
IsContext(mc) ==
  /\ DOMAIN mc = {"camera", "severity", "zones", "labels", "subLabels", "phase", "dwell",
                  "now", "sun", "states"}
  /\ mc.subLabels \in Seq(Faces)
  /\ DOMAIN mc.states = Entities

\* A review whose notification is built.  Something that may be absent is a set
\* of at most one member.
IsReview(r) ==
  /\ r.start \in Nat /\ r.end \subseteq Nat
  /\ \A s, t \in r.end : s = t

\* What Frigate answers for each kind of media, after some seconds.
IsFrigate(answers) ==
  \A kind \in {"clip", "preview", "snapshot"} : answers[kind].takes \in Nat

\* The inputs are ones the program can be given.
ASSUME InputAssumption ==
  /\ \A i \in Inputs :
       /\ i.part = "config" => IsConfiguration(i.config)
       /\ i.part = "window" => {i.from, i.to} \subseteq Spellings /\ i.sun \in SolarTimes
       /\ i.part = "media" => IsReview(i.review) /\ IsFrigate(i.answers) /\ i.exp \in Nat
  /\ \A mc \in Contexts : IsContext(mc)
  /\ Stranger \in Faces

VARIABLE input

Init == input \in Inputs
Next == UNCHANGED input
Spec == Init /\ [][Next]_input

\* The configuration the service runs on.
Running == Read(input.config, input.process)
Runs == input.part = "config" /\ Running # None

-----------------------------------------------------------------------------
\* A context in which the sun cannot be read, if gone says so, and neither can
\* the entities lost.
Blinded(mc, gone, lost) ==
  [mc EXCEPT !.sun = IF gone THEN Unreadable ELSE @,
             !.states = [e \in DOMAIN @ |-> IF e \in lost THEN Unreadable ELSE @[e]]]

\* An unreachable Home Assistant never costs a notification: whatever cannot be
\* read, a review that matched a rule matches that one or one above it ("an
\* infrastructure failure must never cost a notification", rules.go).
FailingOpenNeverSilences ==
  Runs => \A mc \in Contexts, gone \in BOOLEAN : \A lost \in SUBSET DOMAIN mc.states :
    Match(Running.rules, mc) # 0 =>
      Match(Running.rules, Blinded(mc, gone, lost)) \in 1..Match(Running.rules, mc)

\* A stranger beside whoever else was recognised never silences a review: what
\* excludes faces under `unless` would, and is refused (validate's comment: "it
\* would suppress for strangers and fire for the household").
StrangersNeverSilence ==
  Runs => \A mc \in Contexts :
    Match(Running.rules, mc) # 0 =>
      Match(Running.rules, [mc EXCEPT !.subLabels = Append(@, Stranger)])
        \in 1..Match(Running.rules, mc)

\* A rule whose answer depends on who is recognised waits for the recognition,
\* unless its holdoff is set (EffectiveHoldoff's comment).
FacesAreWaitedFor ==
  Runs => \A i \in DOMAIN Running.rules, mc \in Contexts :
    LET rule == Running.rules[i] IN
    /\ rule.holdoff = None
    /\ MatchOne(rule, mc) # MatchOne(rule, [mc EXCEPT !.subLabels = <<>>])
    => EffectiveHoldoff(rule) > 0

\* What the service starts on, it can carry out: for a review of a configured
\* camera there is a sender for every target of the rule it matches, and a
\* stream to show if the rule wants one.
WhatStartsCanSend ==
  Runs => \A i \in DOMAIN Running.rules :
    LET rule == Running.rules[i] IN
    /\ \A r \in Range(rule.to) : \A t \in Range(Running.recipients[r].targets) :
         t.type \in Registry(Running)
    /\ \A mc \in Contexts :
         mc.camera \in DOMAIN Running.cameras /\ MatchOne(rule, mc)
           /\ rule.preset = "liveview" => Running.cameras[mc.camera].live # Blank

-----------------------------------------------------------------------------
\* How far ahead of time of day a time of day b is.
Ahead(a, b) == IF b >= a THEN b - a ELSE b - a + Day

\* The time of day a spelling means, read off it: hours count from midnight or,
\* with am and pm, twelve is zero; the sun's hours turn with the day.
Meant(s, sun) ==
  CASE s.form = "24h" -> s.hour * Minutes + s.minute
    [] s.form = "12h" -> ((s.hour % 12) + (IF s.half = "pm" THEN 12 ELSE 0)) * Minutes + s.minute
    [] s.form = "named" -> IF s.word = "noon" THEN Day \div 2 ELSE 0
    [] s.form = "solar" -> (sun[s.event] + s.offset) % Day

\* A window is the stretch of the clock from what one end means forward to what
\* the other means, whichever way they are written (12am and 12pm included) and
\* however far an offset reaches over midnight.
WindowIsAnArc ==
  input.part = "window" =>
    LET from == ParseEndpoint(input.from)
        to == ParseEndpoint(input.to)
        start == Meant(input.from, input.sun)
        end == Meant(input.to, input.sun)
    IN from # Invalid /\ to # Invalid =>
         \A n \in 0..Day-1 :
           Contains([from |-> from, to |-> to], n, input.sun)
             <=> Ahead(start, n) <= Ahead(start, end)

-----------------------------------------------------------------------------
Built(i) == BuildContent(i.review, i.phase, i.preset, i.signer, i.prober, i.answers, i.exp)
Links(m) == m.video \cup m.image \cup m.snapshot \cup m.clipUrl

\* A piece of media that is there and fits, and is not too slow by itself, is on
\* the notification however slow the others are: the limits of the probes fit
\* the budget (mediaProbeBudget's comment).
SlowMediaCostsNoStill ==
  input.part = "media" /\ input.signer /\ input.preset # "text" =>
    \A kind \in {"preview", "snapshot"} :
      /\ input.answers[kind].says = "fits" /\ input.answers[kind].takes < StillProbe
      /\ kind = "preview" => input.phase = "end"
      /\ kind = "snapshot" => input.review.event # {}
      => \/ \E l \in Built(input).image : l.kind = kind
         \/ kind = "snapshot" /\ Built(input).snapshot # {}

\* The proxy serves every link of a notification until it expires, and every
\* link of the pages among them, and a clip covers the whole review.
LinksAreServed ==
  input.part = "media" =>
    LET links == Links(Built(input))
        played == UNION {PlayerLinks(l) : l \in {l \in links : l.kind = "play"}}
    IN \A l \in links \cup played :
         /\ \A now \in 0..input.exp-1 : Verify(l, links \cup played, now) = "served"
         /\ l.kind \in {"clip", "play", "vod"} =>
              /\ l.id.start <= input.review.start
              /\ \A t \in input.review.end : l.id.end >= t

\* A clip that is there can be played from the notification of the end, in every
\* preset and even if it is too big to attach.
ClipIsPlayable ==
  input.part = "media" /\ input.signer /\ input.phase = "end" =>
    \A t \in input.review.end :
      /\ ParsesAsClip(ClipId(input.review.start, t))
      /\ input.answers["clip"].says \in {"fits", "too large"}
      /\ input.answers["clip"].takes < ClipProbe
      => Built(input).clipUrl # {}

\* A description that arrives is in the body, unless a GenAI summary says more.
LateTextIsShown ==
  input.part = "text" /\ input.summary = {} =>
    input.description \subseteq
      Compose({"labels"}, input.description, GenAI(input.title, input.summary))

\* What exists is on the notification: a still however slow the clip is, a clip
\* too big to attach, a description that comes after a title.
WhatIsThereIsShown == SlowMediaCostsNoStill /\ ClipIsPlayable /\ LateTextIsShown
=============================================================================
