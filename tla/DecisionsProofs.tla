--------------------------- MODULE DecisionsProofs ---------------------------
(***************************************************************************)
(* The decisions that read no state, for every input and every review.     *)
(* A behaviour looks at one input and stops, so a property of the inputs   *)
(* is an invariant; the proofs are about the operators of Rules, Config,   *)
(* Window and Content.                                                     *)
(***************************************************************************)
EXTENDS Decisions, SequenceTheorems, WellFoundedInduction, TLAPS

LEMMA InputStays == Spec => [](input \in Inputs)
<1>1. Init => input \in Inputs
  BY DEF Init
<1>2. input \in Inputs /\ [Next]_input => (input \in Inputs)'
  BY DEF Next
<1> QED BY <1>1, <1>2, PTL DEF Spec

-----------------------------------------------------------------------------
(***************************************************************************)
(* The first rule that matches.                                            *)
(***************************************************************************)
LEMMA LeastExists ==
  ASSUME NEW T, T \subseteq Nat, T # {}
  PROVE  \E x \in T : \A y \in T : y >= x
<1>1. PICK x \in T : \A y \in T : ~ (<<y, x>> \in OpToRel(<, Nat))
  BY NatLessThanWellFounded, WFMin
<1>2. \A y \in T : ~(y < x)
  BY <1>1 DEF OpToRel
<1> QED BY <1>2

LEMMA MatchIsFirst ==
  ASSUME NEW rules, NEW n \in Nat, DOMAIN rules = 1..n, NEW mc,
         \E i \in 1..n : MatchOne(rules[i], mc)
  PROVE  /\ Match(rules, mc) \in 1..n /\ MatchOne(rules[Match(rules, mc)], mc)
         /\ \A j \in 1..Match(rules, mc)-1 : ~MatchOne(rules[j], mc)
<1> DEFINE T == {i \in 1..n : MatchOne(rules[i], mc)}
<1>1. PICK x \in T : \A y \in T : y >= x
  <2>1. T \subseteq Nat /\ T # {}
    OBVIOUS
  <2> QED BY <2>1, LeastExists
<1>2. /\ x \in DOMAIN rules /\ MatchOne(rules[x], mc)
      /\ \A j \in 1..x-1 : ~MatchOne(rules[j], mc)
  BY <1>1
<1> QED BY <1>2 DEF Match

LEMMA NoMatch ==
  ASSUME NEW rules, NEW mc, ~ \E i \in DOMAIN rules : MatchOne(rules[i], mc)
  PROVE  Match(rules, mc) = 0
  BY DEF Match

\* If every rule that matched one review matches another, so does the first of
\* them, or one above it.
LEMMA MatchNoLater ==
  ASSUME NEW rules, NEW n \in Nat, DOMAIN rules = 1..n, NEW mc, NEW md,
         \A i \in 1..n : MatchOne(rules[i], mc) => MatchOne(rules[i], md),
         Match(rules, mc) # 0
  PROVE  Match(rules, md) \in 1..Match(rules, mc)
<1> DEFINE k == Match(rules, mc)
           l == Match(rules, md)
<1>1. k \in 1..n /\ MatchOne(rules[k], mc)
  BY MatchIsFirst, NoMatch
<1>2. \E i \in 1..n : MatchOne(rules[i], md)
  BY <1>1
<1>3. l \in 1..n /\ \A j \in 1..l-1 : ~MatchOne(rules[j], md)
  BY <1>2, MatchIsFirst
<1>4. MatchOne(rules[k], md)
  BY <1>1
<1> HIDE DEF k, l
<1>5. l <= k
  BY <1>1, <1>3, <1>4
<1> QED BY <1>1, <1>3, <1>5 DEF k, l

-----------------------------------------------------------------------------
(***************************************************************************)
(* The configuration the service runs on.                                  *)
(***************************************************************************)
\* What is known of a rule the service runs with.
Validated(c, rule) ==
  /\ RuleOk(c, rule)
  /\ IsCondition(rule.when)
  /\ \A j \in DOMAIN rule.unless : IsCondition(rule.unless[j])

\* Filling in defaults leaves what a rule asks of a review alone.
LEMMA DefaultsKeepRules ==
  ASSUME NEW d, {"rules", "linkTTL"} \subseteq DOMAIN d,
         \A i \in DOMAIN d.rules :
           DOMAIN d.rules[i] = {"name", "when", "unless", "holdoff", "cooldown", "scope", "to",
                                "preset", "timezone"}
  PROVE  /\ DOMAIN WithDefaults(d).rules = DOMAIN d.rules
         /\ \A i \in DOMAIN d.rules : /\ WithDefaults(d).rules[i].when = d.rules[i].when
                                      /\ WithDefaults(d).rules[i].unless = d.rules[i].unless
<1>1. \A i \in DOMAIN d.rules : /\ RuleWithDefaults(d, d.rules[i]).when = d.rules[i].when
                               /\ RuleWithDefaults(d, d.rules[i]).unless = d.rules[i].unless
  BY DEF RuleWithDefaults
<1>2. WithDefaults(d).rules = [i \in DOMAIN d.rules |-> RuleWithDefaults(d, d.rules[i])]
  BY DEF WithDefaults
<1> QED BY <1>1, <1>2

LEMMA RunningIsValid ==
  ASSUME input \in Inputs, Runs
  PROVE  /\ Validate(Running)
         /\ \E n \in Nat : DOMAIN Running.rules = 1..n
         /\ \A i \in DOMAIN Running.rules : Validated(Running, Running.rules[i])
<1> DEFINE c == input.config
           read == [c EXCEPT !.fields = FillIn(EnvFor(@, input.process))]
           full == WithDefaults(read)
<1>1. IsConfiguration(c)
  BY InputAssumption DEF Runs
<1>2. Running = full /\ Validate(full)
  BY DEF Runs, Running, Read
<1>3. DOMAIN read = DOMAIN c /\ read.rules = c.rules
  BY <1>1 DEF IsConfiguration
<1> HIDE DEF read, c
<1>4. /\ DOMAIN full.rules = DOMAIN c.rules
      /\ \A i \in DOMAIN c.rules : full.rules[i].when = c.rules[i].when
                                   /\ full.rules[i].unless = c.rules[i].unless
  <2>1. {"rules", "linkTTL"} \subseteq DOMAIN read
    BY <1>1, <1>3 DEF IsConfiguration
  <2>2. \A i \in DOMAIN read.rules :
           DOMAIN read.rules[i] = {"name", "when", "unless", "holdoff", "cooldown", "scope", "to",
                                   "preset", "timezone"}
    BY <1>1, <1>3 DEF IsConfiguration
  <2>3. /\ DOMAIN full.rules = DOMAIN read.rules
        /\ \A i \in DOMAIN read.rules : /\ full.rules[i].when = read.rules[i].when
                                        /\ full.rules[i].unless = read.rules[i].unless
    BY <2>1, <2>2, DefaultsKeepRules
  <2> QED BY <1>3, <2>3
<1> HIDE DEF full
<1>5. \A i \in DOMAIN full.rules : Validated(full, full.rules[i])
  BY <1>1, <1>2, <1>4 DEF Validated, IsConfiguration, Validate
<1>6. \E n \in Nat : DOMAIN full.rules = 1..n
  BY <1>1, <1>4 DEF IsConfiguration
<1> QED BY <1>2, <1>5, <1>6

-----------------------------------------------------------------------------
(***************************************************************************)
(* Lookups that fail.                                                      *)
(***************************************************************************)
LEMMA BlindedIs ==
  ASSUME NEW mc, IsContext(mc), NEW gone \in BOOLEAN, NEW lost \in SUBSET DOMAIN mc.states
  PROVE  LET b == Blinded(mc, gone, lost) IN
         /\ \A f \in DOMAIN mc \ {"sun", "states"} : b[f] = mc[f]
         /\ b.sun = mc.sun \/ b.sun = Unreadable
         /\ \A e \in Entities : b.states[e] = mc.states[e] \/ b.states[e] = Unreadable
<1> DEFINE b == Blinded(mc, gone, lost)
<1>1. b = [mc EXCEPT !.sun = IF gone THEN Unreadable ELSE @,
             !.states = [e \in DOMAIN @ |-> IF e \in lost THEN Unreadable ELSE @[e]]]
  BY DEF Blinded
<1>2. /\ \A f \in DOMAIN mc \ {"sun", "states"} : b[f] = mc[f]
      /\ b.sun = IF gone THEN Unreadable ELSE mc.sun
      /\ b.states = [e \in DOMAIN mc.states |-> IF e \in lost THEN Unreadable ELSE mc.states[e]]
  BY <1>1 DEF IsContext
<1> QED BY <1>2 DEF IsContext

\* A window whose ends are on the clock does not look at the sun.
LEMMA ClockWindow ==
  ASSUME NEW w, IsWindow(w), WindowOk(w), w # None, ~NeedsSolar(w), NEW n, NEW s, NEW t
  PROVE  Contains(w, n, s) <=> Contains(w, n, t)
<1>1. w.from.kind = "clock" /\ w.to.kind = "clock"
  BY DEF IsWindow, WindowOk, NeedsSolar
<1> QED BY <1>1 DEF Contains, Resolve

\* A condition that a lookup decides counts as met in a rule's `when`, and as not
\* met in an exception.
LEMMA BlindWhen ==
  ASSUME NEW mc, IsContext(mc), NEW gone \in BOOLEAN, NEW lost \in SUBSET DOMAIN mc.states,
         NEW zone, NEW u, IsCondition(u), WindowOk(u.hours),
         Evaluate(u, mc, TRUE, zone)
  PROVE  Evaluate(u, Blinded(mc, gone, lost), TRUE, zone)
<1> DEFINE b == Blinded(mc, gone, lost)
<1>1. /\ b.camera = mc.camera /\ b.labels = mc.labels /\ b.zones = mc.zones
      /\ b.subLabels = mc.subLabels /\ b.severity = mc.severity /\ b.dwell = mc.dwell
      /\ b.now = mc.now
      /\ b.sun = mc.sun \/ b.sun = Unreadable
      /\ \A e \in Entities : b.states[e] = mc.states[e] \/ b.states[e] = Unreadable
  BY BlindedIs DEF IsContext
<1> HIDE DEF b
<1>2. ASSUME u.hours # None PROVE InWindow(u.hours, b, TRUE, zone)
  <2>1. InWindow(u.hours, mc, TRUE, zone) /\ IsWindow(u.hours)
    BY <1>2 DEF Evaluate, IsCondition
  <2>2. CASE NeedsSolar(u.hours)
    BY <1>1, <2>1, <2>2 DEF InWindow
  <2>3. CASE ~NeedsSolar(u.hours)
    <3>1. Contains(u.hours, mc.now[zone], mc.sun)
      BY <2>1, <2>3 DEF InWindow
    <3>2. Contains(u.hours, b.now[zone], b.sun)
      BY <1>1, <1>2, <2>1, <2>3, <3>1, ClockWindow
    <3> QED BY <2>3, <3>2 DEF InWindow
  <2> QED BY <2>2, <2>3
<1>3. \A e \in DOMAIN u.entityState : EntityMatches(b, e, u.entityState[e], TRUE)
  BY <1>1 DEF EntityMatches, Evaluate, IsCondition
<1> QED BY <1>1, <1>2, <1>3 DEF Evaluate, b

LEMMA BlindUnless ==
  ASSUME NEW mc, IsContext(mc), NEW gone \in BOOLEAN, NEW lost \in SUBSET DOMAIN mc.states,
         NEW zone, NEW u, IsCondition(u), WindowOk(u.hours),
         Evaluate(u, Blinded(mc, gone, lost), FALSE, zone)
  PROVE  Evaluate(u, mc, FALSE, zone)
<1> DEFINE b == Blinded(mc, gone, lost)
<1>1. /\ b.camera = mc.camera /\ b.labels = mc.labels /\ b.zones = mc.zones
      /\ b.subLabels = mc.subLabels /\ b.severity = mc.severity /\ b.dwell = mc.dwell
      /\ b.now = mc.now
      /\ b.sun = mc.sun \/ b.sun = Unreadable
      /\ \A e \in Entities : b.states[e] = mc.states[e] \/ b.states[e] = Unreadable
  BY BlindedIs DEF IsContext
<1>0. Evaluate(u, b, FALSE, zone)
  OBVIOUS
<1> HIDE DEF b
<1>2. ASSUME u.hours # None PROVE InWindow(u.hours, mc, FALSE, zone)
  <2>1. InWindow(u.hours, b, FALSE, zone) /\ IsWindow(u.hours)
    BY <1>0, <1>2 DEF Evaluate, IsCondition
  <2>2. CASE NeedsSolar(u.hours)
    BY <1>1, <2>1, <2>2 DEF InWindow
  <2>3. CASE ~NeedsSolar(u.hours)
    <3>1. Contains(u.hours, b.now[zone], b.sun)
      BY <2>1, <2>3 DEF InWindow
    <3>2. Contains(u.hours, mc.now[zone], mc.sun)
      BY <1>1, <1>2, <2>1, <2>3, <3>1, ClockWindow
    <3> QED BY <2>3, <3>2 DEF InWindow
  <2> QED BY <2>2, <2>3
<1>3. \A e \in DOMAIN u.entityState : EntityMatches(mc, e, u.entityState[e], FALSE)
  BY <1>0, <1>1 DEF EntityMatches, Evaluate, IsCondition
<1> QED BY <1>0, <1>1, <1>2, <1>3 DEF Evaluate

\* A rule that matched a review matches it when less can be read.
LEMMA BlindMatch ==
  ASSUME NEW mc, IsContext(mc), NEW gone \in BOOLEAN, NEW lost \in SUBSET DOMAIN mc.states,
         NEW c, NEW rule, Validated(c, rule), MatchOne(rule, mc)
  PROVE  MatchOne(rule, Blinded(mc, gone, lost))
<1> DEFINE b == Blinded(mc, gone, lost)
<1>1. b.phase = mc.phase
  BY BlindedIs DEF IsContext
<1>2. Evaluate(rule.when, b, TRUE, rule.timezone)
  BY BlindWhen DEF Validated, RuleOk, ConditionsOk, MatchOne, WhenOnError
<1>3. ~SuppressedBy(rule.unless, b, rule.timezone)
  BY BlindUnless DEF Validated, RuleOk, UnlessOk, ConditionsOk, MatchOne, SuppressedBy, UnlessOnError
<1> QED BY <1>1, <1>2, <1>3 DEF MatchOne, WhenOnError

\* Whatever Home Assistant cannot answer, a review that matched a rule still
\* matches that one or one of a higher priority, for every configuration that
\* passes validation: only there is it certain that no window has an end that
\* could not be parsed.
THEOREM FailingOpen == Spec => []FailingOpenNeverSilences
<1>1. input \in Inputs => FailingOpenNeverSilences
  <2> SUFFICES ASSUME input \in Inputs, Runs, NEW mc \in Contexts, NEW gone \in BOOLEAN,
                      NEW lost \in SUBSET DOMAIN mc.states, Match(Running.rules, mc) # 0
               PROVE  Match(Running.rules, Blinded(mc, gone, lost)) \in 1..Match(Running.rules, mc)
    BY DEF FailingOpenNeverSilences
  <2>1. PICK n \in Nat : DOMAIN Running.rules = 1..n
    BY RunningIsValid
  <2>2. \A i \in 1..n : MatchOne(Running.rules[i], mc) =>
                          MatchOne(Running.rules[i], Blinded(mc, gone, lost))
    BY <2>1, RunningIsValid, InputAssumption, BlindMatch
  <2> QED BY <2>1, <2>2, MatchNoLater
<1> QED BY <1>1, InputStays, PTL

-----------------------------------------------------------------------------
(***************************************************************************)
(* Faces.                                                                  *)
(***************************************************************************)
\* A review on which a stranger was recognised too.
LEMMA JoinedIs ==
  ASSUME NEW mc, IsContext(mc)
  PROVE  LET s == [mc EXCEPT !.subLabels = Append(@, Stranger)] IN
         /\ \A f \in DOMAIN mc \ {"subLabels"} : s[f] = mc[f]
         /\ Range(s.subLabels) = Range(mc.subLabels) \cup {Stranger}
<1> DEFINE s == [mc EXCEPT !.subLabels = Append(@, Stranger)]
<1>1. s.subLabels = Append(mc.subLabels, Stranger)
  BY DEF IsContext
<1>2. \A f \in DOMAIN mc \ {"subLabels"} : s[f] = mc[f]
  OBVIOUS
<1>3. Range(Append(mc.subLabels, Stranger)) = Range(mc.subLabels) \cup {Stranger}
  <2> DEFINE q == mc.subLabels
             a == Append(q, Stranger)
  <2>1. /\ q \in Seq(Faces) /\ Len(q) \in Nat /\ DOMAIN q = 1..Len(q) /\ DOMAIN a = 1..(Len(q) + 1)
        /\ a[Len(q) + 1] = Stranger /\ \A i \in 1..Len(q) : a[i] = q[i]
    BY InputAssumption DEF IsContext
  <2> HIDE DEF a, q
  <2>2. \A i \in DOMAIN a : a[i] = Stranger \/ \E j \in DOMAIN q : a[i] = q[j]
    BY <2>1
  <2>3. (\E i \in DOMAIN a : a[i] = Stranger) /\ \A j \in DOMAIN q : \E i \in DOMAIN a : a[i] = q[j]
    BY <2>1
  <2>4. Range(a) = Range(q) \cup {Stranger}
    BY <2>2, <2>3 DEF Range
  <2> QED BY <2>4 DEF a, q
<1> QED BY <1>1, <1>2, <1>3

LEMMA StrangerWhen ==
  ASSUME NEW mc, IsContext(mc), NEW u, IsCondition(u), NEW onError,
         NEW zone, Evaluate(u, mc, onError, zone)
  PROVE  Evaluate(u, [mc EXCEPT !.subLabels = Append(@, Stranger)], onError, zone)
<1> DEFINE s == [mc EXCEPT !.subLabels = Append(@, Stranger)]
<1>1. /\ s.camera = mc.camera /\ s.labels = mc.labels /\ s.zones = mc.zones
      /\ s.severity = mc.severity /\ s.dwell = mc.dwell /\ s.now = mc.now /\ s.sun = mc.sun
      /\ s.states = mc.states /\ Range(s.subLabels) = Range(mc.subLabels) \cup {Stranger}
  BY JoinedIs DEF IsContext
<1> HIDE DEF s
<1>2. u.subLabels # {} => u.subLabels \cap Range(s.subLabels) # {}
  BY <1>1 DEF Evaluate
<1>3. ~AccountsForEveryone(u.excludeSubLabels, s.subLabels, s.labels)
  BY <1>1 DEF AccountsForEveryone, IsCondition
<1>4. u.hours # None => InWindow(u.hours, s, onError, zone)
  BY <1>1 DEF Evaluate, InWindow
<1>5. \A e \in DOMAIN u.entityState : EntityMatches(s, e, u.entityState[e], onError)
  BY <1>1 DEF Evaluate, EntityMatches
<1> QED BY <1>1, <1>2, <1>3, <1>4, <1>5 DEF Evaluate, s

LEMMA StrangerUnless ==
  ASSUME NEW mc, IsContext(mc), NEW u, IsCondition(u), u.excludeSubLabels = {},
         NEW onError, NEW zone,
         Evaluate(u, [mc EXCEPT !.subLabels = Append(@, Stranger)], onError, zone)
  PROVE  Evaluate(u, mc, onError, zone)
<1> DEFINE s == [mc EXCEPT !.subLabels = Append(@, Stranger)]
<1>0. Evaluate(u, s, onError, zone)
  OBVIOUS
<1>1. /\ s.camera = mc.camera /\ s.labels = mc.labels /\ s.zones = mc.zones
      /\ s.severity = mc.severity /\ s.dwell = mc.dwell /\ s.now = mc.now /\ s.sun = mc.sun
      /\ s.states = mc.states /\ Range(s.subLabels) = Range(mc.subLabels) \cup {Stranger}
  BY JoinedIs DEF IsContext
<1> HIDE DEF s
<1>2. u.subLabels # {} => u.subLabels \cap Range(mc.subLabels) # {}
  BY <1>0, <1>1 DEF Evaluate, IsCondition
<1>4. u.hours # None => InWindow(u.hours, mc, onError, zone)
  BY <1>0, <1>1 DEF Evaluate, InWindow
<1>5. \A e \in DOMAIN u.entityState : EntityMatches(mc, e, u.entityState[e], onError)
  BY <1>0, <1>1 DEF Evaluate, EntityMatches
<1> QED BY <1>0, <1>1, <1>2, <1>4, <1>5 DEF Evaluate

LEMMA StrangerMatch ==
  ASSUME NEW mc, IsContext(mc), NEW c, NEW rule, Validated(c, rule), MatchOne(rule, mc)
  PROVE  MatchOne(rule, [mc EXCEPT !.subLabels = Append(@, Stranger)])
<1> DEFINE s == [mc EXCEPT !.subLabels = Append(@, Stranger)]
<1>1. s.phase = mc.phase
  BY JoinedIs DEF IsContext
<1>2. Evaluate(rule.when, s, WhenOnError, rule.timezone)
  BY StrangerWhen DEF Validated, MatchOne
<1>3. ~SuppressedBy(rule.unless, s, rule.timezone)
  BY StrangerUnless DEF Validated, RuleOk, UnlessOk, MatchOne, SuppressedBy
<1> QED BY <1>1, <1>2, <1>3 DEF MatchOne

\* A stranger on the review never keeps it from a rule it matches without: what
\* excludes faces under `unless` is refused when the configuration is read.
THEOREM StrangersAreHeard == Spec => []StrangersNeverSilence
<1>1. input \in Inputs => StrangersNeverSilence
  <2> SUFFICES ASSUME input \in Inputs, Runs, NEW mc \in Contexts, Match(Running.rules, mc) # 0
               PROVE  Match(Running.rules, [mc EXCEPT !.subLabels = Append(@, Stranger)])
                        \in 1..Match(Running.rules, mc)
    BY DEF StrangersNeverSilence
  <2>1. PICK n \in Nat : DOMAIN Running.rules = 1..n
    BY RunningIsValid
  <2>2. \A i \in 1..n : MatchOne(Running.rules[i], mc) =>
                 MatchOne(Running.rules[i], [mc EXCEPT !.subLabels = Append(@, Stranger)])
    BY <2>1, RunningIsValid, InputAssumption, StrangerMatch
  <2> QED BY <2>1, <2>2, MatchNoLater
<1> QED BY <1>1, InputStays, PTL

\* What does not name faces does not read them.
LEMMA FacelessEvaluate ==
  ASSUME NEW mc, IsContext(mc), NEW u, ~UsesFaces(u), NEW onError, NEW zone
  PROVE  Evaluate(u, mc, onError, zone)
           <=> Evaluate(u, [mc EXCEPT !.subLabels = <<>>], onError, zone)
<1> DEFINE s == [mc EXCEPT !.subLabels = <<>>]
<1>1. /\ s.camera = mc.camera /\ s.labels = mc.labels /\ s.zones = mc.zones
      /\ s.severity = mc.severity /\ s.dwell = mc.dwell /\ s.now = mc.now /\ s.sun = mc.sun
      /\ s.states = mc.states
  BY DEF IsContext
<1> HIDE DEF s
<1>2. Evaluate(u, mc, onError, zone) <=> Evaluate(u, s, onError, zone)
  BY <1>1 DEF Evaluate, UsesFaces, InWindow, EntityMatches
<1> QED BY <1>2 DEF s

\* A rule that is decided at once does not read faces, in a condition or in an
\* exception, so the recognition that comes later could not have changed it.
THEOREM FacesAwaited == Spec => []FacesAreWaitedFor
<1>1. input \in Inputs => FacesAreWaitedFor
  <2> SUFFICES ASSUME input \in Inputs, Runs, NEW i \in DOMAIN Running.rules, NEW mc \in Contexts,
                      Running.rules[i].holdoff = None, ~(EffectiveHoldoff(Running.rules[i]) > 0)
               PROVE  MatchOne(Running.rules[i], mc)
                        = MatchOne(Running.rules[i], [mc EXCEPT !.subLabels = <<>>])
    BY DEF FacesAreWaitedFor
  <2> DEFINE rule == Running.rules[i]
             s == [mc EXCEPT !.subLabels = <<>>]
  <2>1. ~UsesFaces(rule.when) /\ \A j \in DOMAIN rule.unless : ~UsesFaces(rule.unless[j])
    BY DefaultHoldoffAssumption DEF EffectiveHoldoff
  <2>2. IsContext(mc) /\ s.phase = mc.phase
    BY InputAssumption DEF IsContext
  <2> HIDE DEF rule
  <2>3. Evaluate(rule.when, mc, WhenOnError, rule.timezone)
          <=> Evaluate(rule.when, s, WhenOnError, rule.timezone)
    BY <2>1, <2>2, FacelessEvaluate
  <2>4. SuppressedBy(rule.unless, mc, rule.timezone) <=> SuppressedBy(rule.unless, s, rule.timezone)
    BY <2>1, <2>2, FacelessEvaluate DEF SuppressedBy
  <2> HIDE DEF s
  <2>5. MatchOne(rule, mc) <=> MatchOne(rule, s)
    BY <2>2, <2>3, <2>4 DEF MatchOne
  <2>6. MatchOne(rule, mc) \in BOOLEAN /\ MatchOne(rule, s) \in BOOLEAN
    BY DEF MatchOne
  <2> QED BY <2>5, <2>6 DEF rule, s
<1> QED BY <1>1, InputStays, PTL

-----------------------------------------------------------------------------
(***************************************************************************)
(* What the service starts on.                                             *)
(***************************************************************************)
\* Every target of a rule has a sender, and every stream a rule is to show is
\* there: validation refuses the rest.
THEOREM StartsAbleToSend == Spec => []WhatStartsCanSend
<1>1. input \in Inputs => WhatStartsCanSend
  <2> SUFFICES ASSUME input \in Inputs, Runs, NEW i \in DOMAIN Running.rules
               PROVE  LET c == Running
                          rule == Running.rules[i] IN
                      /\ \A r \in Range(rule.to) : \A t \in Range(c.recipients[r].targets) :
                           t.type \in Registry(c)
                      /\ \A mc \in Contexts :
                           mc.camera \in DOMAIN c.cameras /\ MatchOne(rule, mc)
                             /\ rule.preset = "liveview" => c.cameras[mc.camera].live # Blank
    BY DEF WhatStartsCanSend
  <2> DEFINE c == Running
             rule == c.rules[i]
  <2>1. Validate(c) /\ RuleOk(c, rule)
    BY RunningIsValid DEF Validated
  <2> HIDE DEF c, rule
  <2>2. ASSUME NEW r \in Range(rule.to), NEW t \in Range(c.recipients[r].targets)
        PROVE  t.type \in Registry(c)
    <3>1. RecipientOk(c, c.recipients[r])
      BY <2>1, <2>2 DEF Validate, RuleOk
    <3>2. TargetOk(c, t)
      BY <2>2, <3>1 DEF RecipientOk, Range
    <3> QED BY <3>2 DEF TargetOk, Registry
  <2>3. ASSUME NEW mc \in Contexts, mc.camera \in DOMAIN c.cameras, MatchOne(rule, mc),
               rule.preset = "liveview"
        PROVE  c.cameras[mc.camera].live # Blank
    <3>1. mc.camera \in CamerasOf(c, rule)
      BY <2>3 DEF CamerasOf, MatchOne, Evaluate
    <3> QED BY <2>1, <2>3, <3>1 DEF RuleOk, LiveViewOk
  <2> QED BY <2>2, <2>3 DEF c, rule
<1> QED BY <1>1, InputStays, PTL
-----------------------------------------------------------------------------
(***************************************************************************)
(* Hours windows: a multiple of m less than m away from zero is zero, so a *)
(* remainder is the only one, and Go's, made non-negative, is TLA+'s.      *)
(***************************************************************************)
LEMMA Distance ==
  ASSUME NEW m \in Nat \ {0}, NEW k \in Int, m * k < m, -m < m * k
  PROVE  k = 0
<1>1. CASE k >= 1
  <2>1. m * (k - 1) >= 0
    BY <1>1
  <2>2. m * (k - 1) = m * k - m
    OBVIOUS
  <2> QED BY <2>1, <2>2
<1>2. CASE k <= -1
  <2>1. m * (-1 - k) >= 0
    BY <1>2
  <2>2. m * (-1 - k) = -m - m * k
    OBVIOUS
  <2> QED BY <2>1, <2>2
<1> QED BY <1>1, <1>2

LEMMA ModUnique ==
  ASSUME NEW m \in Nat \ {0}, NEW q \in Int, NEW r \in 0..m-1, NEW d \in Int, d = (m * q) + r
  PROVE  d % m = r
<1> DEFINE p == d \div m
           s == d % m
<1>1. p \in Int /\ s \in 0..m-1 /\ d = (m * p) + s
  OBVIOUS
<1> HIDE DEF p, s
<1>2. m * (q - p) = s - r
  BY <1>1
<1>3. q - p = 0
  BY <1>1, <1>2, Distance
<1> QED BY <1>1, <1>3 DEF s

\* An offset over midnight, either way, comes to a time of day.
LEMMA NormalIsModulo ==
  ASSUME NEW d \in Int
  PROVE  NormalizeDay(d) = d % Day /\ NormalizeDay(d) \in 0..Day-1
<1>0. Day \in Nat \ {0}
  BY MinutesAssumption DEF Day
<1>1. CASE d >= 0
  BY <1>0, <1>1 DEF NormalizeDay, Remainder
<1>2. CASE d < 0
  <2> DEFINE s == (-d) % Day
             p == (-d) \div Day
  <2>1. s \in 0..Day-1 /\ p \in Int /\ -d = (Day * p) + s
    BY <1>0, <1>2
  <2>2. NormalizeDay(d) = IF -s < 0 THEN Day - s ELSE 0
    BY <1>0, <1>2, <2>1 DEF NormalizeDay, Remainder
  <2> HIDE DEF s, p
  <2>3. CASE s = 0
    <3>1. d = (Day * (-p)) + 0
      BY <1>0, <2>1, <2>3
    <3>2. d % Day = 0
      BY <1>0, <2>1, <3>1, ModUnique
    <3> QED BY <1>0, <2>2, <2>3, <3>2
  <2>4. CASE s # 0
    <3>1. d = (Day * (-p - 1)) + (Day - s)
      BY <1>0, <2>1
    <3>2. Day - s \in 0..Day-1 /\ -p - 1 \in Int
      BY <1>0, <2>1, <2>4
    <3>3. d % Day = Day - s
      BY <1>0, <3>1, <3>2, ModUnique
    <3> QED BY <1>0, <2>1, <2>2, <2>4, <3>3
  <2> QED BY <2>3, <2>4
<1> QED BY <1>1, <1>2

LEMMA HourInDay ==
  ASSUME NEW h \in 0..23, NEW k \in 0..Minutes-1
  PROVE  (h * Minutes) + k \in 0..Day-1
<1>1. (23 - h) * Minutes >= 0
  BY MinutesAssumption
<1>2. (23 - h) * Minutes = (23 * Minutes) - (h * Minutes)
  BY MinutesAssumption
<1>3. h * Minutes >= 0
  BY MinutesAssumption
<1> QED BY <1>1, <1>2, <1>3, MinutesAssumption DEF Day

\* What is parsed is what is meant.
LEMMA PointIsMeant ==
  ASSUME NEW s \in Spellings, ParseEndpoint(s) # Invalid, NEW sun \in SolarTimes
  PROVE  /\ Resolve(ParseEndpoint(s), sun) = Meant(s, sun)
         /\ Meant(s, sun) \in 0..Day-1
<1>1. CASE s.form = "24h"
  <2>1. s.hour \in 0..23 /\ s.minute \in 0..Minutes-1
    BY <1>1, MinutesAssumption DEF Spellings, ParseEndpoint, OnTheClock
  <2>2. HourOf(s) = s.hour
    BY <1>1 DEF HourOf, Spellings
  <2>3. ParseEndpoint(s) = Clock((s.hour * Minutes) + s.minute)
    BY <1>1, <2>1, <2>2 DEF ParseEndpoint, OnTheClock
  <2> QED BY <1>1, <2>1, <2>3, HourInDay DEF Resolve, Clock, Meant
<1>2. CASE s.form = "12h"
  <2>1. s.hour \in 1..12 /\ s.minute \in 0..Minutes-1 /\ s.half \in {"am", "pm"}
    BY <1>2, MinutesAssumption DEF Spellings, ParseEndpoint, OnTheClock
  <2>2. HourOf(s) = (s.hour % 12) + (IF s.half = "pm" THEN 12 ELSE 0)
    BY <2>1 DEF HourOf
  <2>3. HourOf(s) \in 0..23
    BY <2>1 DEF HourOf
  <2>4. ParseEndpoint(s) = Clock((HourOf(s) * Minutes) + s.minute)
    BY <1>2, <2>1 DEF ParseEndpoint, OnTheClock
  <2> QED BY <1>2, <2>1, <2>2, <2>3, <2>4, HourInDay DEF Resolve, Clock, Meant
<1>3. CASE s.form = "named"
  <2>1. Day \div 2 = 12 * Minutes /\ 12 * Minutes \in 0..Day-1 /\ 0 \in 0..Day-1
    BY MinutesAssumption DEF Day
  <2> QED BY <1>3, <2>1 DEF ParseEndpoint, Resolve, Clock, Meant
<1>4. CASE s.form = "solar"
  <2>1. s.event \in SolarEvents /\ s.offset \in Int /\ sun[s.event] \in 0..Day-1
    BY <1>4 DEF Spellings, SolarTimes
  <2>2. sun[s.event] + s.offset \in Int
    BY <2>1, MinutesAssumption DEF Day
  <2> QED BY <1>4, <2>2, NormalIsModulo DEF ParseEndpoint, Resolve, Solar, Meant
<1>5. CASE s.form = "other"
  BY <1>5 DEF ParseEndpoint
<1> QED BY <1>1, <1>2, <1>3, <1>4, <1>5 DEF Spellings

LEMMA ArcIs ==
  ASSUME NEW a \in 0..Day-1, NEW b \in 0..Day-1, NEW n \in 0..Day-1
  PROVE  Between(a, b, n) <=> Ahead(a, n) <= Ahead(a, b)
  BY MinutesAssumption DEF Between, Ahead, Day

\* A window is the stretch of the clock from what one end means forward to what
\* the other means, for every spelling ParseEndpoint takes and every offset
\* (window.go's parseEndpoint, normalizeDay and Contains).
THEOREM WindowsAreArcs == Spec => []WindowIsAnArc
<1>1. input \in Inputs => WindowIsAnArc
  <2> SUFFICES ASSUME input \in Inputs, input.part = "window",
                      ParseEndpoint(input.from) # Invalid, ParseEndpoint(input.to) # Invalid,
                      NEW n \in 0..Day-1
               PROVE  LET w == [from |-> ParseEndpoint(input.from), to |-> ParseEndpoint(input.to)]
                          start == Meant(input.from, input.sun)
                          end == Meant(input.to, input.sun)
                      IN Contains(w, n, input.sun) <=> Ahead(start, n) <= Ahead(start, end)
    BY DEF WindowIsAnArc
  <2> DEFINE start == Meant(input.from, input.sun)
             end == Meant(input.to, input.sun)
  <2>1. input.from \in Spellings /\ input.to \in Spellings /\ input.sun \in SolarTimes
    BY InputAssumption
  <2>2. /\ Resolve(ParseEndpoint(input.from), input.sun) = start
        /\ Resolve(ParseEndpoint(input.to), input.sun) = end
        /\ start \in 0..Day-1 /\ end \in 0..Day-1
    BY <2>1, PointIsMeant
  <2> HIDE DEF start, end
  <2>3. Between(start, end, n) <=> Ahead(start, n) <= Ahead(start, end)
    BY <2>2, ArcIs
  <2> QED BY <2>2, <2>3 DEF Contains, start, end
<1> QED BY <1>1, InputStays, PTL

-----------------------------------------------------------------------------
(***************************************************************************)
(* Media: which candidates there are and in which order, that no probe's   *)
(* own limit is cut short by those before it, and what is attached.        *)
(***************************************************************************)
\* The candidates of a review, at most three: a clip only comes first.
Candidates(review, phase, cands) ==
  /\ Len(cands) \in 0..3 /\ DOMAIN cands = 1..Len(cands)
  /\ \A i \in DOMAIN cands :
       \/ /\ cands[i].kind = "clip" /\ i = 1 /\ phase = "end"
          /\ \E t \in review.end : cands[i].id = ClipId(review.start, t)
       \/ cands[i].kind = "preview" /\ phase = "end"
       \/ cands[i].kind = "snapshot" /\ i = Len(cands)
  /\ \A i, j \in DOMAIN cands : cands[i].kind = cands[j].kind => i = j
  /\ Len(cands) = 3 => cands[1].kind = "clip"

\* Sequences of up to three, put together.
LEMMA Juxtaposed ==
  ASSUME NEW x, NEW y, NEW z
  PROVE  <<x>> \o <<y>> = <<x, y>> /\ <<x, y>> \o <<z>> = <<x, y, z>>
<1> DEFINE S == {x, y, z}
           two == <<x, y>>
           three == <<x, y, z>>
<1>1. /\ <<x>> \in Seq(S) /\ <<y>> \in Seq(S) /\ <<z>> \in Seq(S) /\ two \in Seq(S) /\ three \in Seq(S)
      /\ Len(<<x>>) = 1 /\ Len(<<y>>) = 1 /\ Len(<<z>>) = 1
      /\ Len(two) = 2 /\ two[1] = x /\ two[2] = y
      /\ Len(three) = 3 /\ three[1] = x /\ three[2] = y /\ three[3] = z
  OBVIOUS
<1> HIDE DEF two, three
<1>2. <<x>> \o <<y>> = two
  <2> DEFINE s == <<x>> \o <<y>>
  <2>1. s \in Seq(S) /\ Len(s) = 2 /\ s[1] = x /\ s[2] = y
    BY <1>1, ConcatProperties
  <2> HIDE DEF s, S
  <2>2. s = two
    BY <1>1, <2>1, SeqEqual
  <2> QED BY <2>2 DEF s
<1>3. two \o <<z>> = three
  <2> DEFINE last == <<z>>
  <2>1. last \in Seq(S) /\ Len(last) = 1 /\ last[1] = z
    OBVIOUS
  <2> HIDE DEF last, S
  <2>2. two \in Seq(S) /\ last \in Seq(S)
    BY <1>1, <2>1
  <2>3. /\ two \o last \in Seq(S) /\ Len(two \o last) = Len(two) + Len(last)
        /\ \A i \in 1 .. Len(two) + Len(last) :
             (two \o last)[i] = IF i <= Len(two) THEN two[i] ELSE last[i - Len(two)]
    BY <2>2, ConcatProperties, Zenon
  <2>4. two \o last \in Seq(S) /\ Len(two \o last) = 3
        /\ (two \o last)[1] = x /\ (two \o last)[2] = y /\ (two \o last)[3] = z
    BY <1>1, <2>1, <2>3
  <2>5. two \o last = three
    BY <1>1, <2>4, SeqEqual
  <2> QED BY <2>5 DEF last
<1> QED BY <1>2, <1>3 DEF two, three

LEMMA EmptyBeside ==
  ASSUME NEW x, NEW y
  PROVE  /\ <<>> \o <<>> = <<>> /\ <<>> \o <<x>> = <<x>>
         /\ <<x>> \o <<>> = <<x>> /\ <<x, y>> \o <<>> = <<x, y>>
  OBVIOUS

\* There is a clip after the end of a review that has one, a preview after the end,
\* and a snapshot if there is an event.
LEMMA CandidatesAre ==
  ASSUME NEW review, IsReview(review), NEW phase
  PROVE  LET cands == MediaCandidates(review, phase) IN
         /\ Candidates(review, phase, cands)
         /\ phase = "end" /\ review.end # {} => 1 \in DOMAIN cands /\ cands[1].kind = "clip"
         /\ phase = "end" => \E i \in DOMAIN cands : cands[i].kind = "preview"
         /\ review.event # {} => \E i \in DOMAIN cands : cands[i].kind = "snapshot"
<1> DEFINE end == CHOOSE t \in review.end \cup {0} : review.end = {} \/ t \in review.end
           clip == [kind |-> "clip", id |-> ClipId(review.start, end)]
           preview == [kind |-> "preview", id |-> "review"]
           snapshot == [kind |-> "snapshot", id |-> "event"]
           a == phase = "end" /\ review.end # {}
           b == phase = "end"
           c == review.event # {}
           cands == MediaCandidates(review, phase)
<1>1. ASSUME review.end # {} PROVE end \in review.end
  BY <1>1
<1>2. cands = (IF a THEN <<clip>> ELSE <<>>) \o (IF b THEN <<preview>> ELSE <<>>)
                \o (IF c THEN <<snapshot>> ELSE <<>>)
  BY DEF MediaCandidates
<1>3. clip.kind = "clip" /\ preview.kind = "preview" /\ snapshot.kind = "snapshot"
      /\ clip.id = ClipId(review.start, end)
  OBVIOUS
<1> HIDE DEF cands, clip, preview, snapshot, end
<1>5. CASE a /\ c
  <2>0. cands = <<clip>> \o <<preview>> \o <<snapshot>>
    BY <1>2, <1>5
  <2>1. cands = <<clip, preview, snapshot>>
    BY <2>0, Juxtaposed
  <2>2. /\ Len(cands) = 3 /\ DOMAIN cands = 1..3
        /\ cands[1] = clip /\ cands[2] = preview /\ cands[3] = snapshot
    BY <2>1
  <2>3. /\ phase = "end" /\ review.end # {}
        /\ cands[1].kind = "clip" /\ cands[1].id = ClipId(review.start, end) /\ end \in review.end
        /\ cands[2].kind = "preview" /\ cands[3].kind = "snapshot"
    BY <1>1, <1>3, <1>5, <2>2
  <2>4. Candidates(review, phase, cands)
    BY <2>2, <2>3 DEF Candidates
  <2> QED BY <2>2, <2>3, <2>4 DEF cands
<1>6. CASE a /\ ~c
  <2>0. cands = <<clip>> \o <<preview>> \o <<>>
    BY <1>2, <1>6
  <2>1. cands = <<clip, preview>>
    BY <2>0, Juxtaposed, EmptyBeside
  <2>2. /\ Len(cands) = 2 /\ DOMAIN cands = 1..2
        /\ cands[1] = clip /\ cands[2] = preview
    BY <2>1
  <2> QED BY <1>1, <1>3, <1>6, <2>2 DEF Candidates, cands
<1>7. CASE ~a /\ b /\ c
  <2>0. cands = <<>> \o <<preview>> \o <<snapshot>>
    BY <1>2, <1>7
  <2>1. cands = <<preview, snapshot>>
    BY <2>0, Juxtaposed, EmptyBeside
  <2>2. /\ Len(cands) = 2 /\ DOMAIN cands = 1..2
        /\ cands[1] = preview /\ cands[2] = snapshot
    BY <2>1
  <2>3. /\ phase = "end" /\ review.end = {}
        /\ cands[1].kind = "preview" /\ cands[2].kind = "snapshot"
    BY <1>3, <1>7, <2>2
  <2>4. Candidates(review, phase, cands)
    BY <2>2, <2>3 DEF Candidates
  <2> QED BY <2>2, <2>3, <2>4 DEF cands
<1>8. CASE ~a /\ b /\ ~c
  <2>0. cands = <<>> \o <<preview>> \o <<>>
    BY <1>2, <1>8
  <2>1. cands = <<preview>>
    BY <2>0, EmptyBeside
  <2>2. Len(cands) = 1 /\ DOMAIN cands = 1..1 /\ cands[1] = preview
    BY <2>1
  <2> QED BY <1>3, <1>8, <2>2 DEF Candidates, cands
<1>9. CASE ~b /\ c
  <2>0. cands = <<>> \o <<>> \o <<snapshot>>
    BY <1>2, <1>9
  <2>1. cands = <<snapshot>>
    BY <2>0, EmptyBeside
  <2>2. Len(cands) = 1 /\ DOMAIN cands = 1..1 /\ cands[1] = snapshot
    BY <2>1
  <2> QED BY <1>3, <1>9, <2>2 DEF Candidates, cands
<1>10. CASE ~b /\ ~c
  <2>0. cands = <<>> \o <<>> \o <<>>
    BY <1>2, <1>10
  <2>1. cands = <<>>
    BY <2>0, EmptyBeside
  <2>2. Len(cands) = 0 /\ DOMAIN cands = {}
    BY <2>1
  <2> QED BY <1>10, <2>2 DEF Candidates, cands
<1> QED BY <1>5, <1>6, <1>7, <1>8, <1>9, <1>10

\* With at most three candidates the function that Spent defines by recursion is
\* the one written out here, so it exists.
LEMMA SpentIs ==
  ASSUME NEW cands, Len(cands) \in 0..3, NEW answers
  PROVE  LET spent == Spent(cands, answers) IN
         /\ DOMAIN spent = 1..Len(cands)
         /\ \A i \in 1..Len(cands) :
              spent[i] = IF i = 1 THEN 0
                         ELSE spent[i-1] + Takes(cands[i-1], answers[cands[i-1].kind],
                                                 Allowed(cands[i-1].kind, spent[i-1]))
<1> DEFINE Step(i, s) == s + Takes(cands[i], answers[cands[i].kind], Allowed(cands[i].kind, s))
           n == Len(cands)
           IsSpent(g) == g = [i \in 1..n |-> IF i = 1 THEN 0 ELSE Step(i-1, g[i-1])]
           first == 0
           second == Step(1, first)
           third == Step(2, second)
           found == [i \in 1..n |-> IF i = 1 THEN 0 ELSE IF i = 2 THEN second ELSE third]
<1>1. n \in 0..3
  OBVIOUS
<1>3. Spent(cands, answers) = CHOOSE g : IsSpent(g)
  BY Zenon DEF Spent
<1>4. IsSpent(found)
  <2> HIDE DEF Step, n, second, third
  <2>1. found = [i \in 1..n |-> IF i = 1 THEN 0 ELSE Step(i-1, found[i-1])]
     BY <1>1 DEF second, third, first
  <2> QED BY <2>1
<1> HIDE DEF found, n, Step
<1>5. IsSpent(Spent(cands, answers))
  <2> HIDE DEF IsSpent
  <2> QED BY <1>3, <1>4
<1> QED BY <1>5 DEF Step, n
\* What is probed is among the candidates, and the clip is.
LEMMA WantedAre ==
  ASSUME NEW review, IsReview(review), NEW phase, NEW preset
  PROVE  LET cands == Wanted(review, phase, preset) IN
         /\ Candidates(review, phase, cands)
         /\ phase = "end" /\ review.end # {} => 1 \in DOMAIN cands /\ cands[1].kind = "clip"
         /\ preset # "text" => cands = MediaCandidates(review, phase)
<1> DEFINE all == MediaCandidates(review, phase)
           first == all[1]
           cands == Wanted(review, phase, preset)
<1>1. /\ Candidates(review, phase, all)
      /\ phase = "end" /\ review.end # {} => 1 \in DOMAIN all /\ all[1].kind = "clip"
  BY CandidatesAre
<1> HIDE DEF all
<1>2. CASE preset # "text"
  BY <1>1, <1>2 DEF Wanted, all
<1>3. CASE preset = "text" /\ all # <<>> /\ all[1].kind = "clip"
  <2>1. cands = <<first>>
    BY <1>3 DEF Wanted, all
  <2>2. 1 \in DOMAIN all
    BY <1>1, <1>3 DEF Candidates
  <2> HIDE DEF cands, first
  <2>3. Len(cands) = 1 /\ DOMAIN cands = 1..1 /\ cands[1] = all[1]
    BY <2>1 DEF first
  <2>4. cands[1].kind = "clip" /\ phase = "end" /\ \E t \in review.end : cands[1].id = ClipId(review.start, t)
    BY <1>1, <1>3, <2>2, <2>3 DEF Candidates
  <2>5. Candidates(review, phase, cands)
    BY <2>3, <2>4 DEF Candidates
  <2> QED BY <1>3, <2>3, <2>4, <2>5 DEF cands
<1>4. CASE preset = "text" /\ ~(all # <<>> /\ all[1].kind = "clip")
  <2>1. cands = <<>>
    BY <1>4 DEF Wanted, all
  <2>2. ~(phase = "end" /\ review.end # {})
    BY <1>1, <1>4
  <2>3. Len(cands) = 0 /\ DOMAIN cands = {}
    BY <2>1
  <2> HIDE DEF cands
  <2>4. Candidates(review, phase, cands)
    BY <2>3 DEF Candidates
  <2> QED BY <1>4, <2>2, <2>4 DEF cands
<1> QED BY <1>2, <1>3, <1>4

\* A probe with enough budget left has its own limit, and keeps to it.
LEMMA ProbeInBudget ==
  ASSUME NEW kind \in {"clip", "preview", "snapshot"}, NEW s \in Nat, s + Timeout(kind) <= ProbeBudget,
         NEW cand, cand.kind = kind, NEW answer, answer.takes \in Nat
  PROVE  /\ Allowed(kind, s) = Timeout(kind)
         /\ Takes(cand, answer, Allowed(kind, s)) \in 0..Timeout(kind)
  BY ProbeAssumption DEF Timeout, Allowed, Takes, Least

\* Every candidate has its own limit, whatever those before it took.
LEMMA EachHasItsTime ==
  ASSUME NEW review, NEW phase, NEW cands, Candidates(review, phase, cands),
         NEW answers, IsFrigate(answers), NEW i \in DOMAIN cands
  PROVE  Allowed(cands[i].kind, Spent(cands, answers)[i]) = Timeout(cands[i].kind)
<1> DEFINE spent == Spent(cands, answers)
           n == Len(cands)
           T(j) == Timeout(cands[j].kind)
           U(j) == Takes(cands[j], answers[cands[j].kind], Allowed(cands[j].kind, spent[j]))
<1>0. /\ n \in 0..3 /\ i \in 1..n
      /\ \A j \in 1..n : cands[j].kind \in {"clip", "preview", "snapshot"}
      /\ \A j \in 1..n : j # 1 => cands[j].kind # "clip"
      /\ n = 3 => cands[1].kind = "clip"
      /\ \A j \in 1..n : answers[cands[j].kind].takes \in Nat
  BY DEF Candidates, IsFrigate
<1>1. \A j \in 1..n : spent[j] = IF j = 1 THEN 0 ELSE spent[j-1] + U(j-1)
  BY <1>0, SpentIs
<1>2. /\ ClipProbe \in Nat \ {0} /\ StillProbe \in Nat \ {0} /\ ProbeBudget \in Nat
      /\ ClipProbe + StillProbe + StillProbe <= ProbeBudget
  BY ProbeAssumption, BudgetAssumption
<1>3. /\ \A j \in 1..n : T(j) \in {ClipProbe, StillProbe}
      /\ \A j \in 2..n : T(j) = StillProbe
      /\ n = 3 => T(1) = ClipProbe
  BY <1>0 DEF Timeout
<1>4. ASSUME NEW j \in 1..n, spent[j] \in Nat, spent[j] + T(j) <= ProbeBudget
      PROVE  Allowed(cands[j].kind, spent[j]) = T(j) /\ U(j) \in 0..T(j)
  BY <1>0, <1>4, ProbeInBudget
<1> HIDE DEF spent, n, T, U
<1>5. n >= 1 => spent[1] = 0 /\ spent[1] + T(1) <= ProbeBudget /\ U(1) \in 0..T(1)
  BY <1>0, <1>1, <1>2, <1>3, <1>4
<1>6. n >= 2 => spent[2] \in 0..T(1) /\ spent[2] + T(2) <= ProbeBudget /\ U(2) \in 0..T(2)
  <2> SUFFICES ASSUME n >= 2 PROVE spent[2] \in 0..T(1) /\ spent[2] + T(2) <= ProbeBudget /\ U(2) \in 0..T(2)
    OBVIOUS
  <2>1. spent[2] = spent[1] + U(1)
    BY <1>0, <1>1
  <2>2. spent[2] \in 0..T(1) /\ spent[2] + T(2) <= ProbeBudget
    BY <1>0, <1>2, <1>3, <1>5, <2>1
  <2> QED BY <1>0, <1>2, <1>3, <1>4, <2>2
<1>7. n >= 3 => spent[3] \in Nat /\ spent[3] + T(3) <= ProbeBudget
  <2> SUFFICES ASSUME n >= 3 PROVE spent[3] \in Nat /\ spent[3] + T(3) <= ProbeBudget
    OBVIOUS
  <2>1. spent[3] = spent[2] + U(2)
    BY <1>0, <1>1
  <2> QED BY <1>0, <1>2, <1>3, <1>6, <2>1
<1>8. spent[i] \in Nat /\ spent[i] + T(i) <= ProbeBudget
  <2>1. i \in {1, 2, 3} /\ n >= i
    BY <1>0
  <2> QED BY <1>0, <1>2, <1>3, <1>5, <1>6, <1>7, <2>1
<1>9. Allowed(cands[i].kind, spent[i]) = T(i)
  BY <1>0, <1>4, <1>8
<1> QED BY <1>9 DEF spent, T

\* What is well formed and quick enough is probed as what Frigate says it is.
LEMMA ProbedAs ==
  ASSUME NEW review, NEW phase, NEW cands, Candidates(review, phase, cands),
         NEW answers, IsFrigate(answers), NEW prober, NEW i \in DOMAIN cands,
         Accepts(cands[i].kind, cands[i].id),
         answers[cands[i].kind].takes < Timeout(cands[i].kind)
  PROVE  Checks(cands, answers, prober)[i] \in {"fits", answers[cands[i].kind].says}
<1>1. i \in 1..Len(cands) /\ answers[cands[i].kind].takes \in Nat
  BY DEF Candidates, IsFrigate
<1>2. Timeout(cands[i].kind) \in Nat
  BY ProbeAssumption DEF Timeout
<1>3. Allowed(cands[i].kind, Spent(cands, answers)[i]) = Timeout(cands[i].kind)
  BY EachHasItsTime
<1> QED BY <1>1, <1>2, <1>3 DEF Checks, Probe

\* The candidates of a notification, what the probes say of them, and whether one
\* fits.
Cands(i) == IF i.signer THEN Wanted(i.review, i.phase, i.preset) ELSE <<>>
Check(i) == Checks(Cands(i), i.answers, i.prober)
SignedAt(i, k) == Link(Cands(i)[k].kind, Cands(i)[k].id, i.exp)
Fits(i, k) == Check(i)[k] = "fits" /\ i.preset # "text" /\ SignedAt(i, k) # {}

LEMMA ClipIsFirst ==
  ASSUME NEW in, IsReview(in.review), in.signer, in.phase = "end", in.review.end # {}
  PROVE  1 \in DOMAIN Cands(in) /\ Cands(in)[1].kind = "clip"
<1>1. Cands(in) = Wanted(in.review, "end", in.preset)
  BY DEF Cands
<1> QED BY <1>1, WantedAre

\* What is attached is what fits.
LEMMA BuiltIs ==
  ASSUME NEW in, IsReview(in.review)
  PROVE  /\ Candidates(in.review, in.phase, Cands(in))
         /\ \A l \in Links(Built(in)) : \E i \in DOMAIN Cands(in) :
              \/ l \in SignedAt(in, i)
              \/ Cands(in)[i].kind = "clip" /\ l \in Link("play", Cands(in)[i].id, in.exp)
         /\ \A i \in DOMAIN Cands(in) :
              Cands(in)[i].kind = "snapshot" /\ Fits(in, i) => SignedAt(in, i) \subseteq Built(in).snapshot
         /\ \A i \in DOMAIN Cands(in) :
              /\ Cands(in)[i].kind \in {"preview", "snapshot"} /\ Fits(in, i)
              /\ \A j \in DOMAIN Cands(in) : Cands(in)[j].kind \in {"preview", "snapshot"} => i <= j
              => SignedAt(in, i) \subseteq Built(in).image
         /\ \A i \in DOMAIN Cands(in) :
              Cands(in)[i].kind = "clip" /\ Check(in)[i] \in {"fits", "too large"} =>
                Link("play", Cands(in)[i].id, in.exp) \subseteq Built(in).clipUrl
<1> DEFINE cands == Cands(in)
           check == Check(in)
           exp == in.exp
           preset == in.preset
<1>1. Candidates(in.review, in.phase, cands)
  <2>1. CASE in.signer
    BY <2>1, WantedAre DEF Cands
  <2>2. CASE ~in.signer
    <3>1. cands = <<>> /\ Len(<<>>) = 0 /\ DOMAIN <<>> = {}
      BY <2>2 DEF Cands
    <3> QED BY <3>1 DEF Candidates
  <2> QED BY <2>1, <2>2
<1> DEFINE Signed(i) == Link(cands[i].kind, cands[i].id, exp)
           Fitting(kinds) == {i \in DOMAIN cands : cands[i].kind \in kinds /\ check[i] = "fits"
                                                     /\ preset # "text" /\ Signed(i) # {}}
           First(S) == {i \in S : \A j \in S : i <= j}
           built == Built(in)
<1>2. /\ built.video = UNION {Signed(i) : i \in Fitting({"clip"})}
      /\ built.image = UNION {Signed(i) : i \in First(Fitting({"preview", "snapshot"}))}
      /\ built.snapshot = UNION {Signed(i) : i \in Fitting({"snapshot"})}
      /\ built.clipUrl = UNION {Link("play", cands[i].id, exp) :
                               i \in {i \in DOMAIN cands : cands[i].kind = "clip"
                                        /\ check[i] \in {"fits", "too large"}}}
  BY DEF Built, BuildContent, Cands, Check
<1> HIDE DEF built, cands, check
<1>3. ASSUME NEW l \in Links(built)
      PROVE  \E i \in DOMAIN cands : \/ l \in Signed(i)
                                     \/ cands[i].kind = "clip" /\ l \in Link("play", cands[i].id, exp)
  BY <1>2 DEF Links
<1>4. ASSUME NEW i \in DOMAIN cands, cands[i].kind = "snapshot", i \in Fitting({"snapshot"})
      PROVE  Signed(i) \subseteq built.snapshot
  BY <1>2, <1>4
<1>5. ASSUME NEW i \in First(Fitting({"preview", "snapshot"}))
      PROVE  Signed(i) \subseteq built.image
  BY <1>2
<1>6. ASSUME NEW i \in DOMAIN cands, cands[i].kind = "clip", check[i] \in {"fits", "too large"}
      PROVE  Link("play", cands[i].id, exp) \subseteq built.clipUrl
  BY <1>2, <1>6
<1> QED BY <1>1, <1>3, <1>4, <1>5, <1>6 DEF built, cands, check, Fits, SignedAt

\* What a signed link says, and when there is one.
LEMMA LinkIs ==
  ASSUME NEW kind, NEW id, NEW exp, NEW l \in Link(kind, id, exp)
  PROVE  /\ DOMAIN l = {"kind", "id", "exp"}
         /\ l.kind = kind /\ l.id = id /\ l.exp = exp /\ Accepts(l.kind, l.id)
  BY DEF Link

LEMMA LinkExists ==
  ASSUME NEW kind, NEW id, NEW exp, kind # "vod", Accepts(kind, id)
  PROVE  [kind |-> kind, id |-> id, exp |-> exp] \in Link(kind, id, exp)
  BY DEF Link

\* Every link of a notification, and of its player pages, is served until it
\* expires, and a clip covers its review, for every review, answer and padding
\* (presets.go's addMedia, media.go's Link and Verify).
THEOREM LinksServed == Spec => []LinksAreServed
<1>1. input \in Inputs => LinksAreServed
  <2> SUFFICES ASSUME input \in Inputs, input.part = "media" PROVE LinksAreServed
    BY DEF LinksAreServed
  <2> DEFINE cands == Cands(input)
             links == Links(Built(input))
             played == UNION {PlayerLinks(l) : l \in {l \in links : l.kind = "play"}}
             Good(l) == /\ DOMAIN l = {"kind", "id", "exp"}
                        /\ l.exp = input.exp /\ Accepts(l.kind, l.id)
                        /\ l.kind \in {"clip", "play", "vod"} =>
                             /\ l.id.start <= input.review.start
                             /\ \A t \in input.review.end : l.id.end >= t
  <2>1. IsReview(input.review) /\ input.exp \in Nat
    BY InputAssumption
  <2>2. ASSUME NEW t \in input.review.end
        PROVE  /\ ClipId(input.review.start, t).start <= input.review.start
               /\ \A u \in input.review.end : ClipId(input.review.start, t).end >= u
    BY <2>1, ClipAssumption DEF IsReview, ClipId
  <2>3. ASSUME NEW l \in links PROVE Good(l)
    <3>1. PICK i \in DOMAIN cands :
            \/ l \in SignedAt(input, i)
            \/ cands[i].kind = "clip" /\ l \in Link("play", cands[i].id, input.exp)
      BY <2>1, <2>3, BuiltIs
    <3>2. Candidates(input.review, input.phase, cands)
      BY <2>1, BuiltIs
    <3> HIDE DEF cands
    <3>3. /\ DOMAIN l = {"kind", "id", "exp"}
          /\ l.exp = input.exp /\ l.id = cands[i].id /\ Accepts(l.kind, l.id)
          /\ \/ l.kind = cands[i].kind
             \/ cands[i].kind = "clip" /\ l.kind = "play"
      <4>1. CASE l \in SignedAt(input, i)
        <5>1. l \in Link(cands[i].kind, cands[i].id, input.exp)
          BY <4>1 DEF SignedAt, cands
        <5> QED BY <5>1, LinkIs
      <4>2. CASE cands[i].kind = "clip" /\ l \in Link("play", cands[i].id, input.exp)
        BY <4>2, LinkIs
      <4> QED BY <3>1, <4>1, <4>2
    <3>4. CASE cands[i].kind = "clip"
      <4>1. PICK t \in input.review.end : cands[i].id = ClipId(input.review.start, t)
        BY <3>2, <3>4 DEF Candidates
      <4> QED BY <2>2, <3>3, <4>1
    <3>5. CASE cands[i].kind \in {"preview", "snapshot"}
      BY <3>3, <3>5
    <3> QED BY <3>2, <3>4, <3>5 DEF Candidates
  <2> HIDE DEF links
  <2>4. ASSUME NEW l \in played PROVE Good(l)
    <3>1. PICK page \in links : page.kind = "play" /\ l \in PlayerLinks(page)
      OBVIOUS
    <3>2. DOMAIN l = DOMAIN page /\ l.exp = page.exp /\ l.id = page.id /\ l.kind \in {"vod", "clip"}
      BY <2>3, <3>1 DEF PlayerLinks
    <3> QED BY <2>3, <3>1, <3>2 DEF Accepts
  <2>5. \A l \in links \cup played : Good(l)
    BY <2>3, <2>4
  <2> HIDE DEF played
  <2>6. ASSUME NEW l \in links \cup played, NEW now \in 0..input.exp-1
        PROVE  Verify(l, links \cup played, now) = "served"
    BY <2>1, <2>5 DEF Verify
  <2> QED BY <2>5, <2>6 DEF LinksAreServed, links, played
<1> QED BY <1>1, InputStays, PTL

\* What exists is shown, for every review and every answer of Frigate, as long as
\* the limits of the probes fit the budget (presets.go's addMedia and compose).
THEOREM WhatExistsIsShown == Spec => []WhatIsThereIsShown
<1>1. ASSUME input \in Inputs PROVE SlowMediaCostsNoStill
  <2> SUFFICES ASSUME input.part = "media", input.signer, input.preset # "text",
                      NEW kind \in {"preview", "snapshot"},
                      input.answers[kind].says = "fits", input.answers[kind].takes < StillProbe,
                      kind = "preview" => input.phase = "end",
                      kind = "snapshot" => input.review.event # {}
               PROVE  \/ \E l \in Built(input).image : l.kind = kind
                      \/ kind = "snapshot" /\ Built(input).snapshot # {}
    BY DEF SlowMediaCostsNoStill
  <2> DEFINE cands == Cands(input)
  <2>1. IsReview(input.review) /\ IsFrigate(input.answers)
    BY <1>1, InputAssumption
  <2>2. cands = MediaCandidates(input.review, input.phase)
    BY <2>1, WantedAre DEF Cands
  <2>3. /\ Candidates(input.review, input.phase, cands)
        /\ \A i \in DOMAIN cands :
             cands[i].kind = "snapshot" /\ Fits(input, i) => SignedAt(input, i) \subseteq Built(input).snapshot
        /\ \A i \in DOMAIN cands :
             /\ cands[i].kind \in {"preview", "snapshot"} /\ Fits(input, i)
             /\ \A j \in DOMAIN cands : cands[j].kind \in {"preview", "snapshot"} => i <= j
             => SignedAt(input, i) \subseteq Built(input).image
    BY <2>1, BuiltIs
  <2>4. PICK i \in DOMAIN cands : cands[i].kind = kind
    BY <2>1, <2>2, CandidatesAre
  <2>5. Accepts(kind, cands[i].id) /\ Timeout(kind) = StillProbe
    BY DEF Accepts, Timeout
  <2> HIDE DEF cands
  <2>6. Check(input)[i] = "fits"
    <3>1. Checks(cands, input.answers, input.prober)[i] \in {"fits", input.answers[kind].says}
      BY <2>1, <2>3, <2>4, <2>5, ProbedAs
    <3> QED BY <3>1 DEF Check, cands
  <2>7. [kind |-> kind, id |-> cands[i].id, exp |-> input.exp] \in SignedAt(input, i)
    BY <2>4, <2>5, LinkExists DEF SignedAt, cands
  <2>10. Fits(input, i)
    BY <2>6, <2>7 DEF Fits
  <2>8. CASE kind = "snapshot"
    BY <2>3, <2>4, <2>7, <2>8, <2>10
  <2>9. CASE kind = "preview"
    <3>1. ASSUME NEW j \in DOMAIN cands, cands[j].kind \in {"preview", "snapshot"} PROVE i <= j
      BY <2>3, <2>4, <2>9, <3>1 DEF Candidates
    <3> QED BY <2>3, <2>4, <2>7, <2>9, <2>10, <3>1
  <2> QED BY <2>8, <2>9
<1>2. ASSUME input \in Inputs PROVE ClipIsPlayable
  <2> SUFFICES ASSUME input.part = "media", input.signer, input.phase = "end",
                      NEW t \in input.review.end,
                      ParsesAsClip(ClipId(input.review.start, t)),
                      input.answers["clip"].says \in {"fits", "too large"},
                      input.answers["clip"].takes < ClipProbe
               PROVE  Built(input).clipUrl # {}
    BY DEF ClipIsPlayable
  <2> DEFINE cands == Cands(input)
  <2>1. IsReview(input.review) /\ IsFrigate(input.answers)
    BY <1>2, InputAssumption
  <2>2. /\ Candidates(input.review, input.phase, cands)
        /\ \A i \in DOMAIN cands :
             cands[i].kind = "clip" /\ Check(input)[i] \in {"fits", "too large"} =>
               Link("play", cands[i].id, input.exp) \subseteq Built(input).clipUrl
    BY <2>1, BuiltIs
  <2>3. 1 \in DOMAIN cands /\ cands[1].kind = "clip"
    <3>1. input.review.end # {}
      OBVIOUS
    <3> QED BY <2>1, <3>1, ClipIsFirst
  <2> HIDE DEF cands
  <2>5. cands[1].id = ClipId(input.review.start, t)
    <3>1. PICK u \in input.review.end : cands[1].id = ClipId(input.review.start, u)
      BY <2>2, <2>3 DEF Candidates
    <3> QED BY <2>1, <3>1 DEF IsReview
  <2>6. Accepts(cands[1].kind, cands[1].id) /\ Accepts("play", cands[1].id) /\ Timeout("clip") = ClipProbe
    BY <2>5 DEF Accepts, Timeout
  <2>7. Check(input)[1] \in {"fits", "too large"}
    <3>1. Checks(cands, input.answers, input.prober)[1] \in {"fits", input.answers[cands[1].kind].says}
      BY <2>1, <2>2, <2>3, <2>6, ProbedAs
    <3> QED BY <2>3, <3>1 DEF Check, cands
  <2>8. [kind |-> "play", id |-> cands[1].id, exp |-> input.exp] \in Link("play", cands[1].id, input.exp)
    BY <2>6, LinkExists
  <2> QED BY <2>2, <2>3, <2>7, <2>8
<1>3. LateTextIsShown
  BY DEF LateTextIsShown, Compose, GenAI
<1>4. input \in Inputs => WhatIsThereIsShown
  BY <1>1, <1>2, <1>3 DEF WhatIsThereIsShown
<1> QED BY <1>4, InputStays, PTL
=============================================================================
