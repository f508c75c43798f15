-------------------------------- MODULE Rules --------------------------------
(***************************************************************************)
(* Which rule a review matches (rules/rules.go).  Names of cameras, labels *)
(* and faces are model values and stand for their case-folded spelling;    *)
(* an empty set of a condition means "any", as an empty list does.         *)
(*                                                                         *)
(* A context mc is what a rule is evaluated against: the review's camera,  *)
(* severity, zones, labels and recognised faces, its phase, how long it    *)
(* has lasted, the time of day in each time zone, and what Home Assistant  *)
(* says of the sun (in the configured zone) and of each entity, where      *)
(* Unreadable stands for a lookup that fails.                              *)
(***************************************************************************)
EXTENDS Window, FiniteSets, Functions

CONSTANTS Person,      \* the label of a person
          Unreadable,  \* what a lookup that fails says
          None         \* "not set"

\* How many people the labels hold.
People(labels) == Cardinality({i \in DOMAIN labels : labels[i] = Person})

\* There is a face, every face is in names, and the labels hold no more people
\* than faces.
AccountsForEveryone(names, subLabels, labels) ==
  /\ Range(subLabels) \subseteq names
  /\ Len(subLabels) > 0
  /\ Len(subLabels) >= People(labels)

\* The window in a rule's hours, by the clock of the rule's zone, answering
\* onError while the sun it needs is unreadable.
InWindow(w, mc, onError, zone) ==
  IF NeedsSolar(w) /\ mc.sun = Unreadable
  THEN onError ELSE Contains(w, mc.now[zone], mc.sun)

EntityMatches(mc, entity, want, onError) ==
  IF mc.states[entity] = Unreadable THEN onError ELSE mc.states[entity] = want

\* Every condition that is set holds.
Evaluate(c, mc, onError, zone) ==
  /\ c.cameras # {} => mc.camera \in c.cameras
  /\ c.labels # {} => c.labels \cap Range(mc.labels) # {}
  /\ c.zones # {} => c.zones \cap mc.zones # {}
  /\ c.subLabels # {} => c.subLabels \cap Range(mc.subLabels) # {}
  /\ c.excludeSubLabels # {} =>
       ~AccountsForEveryone(c.excludeSubLabels, mc.subLabels, mc.labels)
  /\ c.severity # {} => mc.severity \in c.severity
  /\ c.minDwell > 0 => mc.dwell >= c.minDwell
  /\ c.hours # None => InWindow(c.hours, mc, onError, zone)
  /\ \A e \in DOMAIN c.entityState : EntityMatches(mc, e, c.entityState[e], onError)

\* Fault: an exception that cannot be read applies.
UnlessFailsClosed == TRUE

\* What a condition that cannot be read counts as.
WhenOnError == TRUE
UnlessOnError == FALSE

SuppressedBy(unless, mc, zone) ==
  \E i \in DOMAIN unless : Evaluate(unless[i], mc, UnlessOnError, zone)

MatchOne(rule, mc) ==
  /\ ~(mc.phase = "new" /\ rule.when.minDwell > 0)
  /\ Evaluate(rule.when, mc, WhenOnError, rule.timezone)
  /\ ~SuppressedBy(rule.unless, mc, rule.timezone)

\* The index of the first rule that matches, 0 if none does.
Match(rules, mc) ==
  IF \E i \in DOMAIN rules : MatchOne(rules[i], mc)
  THEN CHOOSE i \in DOMAIN rules :
         MatchOne(rules[i], mc) /\ \A j \in 1..i-1 : ~MatchOne(rules[j], mc)
  ELSE 0
=============================================================================
