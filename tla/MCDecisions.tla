----------------------------- MODULE MCDecisions -----------------------------
(* Small sets of configurations, windows and notifications for TLC. *)
EXTENDS Decisions, TLC

CONSTANTS front, back, ann, car, lock,
          away   \* a time zone of a rule's own

\* Nothing set.
AnyReview ==
  [cameras |-> {}, labels |-> {}, zones |-> {}, subLabels |-> {},
   excludeSubLabels |-> {}, severity |-> {}, hours |-> None, minDwell |-> 0,
   entityState |-> <<>>]

Night == [from |-> Solar("dusk", 0), to |-> Solar("dawn", -(3 * Minutes))]
Evening == [from |-> Clock(20 * Minutes), to |-> [kind |-> "invalid"]]
Sun == [e \in SolarEvents |->
         CASE e = "dawn" -> 2 * Minutes [] e = "sunrise" -> 6 * Minutes
           [] e = "sunset" -> 20 * Minutes [] e = "dusk" -> 21 * Minutes]

\* One condition set, each of which some review meets and some does not.
Single == {[AnyReview EXCEPT !.labels = {Person}], [AnyReview EXCEPT !.subLabels = {ann}],
           [AnyReview EXCEPT !.excludeSubLabels = {ann}], [AnyReview EXCEPT !.minDwell = 1],
           [AnyReview EXCEPT !.hours = Night], [AnyReview EXCEPT !.entityState = lock :> "on"],
           [AnyReview EXCEPT !.cameras = {front}, !.severity = {"alert"}]}
\* Two of them.
Both(c, d) ==
  [cameras |-> c.cameras \cup d.cameras, labels |-> c.labels \cup d.labels,
   zones |-> {}, subLabels |-> c.subLabels \cup d.subLabels,
   excludeSubLabels |-> c.excludeSubLabels \cup d.excludeSubLabels,
   severity |-> c.severity \cup d.severity,
   hours |-> IF c.hours = None THEN d.hours ELSE c.hours,
   minDwell |-> c.minDwell + d.minDwell,
   entityState |-> c.entityState @@ d.entityState]
Pairs == {Both(c, d) : c \in Single, d \in Single}

Rule(when, unless) ==
  [name |-> "rule", when |-> when, unless |-> unless, holdoff |-> None, cooldown |-> 0,
   scope |-> Blank, to |-> <<"alice">>, preset |-> Blank, timezone |-> Blank]
CatchAll == [Rule([AnyReview EXCEPT !.severity = {"alert"}], <<>>) EXCEPT !.name = "rest"]

Yaml == [f \in Fields |-> IF f \in Required THEN "good" ELSE Blank]
Unset == [f \in Fields |-> Blank]
Alice(target) == [targets |-> <<target>>, maxPerHour |-> 0, activeHours |-> None]
Target(type) == [type |-> type, address |-> "good"]

Configuration(rules) ==
  [fields |-> Yaml, linkTTL |-> 0, frigateUIURL |-> Blank, rules |-> rules,
   recipients |-> "alice" :> Alice(Target("hass")),
   cameras |-> [c \in {front, back} |-> [live |-> Blank]]]
Loaded(config, process) == [part |-> "config", config |-> config, process |-> process]

\* What rules make of reviews.
RuleInputs ==
  {Loaded(Configuration(<<[Rule(when, unless) EXCEPT !.timezone = zone], CatchAll>>), Unset) :
     zone \in {Blank, away},
     when \in Pairs \cup {AnyReview},
     unless \in {<<>>, <<AnyReview>>} \cup {<<c>> : c \in Single}
                 \cup {<<c, [AnyReview EXCEPT !.entityState = lock :> "on"]>> : c \in Single}}

\* What makes a configuration good enough to start on: the stream a rule shows,
\* and the backend that reaches a recipient.
StreamInputs ==
  {Loaded([Configuration(<<[Rule([AnyReview EXCEPT !.cameras = cams, !.hours = hours], <<>>)
                             EXCEPT !.preset = preset]>>)
             EXCEPT !.cameras = [c \in {front, back} |-> [live |-> live[c]]]], Unset) :
     cams \in {{}, {front}, {"elsewhere"}}, hours \in {None, Night, Evening},
     preset \in {Blank, "liveview", "video"}, live \in [{front, back} -> {Blank, "good"}]}
BackendInputs ==
  {Loaded([Configuration(<<[Rule(AnyReview, <<>>) EXCEPT !.to = to, !.timezone = zone]>>)
             EXCEPT !.recipients = "alice" :> Alice(Target(type)),
                    !.fields = [Yaml EXCEPT !["SLACK_BOT_TOKEN"] = token, !["DB_URL"] = db]],
          [Unset EXCEPT !["SLACK_BOT_TOKEN"] = env, !["NTFY_URL"] = env]) :
     to \in {<<"alice">>, <<"alice", "alice">>, <<"bob">>}, zone \in {Blank, "bad"},
     type \in {"hass", "slack", "ntfy", "discord"}, token \in {Blank, "good"},
     db \in {Blank, "bad"}, env \in {Blank, "good"}}

MCContexts ==
  [camera : {front, back}, severity : {"alert"}, zones : {{}},
   labels : {<<Person>>, <<Person, Person>>, <<car>>},
   subLabels : {<<>>, <<ann>>, <<ann, Stranger>>},
   phase : {"new", "end"}, dwell : 0..1,
   now : {"good" :> 0 @@ away :> 23 * Minutes, "good" :> 23 * Minutes @@ away :> 0},
   sun : {Sun}, states : [{lock} -> {"on", "off"}]]

-----------------------------------------------------------------------------
MCSpellings ==
  [form : {"24h"}, hour : {0, 11, 12, 23, 24}, minute : 0..Minutes, half : {"none"}]
    \cup [form : {"12h"}, hour : 0..13, minute : 0..Minutes, half : {"am", "pm"}]
    \cup [form : {"named"}, word : {"noon", "midnight"}]
    \cup [form : {"solar"}, event : {"dusk", "dawn"},
          offset : {0, 5, -Minutes, -(5 * Minutes), Day, -(2 * Day) - 1}]
    \cup [form : {"other"}]
WindowInputs ==
  [part : {"window"}, from : MCSpellings, to : MCSpellings, sun : {Sun}]

\* Answers that decide what is attached, slow and fast.
Says(what, seconds) == [says |-> what, takes |-> seconds]
MCAnswers == {Says("fits", 1), Says("fits", 5), Says("fits", 30), Says("too large", 5),
              Says("missing", 1), Says("missing", 30)}
MediaKinds == {"clip", "preview", "snapshot"}
Reviewed == [start : {0, 9}, end : {{}, {9}, {60}}, event : {{}, {1}}]
MediaInputs ==
  LET Media(probed, answers) ==
        [part : {"media"}, phase : {"update", "end"}, preset : {"auto", "text"}, exp : {3},
         review : Reviewed, signer : {TRUE}, prober : {probed}, answers : answers]
  IN Media(TRUE, [MediaKinds -> MCAnswers])
       \cup Media(FALSE, {[k \in MediaKinds |-> Says("missing", 1)]})
TextInputs ==
  [part : {"text"}, description : {{}, {"description"}}, title : {{}, {"title"}},
   summary : {{}, {"summary"}}]

MCInputs == RuleInputs \cup StreamInputs \cup BackendInputs \cup WindowInputs
              \cup MediaInputs \cup TextInputs
=============================================================================
