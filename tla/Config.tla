-------------------------------- MODULE Config --------------------------------
(***************************************************************************)
(* What a configuration must satisfy before the service starts on it, and  *)
(* what is filled in for it (config/config.go): config.Read after the YAML *)
(* is parsed.  A written value is Blank, or "good" or "bad" where the code *)
(* goes on to parse it: a database url, the address of the Frigate UI, a   *)
(* time zone, where any other value names another zone that loads.         *)
(***************************************************************************)
EXTENDS Rules

CONSTANT DefaultHoldoff   \* what a rule that waits for faces waits
ASSUME DefaultHoldoffAssumption == DefaultHoldoff \in Nat \ {0}

Blank == "blank"

-----------------------------------------------------------------------------
\* The fields a process variable may override, by what becomes of a blank one.
Required == {"HASS_URL", "HASS_TOKEN", "MQTT_BROKER", "MQTT_USERNAME", "MQTT_PASSWORD"}
Defaulted == {"MQTT_CLIENT_ID", "MQTT_TOPIC_PREFIX", "TIMEZONE"}
Optional == {"SLACK_BOT_TOKEN", "NTFY_URL", "NTFY_TOKEN", "REDIS_URL", "DB_URL",
             "MEDIA_FRIGATE_URL", "MEDIA_PUBLIC_BASE_URL", "MEDIA_SIGNING_KEY"}
Fields == Required \cup Defaulted \cup Optional

\* The environment the fields are read from: what the YAML says, unless a
\* variable of the process that is not empty says otherwise.
EnvFor(yaml, process) ==
  [f \in Fields |-> IF process[f] # Blank THEN process[f] ELSE yaml[f]]

FillIn(fields) ==
  [f \in Fields |-> IF f \in Defaulted /\ fields[f] = Blank THEN "good" ELSE fields[f]]

NotEmpty(fields) == \A f \in Required : fields[f] # Blank

MediaEnabled(c) ==
  \A f \in {"MEDIA_FRIGATE_URL", "MEDIA_PUBLIC_BASE_URL", "MEDIA_SIGNING_KEY"} :
    c.fields[f] # Blank

-----------------------------------------------------------------------------
\* applyDefaults: an error for a time zone that does not load.
ZonesLoad(c) ==
  /\ c.fields["TIMEZONE"] # "bad"
  /\ \A i \in DOMAIN c.rules : c.rules[i].timezone # "bad"

RuleWithDefaults(c, rule) ==
  [rule EXCEPT !.preset = IF @ = Blank THEN "auto" ELSE @,
               !.scope = IF @ = Blank THEN "camera" ELSE @,
               !.timezone = IF @ = Blank THEN c.fields["TIMEZONE"] ELSE @]

WithDefaults(c) ==
  [c EXCEPT !.linkTTL = IF @ = 0 THEN 24 ELSE @,
            !.rules = [i \in DOMAIN @ |-> RuleWithDefaults(c, @[i])]]

-----------------------------------------------------------------------------
\* A condition with nothing set.
IsZero(u) ==
  /\ {u.cameras, u.labels, u.zones, u.subLabels, u.excludeSubLabels, u.severity} = {{}}
  /\ u.hours = None /\ u.minDwell = 0 /\ DOMAIN u.entityState = {}

\* A window that is given has both its ends.
WindowOk(w) == w # None => w.from.kind # "invalid" /\ w.to.kind # "invalid"

ConditionsOk(c, u) ==
  /\ u.cameras \subseteq DOMAIN c.cameras
  /\ u.severity \subseteq {"alert", "detection"}
  /\ WindowOk(u.hours)
  /\ u.minDwell >= 0

\* Fault: any condition may be an exception.
UnlessNotEmpty(c, u) == ~IsZero(u) /\ ConditionsOk(c, u)

UnlessOk(c, u) == ~IsZero(u) /\ u.excludeSubLabels = {} /\ ConditionsOk(c, u)

\* The target says where to go, and its backend can be reached.
TargetOk(c, t) ==
  CASE t.type \in {"hass", "discord"} -> t.address = "good"
    [] t.type = "slack" -> t.address # Blank /\ c.fields["SLACK_BOT_TOKEN"] # Blank
    [] t.type = "ntfy" -> t.address # Blank /\ c.fields["NTFY_URL"] # Blank
    [] OTHER -> FALSE

RecipientOk(c, r) ==
  /\ r.targets # <<>>
  /\ \A i \in DOMAIN r.targets : TargetOk(c, r.targets[i])
  /\ r.maxPerHour >= 0
  /\ WindowOk(r.activeHours)

\* Fault: the cameras a rule names.
CamerasNamed(c, rule) == rule.when.cameras

\* The cameras whose reviews a rule may match.
CamerasOf(c, rule) ==
  IF rule.when.cameras = {} THEN DOMAIN c.cameras ELSE rule.when.cameras

LiveViewOk(c, rule) ==
  rule.preset = "liveview" =>
    \A cam \in CamerasOf(c, rule) : cam \in DOMAIN c.cameras /\ c.cameras[cam].live # Blank

RuleOk(c, rule) ==
  /\ rule.name # Blank
  /\ rule.to # <<>> /\ Range(rule.to) \subseteq DOMAIN c.recipients
  /\ IsInjective(rule.to)
  /\ rule.cooldown >= 0
  /\ rule.holdoff # None => rule.holdoff >= 0
  /\ rule.preset \in {"auto", "text", "liveview"}
  /\ rule.scope \in {"camera", "rule", "global"}
  /\ ConditionsOk(c, rule.when)
  /\ \A j \in DOMAIN rule.unless : UnlessOk(c, rule.unless[j])
  /\ LiveViewOk(c, rule)

Validate(c) ==
  /\ c.fields["DB_URL"] # "bad"
  /\ DOMAIN c.recipients # {} /\ DOMAIN c.cameras # {} /\ c.rules # <<>>
  /\ c.linkTTL >= 0
  /\ \A r \in DOMAIN c.recipients : RecipientOk(c, c.recipients[r])
  /\ c.frigateUIURL \in {Blank, "good"}
  /\ \A i \in DOMAIN c.rules : RuleOk(c, c.rules[i])
  /\ \A i, j \in DOMAIN c.rules : c.rules[i].name = c.rules[j].name => i = j

\* The configuration the service runs on, None if it refuses to start: fields
\* is what c's YAML holds, process the variables of the process.
Read(c, process) ==
  LET read == [c EXCEPT !.fields = FillIn(EnvFor(@, process))]
      full == WithDefaults(read)
  IN IF NotEmpty(read.fields) /\ ZonesLoad(read) /\ Validate(full) THEN full ELSE None

-----------------------------------------------------------------------------
\* Fault: only what is required of a face.
UsesFacesShown(u) == u.subLabels # {}

UsesFaces(u) == u.subLabels # {} \/ u.excludeSubLabels # {}

\* How long a rule's decision waits for what is known only later.
EffectiveHoldoff(rule) ==
  IF rule.holdoff # None THEN rule.holdoff
  ELSE IF \/ UsesFaces(rule.when) \/ Person \in rule.when.labels
          \/ \E j \in DOMAIN rule.unless : UsesFaces(rule.unless[j])
  THEN DefaultHoldoff ELSE 0

\* The backends sender.New makes a sender for, in a configuration.
Registry(c) ==
  {"hass", "discord"}
    \cup {t \in {"slack"} : c.fields["SLACK_BOT_TOKEN"] # Blank}
    \cup {t \in {"ntfy"} : c.fields["NTFY_URL"] # Blank}
=============================================================================
