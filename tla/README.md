# A verification project for frigate-notifications

The service turns Frigate's review messages into notifications on people's
phones. This directory holds TLA+ models of it, the TLC runs that check them on
small instances, and proofs of the most important results for every instance.
Every definition is translated from the code under `src/`; paths below are
relative to `src/`.

## 1. Inventory

### Parts, state and operations

| Part | Code | State | Operations |
|---|---|---|---|
| Review lifecycle | `internal/notifier/notifier.go` | none of its own; the review's state is in the store | `HandleReview`, `handleGenAI`, `decide`, `sendNew`, `sendUpdate`, `refresh` |
| Holdoffs | same | `pending` map under `pendingMu`, one `time.AfterFunc` timer per entry | `deferDecision`, `noteLatest`, the timer function |
| GenAI descriptions | same | description cache in the store | `HandleTrackedObjectUpdate`, `handleLateDescription` |
| Delivery | same | what the targets show | `fanOut`, `redeliver`, `deliverTo`, `sendOne`, `carryOver` |
| Recipient policy | `internal/notifier/policy.go` | hourly count, digest | `applyPolicy`, `sendDigest` |
| Store | `internal/store` | key families seen, cooldown, review, event, desc, rate, digest, each on a primary and in memory | one method per use; all go through `do` |
| Store backends | `internal/store/backend_*.go`, `internal/db` | a table of keys that expire | `SetNX`, `Get`, `Set`, `Del`, `Incr`, sweeps |
| Rules, windows | `internal/rules`, `internal/config/window.go` | none | `Match`, `Window.Contains` |
| Configuration | `internal/config` | none after start | `Read`, `validate`, `EffectiveHoldoff` |
| Home Assistant cache | `internal/hasscache` | entity and solar entries with ages | `State`, `Solar` |
| Content | `internal/notifier/presets.go`, `internal/media/probe.go` | none | `buildContent`, `mediaCandidates`, `compose`, `Check` |
| Media links and proxy | `internal/media` | a semaphore of 8 streams | `URL`, `Verify`, `serve`, `forward` |
| Senders | `internal/sender`, `internal/lib/hass` | none; refs are kept by the notifier | `Send` per backend |
| Subscriber | `internal/frigate/mqtt.go` | the connection, the ready flag | connect, subscribe, lose, reconnect |
| Process | `cmd/server/main.go`, `internal/lib/httpserver` | the signal context, the listeners | start, SIGTERM, drain, exit |
| Database, audit | `internal/db`, `internal/eventstore` | the pool, the schema, history (write-only) | `Open`, the janitor, `Save*`, `Close` |

### How they interact

Paho calls `HandleReview` and `HandleTrackedObjectUpdate` one message at a time
on its dispatch goroutine; a handler runs to completion, sends included. A rule
with a holdoff ends the handler and arms a timer, and the timer's function runs
`decide` on a goroutine of its own. The two kinds of goroutine share the pending
map (under a mutex) and the store (without one: each operation is atomic, a
handler is not). A send to one target is an HTTP request of at most
`targetTimeout`. The store calls its primary and, on any error, an in-process
map. SIGTERM cancels the context every handler and timer carries; from then on
primary calls and sends fail at once and a firing timer does nothing.

A notification's links are signed when it is built and come back, hours later, as
requests to the media listener, which fetches from Frigate. Readiness is set by
the MQTT client's callbacks, each a goroutine of its own. The audit trail is
written by detached goroutines, and a database that is down at start is set up by
another one; `main` waits for all of them on its way out.

### What is hard about it

* a timer that has fired cannot be stopped: between firing and getting the lock
  the end of its review, or a new holdoff of it, may come in;
* the store's state is read at the start of a decision and written after the
  sends, with another goroutine doing the same in between;
* a store operation may take effect on one backend, the other or both, and the
  caller only sees an answer, so the two drift apart;
* Valkey's client sends a command again when it gets no answer, so a claim may be
  refused to the very caller it was granted to;
* a send may ring a phone and lose its answer; a recipient's targets succeed and
  fail one by one;
* every key expires on its own, during the review too;
* a process may stop or die between any two of these and come back with the
  primary's contents only;
* messages are repeated (QoS 1) and lost (while the service is down); GenAI
  summaries and descriptions come after the review's end or before its push;
* a backend's answer to a post may be lost after the message appeared, the message
  an update names may have been deleted or swiped away, and an app that cannot
  replace a message shows another;
* four backends keep one contract with different clocks, and one of them with
  writes that look first and write later;
* the proxy's slots are held by clients nobody can hurry;
* conditions that cannot be read, exceptions, faces and time windows interact in
  rules nobody has written a test for.

`PROJECT.json` lists each of these at its line under `hazards`, with the
properties aimed at it.

### What makes each part correct

* Lifecycle: one notification follows a review; only an escalation rings again;
  the end and the newest description reach whatever is tracked; the record never
  falls to a lower rule.
* Holdoffs: no entry without a timer; the newest payload decides; every wait ends.
* Delivery: nobody is notified that the rule does not list, nobody is woken who
  does not allow it, an update never creates a notification.
* Cooldowns: a window lets one review ring, and only a push can suppress another.
* Store: failing open costs an extra notification, never a missed one (on Valkey a
  resent claim can miss one: section 3).
* Policy: never over the cap, nothing missing from the digest or in it twice.
* Cache: an answer is at most a TTL and a lookup old; nobody waits for two lookups.
* Backends: each is an atomic table, in which a call takes effect once but for
  Valkey's resent ones; a claim is won only while nobody holds it.
* Rules: what cannot be read, and who else was recognised, never silence a review.
* Configuration: what the service starts on, it can carry out.
* Content: a slow or big piece of media costs no other; what is linked is served.
* Senders: one message per review where the target can replace or edit one; one
  ring; updates are quiet, and take no picture away that they have themselves.
* Proxy: every slot is returned, nobody waits for a free one, everyone is answered.
* Subscriber: ready exactly while connected and subscribed.
* Process: ends on SIGTERM and on a failed listener, and cuts nothing off that had
  time left; a late database still gets its schema.

## 2. Modules

| Module | What it is |
|---|---|
| `FailOpen` | One operation of `store.Store`: where it takes effect (`Reach`), whose answer the caller gets (`Answer`), what a table is afterwards (`Applied`, `Written`), what a restart leaves (`Survives`), whether a command may be sent again (`Resendable`). |
| `Notifier` | The lifecycle, holdoffs, descriptions and delivery, over the store of `FailOpen`. |
| `Audience` | An abstract specification `Notifier` implements: pushes and amendments, and whom they may reach. |
| `NotifierProperties` | What the runs of `Notifier` check. |
| `Policy` | The hourly cap and the digest, over the store of `FailOpen`, with their properties. |
| `HassCache` | `State` and `Solar` of the Home Assistant cache, with a clock, and their properties. |
| `Window`, `Rules`, `Config` | Pure operators: times of day and windows, matching, validation and what it derives. Each extends the one before it. |
| `Content` | Pure operators: media candidates, probes, links, the body. |
| `Decisions` | The properties of those four, and the inputs they are about. |
| `Senders` | One target on one backend and in one app, the sends to it and the ref that is kept, with properties. |
| `KeyValue` | An abstract specification: a table whose keys expire, as the store expects of a backend; in a weaker form, one whose client resends calls. |
| `Backends` | Memory, Valkey, Postgres and MongoDB with the steps each takes; they implement `KeyValue`, Valkey its weaker form. |
| `Proxy` | The media proxy behind its listener, with properties. |
| `Service` | The process: start, listeners, broker, readiness, database, exit, with properties. |
| `MC*` | The small configurations. |
| `NotifierProofs`, `PolicyProofs`, `HassCacheProofs`, `BackendsProofs`, `ServiceProofs`, `SendersProofs`, `ProxyProofs`, `DecisionsProofs` | The theorems about each, with the lemmas they rest on. |

How they fit: `Notifier` and `Policy` use the store through `FailOpen`, whose
primary is one of `Backends`, and `KeyValue` is the contract between the two. A
send is one step with an outcome in `Notifier` and a sequence of calls in
`Senders`. A match is a choice among `MayMatch` in `Notifier` and `Match` in
`Rules`; a link is made in `Content` and served in `Proxy`; the listener `Proxy`
stands behind is one of two in `Service`.

### State and actions of Notifier

`pc[p]` and `job[p]` are a goroutine's place and locals; `Mqtt` is the dispatch
goroutine, `Holds` are the timers, and an armed timer's `job` is its
`pendingDecision`. The pending map is `pending`. The store is one table per key
family. `phone` is what every target shows, per tag, `rings` how often it rang.

| Code | Actions |
|---|---|
| `HandleReview` up to the guard, then its returns | `Receive`, `IgnoreReview`, `HandleGenAI`, `HandlePhase` |
| `noteLatest` | inside `HandlePhase`, `HandlePhaseWhileHeld`, `HandleEndWhileHeld` |
| `deferDecision` and its timer | `DeferDecision`, `TimerFires`, `TimerDecides`, `TimerIsLate` |
| `decide` | `Unmatched`, `MatchNow`, then one action per case of the switch: `NotNotified`, `Escalate`, `RefreshUnderBetterRule`, `SendUpdate`, `AlreadyNotified` |
| `sendNew` | `OpenCooldown`, `SuppressedByCooldown`, `SkipCooldown`, `Render`, `Push`, `ReleaseCooldown`, `NothingDelivered`, `SaveReview`, `IndexEvent` |
| `refresh`, `redeliver` | `Rerender`, `Edit`, `SaveReview`, `IndexEvent` |
| descriptions | `HandleDescription`, `LateDescription` |
| a command Valkey carried out that go-redis sends again | `LoseOwnMessage` (the guard's), `ResendClaim`, `ResendRelease`, `ResendSave` |
| TTLs, SIGTERM, death | `Expire*`, `Shutdown`, `Restart` |

A step is one store operation, one critical section, or one send to one target.
The guard's `SetNX` and `noteLatest` are one step: nothing between them is shared
with another goroutine, and a timer's step before or after both has the same
effect. Matching is a step of its own; which rule matches is free within
`MayMatch`. Reading the old description and writing the new one
are one step, because only the dispatch goroutine touches that key for writing.

Abstractions, and why they lose nothing the properties tell apart:

* a payload is a *content* (what `reviewFingerprint` distinguishes) and a phase;
  contents grow as Frigate learns. `MayMatch[content]` is the set of rules that
  may match, not one, because time, dwell and Home Assistant decide too;
* a key's TTL is an expiry that may come at any time (`Expirable`), bounded by a
  budget; `WindowOutlivesSend` restricts cooldown windows to outlive the send
  that opened them, which holds for any cooldown longer than a send;
* a cooldown's key is the tuple of its scope and names, where the code joins them to
  a string: a rule could be named so that two keys are spelled alike;
* a command that is sent again takes effect on the primary twice with other steps
  in between, as the first answer is lost (`Resends`, for a store on Valkey). Only
  the commands whose second run can differ from the first are modelled so; one
  that fails for good after its effect is `Reach`'s third outcome;
* policy is a verdict: a recipient with any policy may be held back, unless the
  form is critical;
* message refs are the business of `Senders`: here a target shows one
  notification per tag and an edit of a target on record edits it;
* the recipients of a fan-out run concurrently in the code and share nothing, so
  they are one goroutine whose targets are served in any order;
* `Holds` bounds the timers live at once: when none is free the decision waits.
  The number of rules, contents and messages are bounds as well.

Left out of `Notifier`: dry runs; the warning about unconfigured cameras; the
audit trail; a configuration that changes under a live review (rule or target
lists that shrink); two reviews that name the same detection. Configuration is
assumed as validation leaves it: rule names are unique, and a rule names a
recipient once.

### State and actions of Policy

`Notifier` takes a recipient's verdict as given; `Policy` is where one comes
from. Its callers are the goroutines that fan out, several at a time, and the
hour of a verdict is read before the count, as `now` is in `applyPolicy`.

| Code | Actions |
|---|---|
| `applyPolicy` up to the cap | `Ask` |
| `CountForHour` and the verdict | `Count` |
| `AddToDigest` | `ReadDigest`, `WriteDigest` on the primary; `RereadDigest`, `RewriteDigest` on memory, when there is no primary or either call on it failed |
| the window, `ClearDigest`, the summary | `TryWindow`, `ClearDigest`, `Tell` |
| a command go-redis sends again | `ResendCount`, `ResendWrite`, `ResendWindow`, `ResendClear` |
| TTLs, SIGTERM, death, time | `ExpireWindow`, `ExpireDigest`, `Shutdown`, `Restart`, `Tick` |

`AddToDigest` is the one operation whose closure is not a single call, so it is
the one that takes more than a step, and the one where what the first run of the
closure left in `entry` matters to the second. `HourName` gives every hour the
name it has in the rate key: two hours with one name are an hour repeated when
clocks are set back. A rate key does not expire in the model because `Incr`
renews its two hours. The summary goes to several targets in the code and is one
send here; a digest is told if it reached one. `recounted` is how many counts of an
hour were made a second time because Valkey's answer to the first was lost.

### State and actions of HassCache

| Code | Actions |
|---|---|
| `State` up to the lookup, answering from the cache | `State` |
| Home Assistant answers a lookup | `Says` |
| the lookup of `State` ends | `StateArrives`, `StateFails` |
| `Solar` at its mutex, and in it | `AsksSolar`, `EntersSolar` |
| the lookup of `Solar` ends | `SolarArrives`, `SolarFails` |
| time, SIGTERM | `Tick`, `Cancel` |

What an entity or the sun says is the time it was said, so an answer is known by
its age. The clock moves only while every goroutine waits for a lookup or for a
mutex somebody holds: a lookup lasts at most `LookupTimeout` (its context), and
everything else takes no time. A lookup of a canceled caller ends at once. The
three goroutines may call either function at any time. `Notifier` and `Policy`
do not import it: there a rule or a window is free to match or not.

### Window, Rules, Config, Content

These read no state, so they are operators, one per function of the code, and
`Decisions` is a specification whose behaviours pick one input and look at it.

| Code | Operators |
|---|---|
| `ParseEndpoint`, `resolve`, `normalizeDay`, `Window.Contains` | `ParseEndpoint` (of a spelling), `Resolve`, `NormalizeDay`, `Contains` |
| `Match` down to `AccountsForEveryone` | `Match`, `MatchOne`, `SuppressedBy`, `Evaluate`, `InWindow`, `EntityMatches`, `AccountsForEveryone` |
| `envFor`, `Read`, `applyDefaults`, `validate` and its helpers | `EnvFor`, `Read`, `WithDefaults`, `Validate`, `RuleOk`, `UnlessOk`, `LiveViewOk`, `TargetOk`, ... |
| `EffectiveHoldoff`, `sender.New` | `EffectiveHoldoff`, `Registry` |
| `mediaCandidates`, `check`, `Prober.Check`, `buildContent` | `MediaCandidates`, `Allowed`, `Probe`, `Checks`, `BuildContent` |
| `ClipID`, `accepts`, `URL`, `Verify`, the player page | `ClipId`, `Accepts`, `Link`, `Verify`, `PlayerLinks` |
| `GenAI`, `compose` | `GenAI`, `Compose` |

A time of day counts units of which an hour has `Minutes` (60 in the code); a name
stands for its case-folded spelling; a value the code goes on to parse is blank,
good or bad; a signature is membership in the set of links that were signed; the
body of a notification is the set of its parts. Go's remainder is modelled with
its sign (`Remainder`), because what happens before midnight hangs on it. `now` is
the time of day in each time zone, and a rule's window is compared in the rule's
own; the sun's times are in the configured one. `Faces` and `Entities` are the
names a review or Home Assistant may come up with; the proofs need of `Inputs`
only the shape of what the program is given (`InputAssumption`).

### State and actions of Senders

One target and everything sent to it. `target` is its backend, the app that shows
its notifications ("ios" stands for an ntfy server below 2.16 as well) and whether
it is told of reviews or of digests. `board` is what it shows by message id,
`record` the delivery in the review's state, `sends[s]` a goroutine's send. Whether
a message has a picture is chosen as it is built, since `buildContent` decides that
by the preset and by what Frigate has.

| Code | Actions |
|---|---|
| `fanOut`, `redeliver` up to the send | `Begin` |
| an HTTP call of `Send` that takes effect; whose answer is lost; that does not take effect | `Call`, `CallUnanswered`, `CallFails` |
| the target's time ends while a send waits to retry | `GiveUp` |
| what the notifier keeps of the result | `Return` |
| the user deletes or dismisses a message | `Delete` |

`Tagged` targets show one notification per tag; ntfy's iOS app shows every message
as a notification of its own. `Silent` says which messages make no sound: edits,
digests but on Slack, passive updates, and on Home Assistant's Android app whatever
replaces a notification that is showing (`AlertsOnce`), but not one that was
dismissed. What a send does with an answer is `TagAnswered` (Home Assistant and
ntfy), `SlackAnswered` and `DiscordAnswered`. A retry of a
rate-limited call only happens if the wait is short, and otherwise fails: a 429
with a long wait is "refused". The notifier's tag is the same for all messages of
the review; an escalation, which starts a new one, is `Notifier`'s.

Left out: dry runs, refs that are malformed or of another backend, `Verify`
(which only logs), and how long each wait is.

### State and actions of Backends and KeyValue

`rows` are the entries with the instant each expires. A call of memory, Valkey (a
command or one transaction) and Postgres (a statement) is one step, `AtOnce`; it
judges expiry by the instant of the lock, of the command, or, on Postgres, of any
instant since the statement began, because `now()` is that of its start. An upsert
of MongoDB is `Look`, then `Update` or `Insert`: the server looks for a document,
and another caller's write may come between; `Collided` is what each operation
makes of a duplicate key. `Resend` is a command Valkey carried out whose answer
did not come: go-redis retries any command after a timeout or a broken connection,
`MaxRetries` times, which `newRedisBackend` leaves at 3. MongoDB's driver numbers
its retried writes, so the server applies them once, and pgx retries none. `Fail`
is a timeout or a refusal. `Sweep` is the janitor's, `Reap` MongoDB's TTL monitor
and Valkey's own.

`KeyValue` promises less about the instant of expiry than any of them needs: a
call takes effect at some instant between its start and its end, and at the
very instant a key expires it may be seen or not; memory and Valkey differ there.
It takes effect once, unless `resends`: then it may have done so before the time it
is answered for (`PerformUnanswered`), which weakens what a refused claim or a count
says, and leaves what a won claim says. The refinement mapping is `table <- rows`,
a call as its caller knows it, and `resends <- backend = "redis"`.

Left out: a call that takes effect after its timeout was reported (`Fail` takes
none; an error after the effect is `AtOnce` with the answer `Error`); memory
forgetting everything on a restart, which is `Survives` in `FailOpen`.

### State and actions of Proxy

| Code | Actions |
|---|---|
| `serve`, `Verify`, the player page, and `forward` up to the slot | `Arrive` |
| the wait for a slot ends | `TurnAway`, `Leave`, or another request's `Release` |
| `fetch` fails or answers | `FetchFails`, `Respond` |
| `io.Copy` ends, or the client hangs up | `StreamEnds`, `Leave` |
| `RunGraceful` | `Stop`, `Close` |

The slots are a buffered channel and `queue` its blocked senders, so a slot given
back goes to the head of the queue in the same step (`Release`).
The clock stops at a timeout that is due, so what has a timeout ends by then.
Methods, headers and ranges are left out; a request the code refuses for its form
is the ask "other".

### State and actions of Service

`main` is a place in `main()` and the exit code; `servers` the two listeners;
`session` the broker connection; `callbacks` the client's goroutines; `janitor`
the background setup and sweep.

| Code | Actions |
|---|---|
| `main` in its order | `ReadConfig`, `OpenDatabase`, `Listen`, `Connected` or `NotConnected`, `Served`, `CloseSubscriber`, `CloseDatabase` |
| `RunGraceful`, per listener | `ListenFails`, `Request`, `RequestEnds`, `Shutdown`, `ServerReturns` |
| the MQTT client and its callbacks | `Connect`, `Disconnect`, `Subscribe`, `SubscribeFails`, `CallbackEnds` |
| messages and audit writes | `Dispatch`, `WriteEnds` |
| `retryUntil`, `ensureSchema`, the janitors | `SetUp`, `JanitorEnds` |
| SIGTERM, the database | `Terminate`, `DatabaseUp` |

`log.Fatal` is `Exit(1)`, which runs no deferred call. Left out: telemetry, the
store's own `Close`, how long the backoff waits, what the handlers do with a
message, and a database URL no driver takes, which the service runs without like
one that is not set.

## 3. Runs

### Notifier

`tlc -config notifier_<run>.cfg MCNotifier.tla`. Two recipients with a target
each, alice allowing critical and bob with a policy, and two or three rules:
enough for an escalation to reach one and skip the other, for a better rule that
only refines, and for two reviews to meet in one cooldown window. Two contents
are the payload before and after Frigate learns something. `CHECK_DEADLOCK` is
off in every run because bounded numbers of messages, pushes or ticks end every
behaviour.

| Run | Configuration | Question and result |
|---|---|---|
| `holdoffs` | 1 review, 2 timers, 4 messages, fairness | `HoldsAreTracked`, `HoldKeepsNewest`, `HeldIsDecided` hold: with two timers the second can take the slot of one that fired and waits for the lock. |
| `failures` | 1 review with an object, critical over quiet, a description, a store on Valkey, 2 messages, 1 failure or resend of the primary, 1 send fault, 1 expiry of any key, 1 restart | `TypeOK`, `RecordIsShown`, `AudienceSpec`: every order of those against two phases of a review, the second of which may escalate, and a description. The theorems say the same for timers and any bound. |
| `in_order` | 2 reviews, quiet rules, 4 messages, a description | `NothingLeftStale`, `DescriptionIsShown`, `SuppressedOnlyByAPush` hold when there is no holdoff, no escalation, no failure, and some rule always matches. |
| `escalation` | two critical rules over a quiet one, a second review of an unconfigured camera, a description, 1 expiry of it or of its index | `RingsAreAccountedFor`, `NeverDemoted` hold without holdoffs. |
| `cooldown` | 2 reviews, 1 timer, global cooldowns, 1 send fault, 1 expiry | `OneReviewPerWindow`. |

### Policy

| Run | Configuration | Question and result |
|---|---|---|
| `policy` (`policy.cfg`) | 2 callers, alice with a cap of 2 and bob without, a store on Valkey, 5 pushes, 2 hours, 1 failure or resend of the primary, 1 send fault, 1 restart, 1 expiry each of a window and an entry | `HeldOnlyPastTheCap`, `CapHolds`, `DigestsAreSpaced`, and `UndisturbedHeldIsTold` of the behaviours in which nothing fails and callers take turns. Five pushes on a cap of two make one digest of one event and, an interval later, one of two. |

### HassCache

| Run | Configuration | Question and result |
|---|---|---|
| `hasscache` (`hasscache.cfg`) | 3 interchangeable callers, 1 entity, 7 ticks; timeout 1, failure memory 2, TTLs 3 and 4, in the order the code has them | `StateIsRecent`, `WaitIsBounded`, `SolarAnswersItsBest`. Seven ticks let solar times age past their TTL and a lookup, an outage begin and a failure be forgotten. |

`State` drops its mutex for the lookup, so a slow answer may replace a newer one
and is served for a whole TTL: `StateIsRecent` is the bound that remains, a lookup
more than the TTL.

### The other runs

| Run | Configuration | Question and result |
|---|---|---|
| `decisions` (`MCDecisions`) | 2 cameras, a face and a stranger, an entity; every pair of one-condition rules with up to two exceptions over a catch-all, in the configured zone and one of its own; every spelling at its boundaries on a 48-unit day; all answers to three probes | `FailingOpenNeverSilences`, `StrangersNeverSilence`, `FacesAreWaitedFor`, `WhatStartsCanSend`, `WindowIsAnArc`, `WhatIsThereIsShown`, `LinksAreServed`. Rules meet each of 144 reviews; windows are checked at every time of day; offsets reach more than two days back. |
| `senders` (`MCSenders`) | every backend, app and stage, each message with a picture or without; 2 goroutines, 3 messages, 4 ids, 1 lost answer, 1 deletion | `OneMessage`, `RingsOnce`, `PictureStays`, `UpdatesAreQuiet`, `SendsEnd`. Three messages are a first send, an update that re-posts and one that edits the fresh message; four ids leave room for the one whose answer is lost. |
| `backends` (`MCBackends`) | each backend, 2 callers, a claimed key and a counter, TTL 2, calls of at most 1, 1 resend, 3 ticks | `Implements` (`KV!Spec`) and `WonOnlyIfFree`: keys are set, expire, are swept or reaped and set again while the other call is under way. The second resend of a call does nothing the first does not; the theorem has any number. |
| `proxy` (`MCProxy`) | 3 requests for 1 slot, links that expire at 1 or 4, waits of 1, shutdown at 0 or 1 | `SlotsAreKept`, `KeptNoLonger`, `NobodyWaitsForEver`. Three are enough for one that streams, one that waits and one that is turned away or takes over. |
| `service` (`MCService`) | every configuration, 2 connections, 2 topics, 1 request, 1 audit write | `ReadyMirrorsBroker`, `CleanExitCutsNothing`, `EndsWhenItShould`, `SchemaComes`. The second connection is the one whose callback may run beside the first one's. |

### Fairness

`holdoffs` assumes weak fairness of every goroutine's steps, since each call it
makes has a timeout, and of every timer's firing, since a Go timer that is not
stopped fires. Nothing is assumed of messages, failures or expiry.

`senders` assumes it of each goroutine's send: a call ends within its client's
timeout, and the whole within the target's. `proxy` assumes that time passes, that
a request's own timer fires, that Frigate answers or times out, and that Shutdown's
deadline comes; of clients it assumes nothing, since the listener has no write
timeout. `service` assumes that `main`, the listeners, audit writes and the janitor
go on, and that a schema tried again and again on a database that answers succeeds;
it assumes nothing of the broker, of clients, or that the database ever answers.
The other runs assume none.

### Also seen

Behaviours of the code that the models have. First the disagreements with what its
comments and docs say; where a property and a run are named, the run shows it with
the constants given.

* An escalation on the end message pushes the critical form to those it can wake,
  carries the others' notifications over and does not edit them (`notifier.go:440`);
  no later phase comes, so they never get the end, though `carryOver` says the end
  "still updates it instead of leaving it stale". `NothingLeftStale`, in `in_order`
  with one review, `MCPlainRules` and 2 messages.
* An end dispatched while the review's timer sends finds no state and is suppressed
  by the window that very send opened (`notifier.go:416`); `store.go:204` has
  cooldowns gate "first sends only, never end-phase updates".
  `SuppressedOnlyByAPush`, in `holdoffs` with `MCAlwaysMatch` and one timer.
* A timer that decided on a quiet rule saves its state after an update saved a
  critical one (`notifier.go:446`), and the record is demoted; the docs say a match
  "never demotes a critical alert". `NeverDemoted`, in the same with 3 messages.
* A window released while the primary errs stays set there (`notifier.go:436`) and
  suppresses the next review although nobody was rung. `SuppressedOnlyByAPush`, in
  `failures` with 2 reviews, `MCAlwaysMatch`, 3 messages and 2 send faults.
* Valkey's resent claim is refused to the caller who won it (`backend_redis.go:25`
  sets timeouts and no `MaxRetries`), though `store.go:9` has no operation "ever
  suppress because of an infrastructure error" and a failure "at worst costs an
  extra notification". A message is dropped as a redelivery of itself
  (`HoldKeepsNewest`, in `holdoffs` with `Resends` and one fault), a review is
  suppressed by the window it opened itself and never rings
  (`SuppressedOnlyByAPush`, in `in_order` with the same), and a digest whose
  interval was claimed is not sent. A resent count is counted twice: a recipient
  is held back one push early, which `HeldOnlyPastTheCap` allows by exactly as
  much.
* ntfy's retry is said to be safe because "a sequence_id makes it idempotent"
  (`ntfy.go:148`). On iOS and servers below 2.16 nothing is replaced (`ntfy.go:14`,
  `docs/notifications.md:64`): a retry after a lost answer, like every update, is
  another notification. `OneMessage` therefore promises one per review only where
  messages are replaced or edited, and everywhere one per message and lost answer.
* "Updates are quiet on every backend" (`docs/notifications.md:167`), yet an update
  to a notification that was swiped away alerts again on Home Assistant's Android
  app (`docs/troubleshooting.md:43`), as the fresh post for a message that was
  deleted does on Slack and Discord (`slack.go:203`, `discord.go:203`).
  `UpdatesAreQuiet` allows exactly these.
* A rule's own `timezone` governs its `hours` (`docs/configuration.md:65`), but the
  sun's times are hours of the configured zone's day (`hasscache.go:170`): such a
  rule compares the clock of one zone with the sun by the other's
  (`rules.go:176`), and `dusk` comes early or late by the difference.
* Two goroutines that add to one digest entry lose an event (`store.go:291`).
  `HeldIsTold`, in `policy` with a cap of one.
* The fingerprint comment (`notifier.go:751`) says two messages with one fingerprint
  match alike; how long the object stayed, the time and Home Assistant's answers
  are not in it, so a repeat that a dwell rule would now match is dropped.
* The proxy tells clients they may keep a file for the time left when the link was
  verified, before the wait for a slot (`proxy.go:174`), though `Verify` promises
  "exactly that long": `KeptNoLonger` is the bound that holds.
* SIGTERM before the broker's first connection ends in `log.Fatal` (`main.go:157`):
  nothing drains, though `main` says the process "must wait for all of them".

Further behaviours, which nothing in the repository denies:

* An end no rule matches returns early (`notifier.go:308`), and the notification
  never gets its end; `in_order` therefore has a rule that always matches.
* In the hour that is repeated when clocks are set back the count goes on from the
  hour before (`store.go:276`): the assumption `NoRepeatedHour` of a theorem.
* When only the final write of `AddToDigest` fails on the primary, the retry on
  memory counts the event again (`store.go:303`), and the digest tells of two.
* Events held back after a digest went out are told of only if another one is held
  back after the interval (`policy.go:95`).
* An update takes the picture away that a message shows, on every backend, when the
  better rule's preset is text or no still passed its probe this time
  (`presets.go:118`). Slack keeps a picture only against its own refusal (`call` in
  `slack.go`), and `PictureStays` says just that.
* A retry after a lost answer rings again on Slack and Discord, two overlapping
  sends of one review may post twice, and once Slack has dropped a picture from a
  post, every edit of that message carries it again and may be refused for it.
* A window may expire during the send it was opened for, if its cooldown is shorter
  than the send, and two reviews ring in one window: `WindowOutlivesSend`.
* What cannot be read may let a rule further up match, and that one may have other
  recipients: `FailingOpenNeverSilences` says that a rule matches, not whom it
  tells.
* MongoDB's `Set` has no retry on a collision: the call errs and the store falls
  back to memory. `KeyValue` allows it, as it allows any error.
* Callbacks that overlap may leave readiness wrong until the next event
  (`mqtt.go:69`). A failed subscription leaves the service connected, not ready, and
  is not tried again until the next connection.
* A listener that fails before the broker's first connection is not noticed until
  the broker connects (`main.go:157`).

## 4. Proofs

`tlapm` proves these for every set of goroutines, requests, reviews and names,
every configuration and every bound; what a theorem needs beyond that is said
with it. The lemmas about the operators of `FailOpen` stand in the two modules
that use them.

### Notifier

Without further assumptions, but for the one that is named:

* `TypeCorrect`: `Spec => []TypeOK`. `TypeOK` is not inductive: an action that
  takes a goroutine on from `edit` relies on `job.prior` being there. The
  invariant is `TypeOK /\ Locals`, where `Locals` says which locals each place of
  `pc` has.
* `HoldsTracked`: `Spec => []HoldsAreTracked`. It is inductive once a pending entry
  is known to belong to one timer and a timer's review cannot change while it is
  armed, both of which its second conjunct gives.
* `HeldIsNewest`, if the store is not on Valkey or no command fails (`~Resends \/
  MaxFaults = 0`): `Spec => []HoldKeepsNewest`. The invariant `Newest` adds that
  the dispatch goroutine carries the newest message of its review to the point
  where it decides or arms the timer, and that what the guard remembers is never
  ahead of it: a message the guard drops would have told the holdoff nothing new.
  A message dropped as a redelivery of itself (section 3) is the one that would
  have.
* `RecordShown` and `AudienceKept` (of `SendsKeepToTheirAudience`, which the
  refinement below rests on and no run checks by itself): the record and every
  goroutine's copy of it only name notifications that are on the targets, and each
  send keeps to its audience. Neither is inductive alone: what is saved is what a
  send confirmed, and what an escalation carries over is what was loaded. They are
  proved together as `Stored /\ Jobs`. The argument is that `phone` only grows: no
  step takes a notification away, so it does not matter which stale copy of the
  state a goroutine holds, nor which backend it came from.
* `NotifierImplementsAudience`: `Spec => AudienceSpec`. Under
  `TypeOK /\ Stored /\ Jobs` a `Push` is a `Notify`, an `Edit` is an `Amend`, and
  any other step leaves `phone` and `rings` alone. The refinement mapping is the
  identity.

In some configurations only. Each hypothesis is one without which the property is
false of the code (section 3, "Also seen") or promised by nothing, and the runs
named satisfy all of them:

| Theorem | Of | Hypotheses | Run |
|---|---|---|---|
| `OneReviewRings` | `OneReviewPerWindow` | no fault of the primary, no stop, `WindowOutlivesSend` | `cooldown` |
| `NothingDemoted` | `NeverDemoted` | no holdoffs, no fault of the primary | `escalation` |
| `SuppressedByAPush` | `SuppressedOnlyByAPush` | no holdoffs, no fault, no stop, records do not expire | `in_order` |
| `RingsOnRecord` | `RingsAreAccountedFor` | the same, a primary, no failed send | `escalation` |
| `NobodyLeftStale` | `NothingLeftStale` | no holdoffs, no critical rule, a rule always matches, a primary, no fault, no failed send, no stop | `in_order` |
| `NewestDescriptionShown` | `DescriptionIsShown` | the same, descriptions and the index do not expire | `in_order` |

Whatever is not named is free: timers in the first; expiry of windows, guards and
texts in all but the last; failed sends and, for `NothingDemoted`, stops.

* With no fault one backend answers every operation (`Serving`; `Main` if there is
  no stop either), which `Faultless` and `Undisturbed` say. Both are invariants,
  because budgets are only spent.
* `OneReviewRings`: `Windows` counts the reviews that have rung, or are about to,
  against what was spent on expiries and failed sends. Whose push the window stands
  for is a goroutine between `OpenCooldown` and its save, and there is one of them
  at a time (`OneWindow`), although timers run beside the dispatcher. A window that
  expired under the send it covers would let a second one in, hence
  `WindowOutlivesSend`.
* Without holdoffs the dispatch goroutine is the only one (`Alone`). `AloneStep`
  lists the steps it has left, and the proofs below go through these.
* `NothingDemoted`: by `Turn`, what the goroutine loaded is what is on record, so a
  save cannot put an older decision above a newer one; a stop moves the whole of
  the service from one backend to the other, and memory holds no record before
  that.
* `SuppressedByAPush`: by `Openings` a window that is open was opened for a review
  that is on record and rang someone, or for the one in hand. A send nobody
  confirmed gives its window back.
* `RingsOnRecord`: by `Tallied` a target rings once for each form of the record
  that lists it and once more for the send in hand. An escalation puts whoever it
  skips back on the record.
* `NobodyLeftStale` and `NewestDescriptionShown`, from one invariant: `Final` says
  that between messages the record agrees with the newest message (`Settled`) and
  the index finds it (`Filed`), and how far each place of `pc` is from there
  (`Progress`).

### Policy

* `PolicyTypeCorrect`: `Spec => []TypeOK`, which is inductive.
* `HeldPastTheCap`: `Spec => []HeldOnlyPastTheCap` if no two hours share a name
  (`NoRepeatedHour`; the hour repeated when clocks are set back is why it is
  needed). The property says nothing of the store, so the invariant adds
  `CountsAsked`: no backend has counted more of an hour than was asked, because an
  operation takes effect at most once on each, but for those sent again, which
  `recounted` counts (`CountsAsked`). A failure, a lost answer or a restart only
  loses counts.
* `CapKept`: `Spec => []CapHolds`, with `AllowedIsCounted`: while no call has
  fallen back, the primary has counted every push let through. It needs no
  assumption on the names of hours: a shared name only makes the cap stricter.
* `DigestsSpaced`: `Spec => []DigestsAreSpaced`. A digest told, a goroutine that
  has taken the window and not told yet, and a window free to take are paid for by
  the one interval there is at the start, and by the expiries and restarts since
  (`SpacedInv`): that any number of goroutines race for one window changes
  nothing, and neither does a window refused to the one who took it: that digest
  is only not sent.
* `HeldTold`: `Spec => UndisturbedHeldIsTold`. Told and waiting events together are
  the ones held back for a key nobody is at, and where the one goroutine that is at
  work has got to says by how much they differ meanwhile (`TurnInv`). The property
  itself is about behaviours in which nothing fails or expires and goroutines take
  turns past the cap; `HeldIsTold` without that is false.

### Home Assistant cache

* `CacheTypeCorrect`: `Spec => []TypeOK`, with what a goroutine waits for: only one
  that asked Solar is in its queue.
* `StateRecent`: `Spec => []StateIsRecent`, by what the cache and a lookup in flight
  hold: a value is at most one lookup older than its entry.
* `WaitBounded`: `Spec => []WaitIsBounded`. The invariant `Orderly` says why a queue
  of any length waits for one lookup: whoever queues came no earlier than the lookup
  ahead began, or at this very moment, or a lookup has just ended and left times or
  a failure for everyone behind it.
* `SolarAnswersBest`: `Spec => SolarAnswersItsBest`, from the same invariants and
  that the times in hand are no more than a lookup older than their fetch.

### Backends

* `BackendsImplementKeyValue`: `Spec => KV!Spec`. The invariant is the types of
  rows and calls and that a caller at MongoDB's second step has an upsert under
  way that began no more than `CallTime` ago; with `CallTime <= TTL` a document it
  found expired cannot have come back to life unseen. Every step of every backend
  is a step of `KeyValue` or none: `AtOnce`, `Update` and `Insert` are `Perform`,
  a collision is a `Perform` of a claim that is held, `Look` is a stutter.
  `Resend` is a `PerformUnanswered`, so that Valkey implements the weaker form,
  with any number of resends, and the other three the one in which a call takes
  effect once.
* `ClaimsWonOnlyIfFree`: from the same invariant. A resent claim may lose what it
  won; it never wins what another holds.

### Service

* `ServiceTypeCorrect`, `ReadyIsTrue`, `CleanExit`. Readiness is about callbacks
  that did not overlap, so the invariant says what the only one that runs will
  report and what is subscribed when it does; a clean exit needs that `main` is
  past the listeners only once every one of them has returned, and that none that
  has returned holds a request.

### Senders

* `PictureKept`: whatever pictures the messages have, a send that edits has not
  given its own up (only a refused post does), so what an edit or a replacement
  takes away it never had.
* `UpdatesQuiet`: an update that posts had its message gone, and what is gone stays
  gone until it is replaced; an update by tag sounds with Android's `alert_once`
  alone, and then only while nothing is showing.
* `RingsCounted`: while sends do not overlap, rings, plus one if the message on
  record is missing, are at most one for a recorded delivery plus answers lost and
  messages deleted. `RingsOnce` alone is not inductive: that an update has rung says
  nothing unless a message is known to have gone for it.
* `OneMessagePerReview`: where messages are replaced or edited, what is on the
  target beside the message a send in progress would edit, or the recorded one
  between sends, is no more than answers lost (`StrayInv`); where the backend
  replaces by tag there is one id and nothing beside it. On every target, and
  however sends overlap, a message is on it once and once more for each answer
  lost to it.

### Proxy

* `SlotsKept`: `Spec => []SlotsAreKept`. The invariant `InLine` adds that nobody
  stands in line twice; without it a slot that is handed to the head of the line
  could go to somebody who holds one.
* `KeptInTime`: `Spec => []KeptNoLonger`. `OnTime` follows the time a link had left
  through the two waits: it was right when the link was verified, and is off by what
  has passed since, at most `SlotWait` and `HeaderTimeout`.

### Window, Rules, Config, Content

`Decisions` takes an input and stops, so its invariants say something of every
input, and the proofs are about the operators. They are for every configuration
with any number of rules, recipients and exceptions, any clock, any review and any
answers of Frigate and Home Assistant that have the shape of `InputAssumption`.

* `FailingOpen` and `StrangersAreHeard`: a rule that matched still matches when a
  condition or the sun cannot be read, or a stranger is added, so the first that
  matches (the least of the set, by well-founded induction from the library) is no
  later. For that the configuration must have passed `Validate`: it refuses the
  windows that cannot be parsed and the exclusions of faces that would silence.
* `FacesAwaited`: what `EffectiveHoldoff` does not wait for evaluates to the same
  without the faces.
* `StartsAbleToSend`: what validation let through has its senders and streams after
  the defaults are filled in.
* `WindowsAreArcs`: `Contains` on ends that were moved by an offset and brought back
  into the day is the arc from the one to the other, by the arithmetic of Go's
  remainder.
* `LinksServed`: every id `buildContent` makes of a review is one `Accepts` takes,
  and its clip begins before and ends after the review.
* `WhatExistsIsShown`: needs `BudgetAssumption`, that the limits of a clip and two
  stills fit the budget, as `mediaProbeBudget`'s comment says; then a clip that
  takes all of its own limit leaves each still its own.

### What stays with TLC

The assumptions are `ConfigAssumption`, `ModelAssumption`, `HasPrimaryAssumption`,
`ResendsAssumption`, `PolicyAssumption`, `CacheAssumption`, `BackendsAssumption`,
`ServiceAssumption`, `SendersAssumption`, `ProxyAssumption`, `MinutesAssumption`,
`DefaultHoldoffAssumption`, `ProbeAssumption`, `BudgetAssumption`, `ClipAssumption`
and `InputAssumption`, which TLC evaluates in the runs of their modules. The type
invariants of `Policy`, `HassCache` and `Service` are proved and left out of the
runs.

Every invariant and every action property a run checks is stated by a theorem.
Only model-checked is what is liveness, out of the prover's reach: `HeldIsDecided`,
`SendsEnd`, `NobodyWaitsForEver`, `EndsWhenItShould`, `SchemaComes`. And what the
hypotheses of the table above leave out is not proved because it is not so: with
holdoffs, a timer's goroutine and the dispatcher may decide on one review at once
and each save what it had.

## 5. Plan

Done: every part of the service that keeps state, with its abstract specifications,
and every decision that reads none. What is left, in order of value:

1. `Notifier` over `Senders`: a delivery's ref beside its target and tag, so that
escalation and repost meet. 2. What settles a policy verdict before the cap, with
`Contains` for the active hours. 3. Proofs with timers of what is proved without
them: what `NeverDemoted`, `SuppressedOnlyByAPush` and `RingsAreAccountedFor`
still say when a holdoff's goroutine and the dispatcher never work on one review
at a time. 4. The leads-to arguments of `HeldIsDecided` and `EndsWhenItShould` as
safety: the measure that falls at each step of a goroutine.

## 6. Not modelled

Metrics, logs and telemetry (no decision reads them); the audit history's rows and
queries (write-only I/O; that the writes happen and are waited for is in `Service`);
wording, truncation and layout of notifications and of each backend's payload; HMAC,
HTTP ranges and streaming (library behaviour); `Verify` of the senders, which only
logs; dry runs; the command-line tools (`events`, `replay`, `notify-test`,
`schema-gen`), each one pass over its input with no state; the chart and the Compose
files.
