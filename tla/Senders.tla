------------------------------- MODULE Senders -------------------------------
(***************************************************************************)
(* One target on one backend and the sends to it (sender/*.go, with what   *)
(* notifier.redeliver and fanOut keep of their results).  Home Assistant   *)
(* and ntfy replace a notification by its tag, where the app can; Slack    *)
(* and Discord edit the message whose ref the notifier kept, and post a    *)
(* fresh one when it is gone.  A send is a sequence of HTTP calls; a       *)
(* call's effect and its answer are one step, and the answer may be lost.  *)
(*                                                                         *)
(* The target is chosen at the start: its backend, the app that shows its  *)
(* notifications (for ntfy, "ios" stands for a server too old to replace   *)
(* one too), and whether it is told of reviews or of digests.  Whether a   *)
(* message has a picture is chosen as it is made.                          *)
(***************************************************************************)
EXTENDS Integers, FiniteSets

CONSTANTS Senders,       \* goroutines that send
          MaxVersions,   \* bound: messages sent to the target
          MaxPosts,      \* bound: messages on it
          MaxLost,       \* bound: answers lost
          MaxDeleted     \* bound: messages the user deletes

ASSUME SendersAssumption ==
  /\ MaxVersions \in Nat /\ MaxPosts \in Nat \ {0}
  /\ MaxLost \in Nat /\ MaxDeleted \in Nat

VARIABLES
  target,   \* the backend and what it is sent
  board,    \* the messages on the target, by id
  record,   \* the delivery the review's state lists: whether there is one, and its ref
  sends,    \* the send of each goroutine
  version,  \* the newest message made
  tally     \* answers lost, messages deleted, rings, and whether two sends ever overlapped
vars == <<target, board, record, sends, version, tally>>

Ids == 1..MaxPosts
NoRef == 0
ByTag == {"hass", "ntfy"}
ByRef == {"slack", "discord"}

\* The app matters where messages go by tag.
Targets ==
  {t \in [backend : ByTag \cup ByRef, app : {"android", "ios"}, stage : {"review", "digest"}] :
     t.backend \in ByRef => t.app = "android"}

\* One notification per tag, but for ntfy on iOS; and one that a later send with
\* the tag replaces in silence, but sounds again once dismissed: Android's
\* alert_once.
Tagged == target.backend \in ByTag /\ (target.backend = "ntfy" => target.app = "android")
AlertsOnce == target.backend = "hass" /\ target.app = "android"

\* What a message id stands for: no message yet, one that was deleted, or one
\* that shows a version with or without its picture.
Unused == [version |-> 0, picture |-> FALSE, there |-> FALSE]
Deleted(m) == [m EXCEPT !.there = FALSE]
Live(id) == board[id].there

\* The send of a goroutine: the version, its image, whether it is an update, the
\* ref it was given, the call it makes next and what it has tried.
Idle == [at |-> "idle", version |-> 0, image |-> FALSE, update |-> FALSE, prev |-> NoRef,
         method |-> "post", rateRetried |-> FALSE, imageDropped |-> FALSE, attempt |-> 1, ok |-> FALSE, ref |-> NoRef]

-----------------------------------------------------------------------------
\* Fault: an update is as loud as a first send.
SilentIfDigest(j) ==
  \/ target.backend # "slack" /\ target.stage = "digest"
  \/ j.method = "edit"
  \/ AlertsOnce /\ Live(1)

\* What makes no sound: a digest but on Slack, an edit, and on a phone an
\* update, or, with alert_once, whatever replaces what is showing.
Silent(j) ==
  \/ target.backend # "slack" /\ target.stage = "digest"
  \/ j.method = "edit"
  \/ target.backend \in ByTag /\ j.update /\ ~AlertsOnce
  \/ AlertsOnce /\ Live(1)

\* A message with its picture, unless Slack refused it with one.
Shows(j) == [version |-> j.version, picture |-> j.image /\ ~j.imageDropped, there |-> TRUE]

\* The id a call writes to: a tag's only one, the message it edits, a new one.
Fresh(id) == board[id] = Unused /\ \A i \in 1..id-1 : board[i] # Unused
WritesTo(j, id) ==
  \/ Tagged /\ id = 1
  \/ ~Tagged /\ j.method = "edit" /\ id = j.prev /\ Live(id)
  \/ ~Tagged /\ j.method = "post" /\ Fresh(id)

\* A call takes effect.
Apply(j, id) ==
  /\ WritesTo(j, id)
  /\ board' = [board EXCEPT ![id] = Shows(j)]

Rings(j) == IF Silent(j) THEN 0 ELSE 1

\* How often a tag backend is tried, and for what: resty retries what got no
\* answer, ntfy.Send a 429 and a 5xx too.
Attempts == IF target.backend = "hass" THEN 4 ELSE 3
Retryable == IF target.backend = "hass" THEN {"none"} ELSE {"none", "limited", "failed"}

\* Fault: a send that has failed starts over.
FailedStartsOver(j) == [j EXCEPT !.attempt = 1, !.rateRetried = FALSE]

\* The send after an answer to its call.  "none" is no answer, "limited" a 429
\* whose wait is short, "badImage" Slack's invalid_blocks, "gone" the answer to
\* an edit of a message that is not there, "failed" a 5xx and "refused" any
\* other.
Failed(j) == [j EXCEPT !.at = "back"]

\* Fault: an update keeps the ref it was given.
SucceededAsBefore(j, id) ==
  [j EXCEPT !.at = "back", !.ok = TRUE,
            !.ref = IF target.backend \in ByTag THEN NoRef ELSE IF j.update THEN j.prev ELSE id]

Succeeded(j, id) ==
  [j EXCEPT !.at = "back", !.ok = TRUE, !.ref = IF target.backend \in ByTag THEN NoRef ELSE id]
\* A fresh post in place of the edit, with retries of its own.
PostsInstead(j) == [j EXCEPT !.method = "post", !.rateRetried = FALSE]

TagAnswered(j, answer) ==
  IF answer \in Retryable /\ j.attempt < Attempts
  THEN [j EXCEPT !.attempt = @ + 1] ELSE Failed(j)

\* Fault: an edit drops the picture too.
SlackAnsweredWithoutPicture(j, answer) ==
  CASE answer = "badImage" /\ ~j.imageDropped -> [j EXCEPT !.imageDropped = TRUE]
    [] answer = "gone" -> PostsInstead(j)
    [] OTHER -> Failed(j)

SlackAnswered(j, answer) ==
  CASE answer = "limited" /\ ~j.rateRetried -> [j EXCEPT !.rateRetried = TRUE]
    [] answer = "badImage" /\ ~j.imageDropped /\ j.method = "post" ->
         [j EXCEPT !.imageDropped = TRUE]
    [] answer = "gone" -> PostsInstead(j)
    [] OTHER -> Failed(j)

DiscordAnswered(j, answer) ==
  CASE answer = "limited" /\ ~j.rateRetried -> [j EXCEPT !.rateRetried = TRUE]
    [] answer = "gone" -> PostsInstead(j)
    [] OTHER -> Failed(j)

Answered(j, answer) ==
  CASE target.backend \in ByTag -> TagAnswered(j, answer)
    [] target.backend = "slack" -> SlackAnswered(j, answer)
    [] target.backend = "discord" -> DiscordAnswered(j, answer)

\* The answers a call may get without taking effect.
Answers(j) ==
  {"none", "limited", "failed", "refused"}
    \cup {a \in {"badImage"} : target.backend = "slack" /\ Shows(j).picture}
    \cup {a \in {"gone"} : target.backend \in ByRef /\ j.method = "edit" /\ ~Live(j.prev)}

-----------------------------------------------------------------------------
\* fanOut and redeliver: a message, with a picture if a still could be had for it
\* (buildContent), goes out as an update where a delivery is recorded, and a
\* digest always as a message of its own.
Begin(s) ==
  /\ sends[s].at = "idle" /\ version < MaxVersions
  /\ version' = version + 1
  /\ LET update == record.delivered /\ target.stage = "review"
         prev == IF update THEN record.ref ELSE NoRef
     IN \E image \in BOOLEAN : sends' = [sends EXCEPT ![s] =
          [Idle EXCEPT !.at = "call", !.version = version', !.image = image, !.update = update,
                       !.prev = prev, !.method = IF prev # NoRef THEN "edit" ELSE "post"]]
  /\ tally' = [tally EXCEPT !.overlapped = @ \/ \E o \in Senders : sends[o].at # "idle"]
  /\ UNCHANGED <<target, board, record>>

\* The call takes effect and is answered.
Call(s) ==
  /\ sends[s].at = "call"
  /\ \E id \in Ids :
       /\ Apply(sends[s], id)
       /\ sends' = [sends EXCEPT ![s] = Succeeded(sends[s], id)]
  /\ tally' = [tally EXCEPT !.rings = @ + Rings(sends[s])]
  /\ UNCHANGED <<target, record, version>>

\* It takes effect and the answer is lost, or names no message.
CallUnanswered(s) ==
  /\ sends[s].at = "call" /\ tally.lost < MaxLost
  /\ \E id \in Ids : Apply(sends[s], id)
  /\ sends' = [sends EXCEPT ![s] = Answered(sends[s], "none")]
  /\ tally' = [tally EXCEPT !.lost = @ + 1, !.rings = @ + Rings(sends[s])]
  /\ UNCHANGED <<target, record, version>>

\* It takes no effect.
CallFails(s) ==
  /\ sends[s].at = "call"
  /\ \E a \in Answers(sends[s]) : sends' = [sends EXCEPT ![s] = Answered(sends[s], a)]
  /\ UNCHANGED <<target, board, record, version, tally>>

\* The target's time is up while the send waits to try again.
GiveUp(s) ==
  /\ sends[s].at = "call"
  /\ sends[s].attempt > 1 \/ sends[s].rateRetried
  /\ sends' = [sends EXCEPT ![s] = Failed(sends[s])]
  /\ UNCHANGED <<target, board, record, version, tally>>

\* Fault: an update that failed is no delivery.
KeptIfOk(j) ==
  IF target.stage = "digest" THEN record ELSE [delivered |-> j.ok, ref |-> j.ref]

\* The notifier keeps what was delivered: the state it read with the refs that
\* changed.  A failed first send leaves no delivery, and a digest none at all.
Kept(j) ==
  CASE target.stage = "review" /\ j.update ->
         [delivered |-> TRUE, ref |-> IF j.ok THEN j.ref ELSE j.prev]
    [] target.stage = "review" /\ ~j.update /\ j.ok -> [delivered |-> TRUE, ref |-> j.ref]
    [] OTHER -> record

Return(s) ==
  /\ sends[s].at = "back"
  /\ record' = Kept(sends[s])
  /\ sends' = [sends EXCEPT ![s] = Idle]
  /\ UNCHANGED <<target, board, version, tally>>

\* The user deletes or dismisses a message.
Delete(id) ==
  /\ tally.deleted < MaxDeleted /\ Live(id)
  /\ board' = [board EXCEPT ![id] = Deleted(@)]
  /\ tally' = [tally EXCEPT !.deleted = @ + 1]
  /\ UNCHANGED <<target, record, sends, version>>

-----------------------------------------------------------------------------
Init ==
  /\ target \in Targets
  /\ board = [id \in Ids |-> Unused]
  /\ record = [delivered |-> FALSE, ref |-> NoRef]
  /\ sends = [s \in Senders |-> Idle]
  /\ version = 0
  /\ tally = [lost |-> 0, deleted |-> 0, rings |-> 0, overlapped |-> FALSE]

Send(s) == Call(s) \/ CallUnanswered(s) \/ CallFails(s) \/ GiveUp(s) \/ Return(s)

Next ==
  \/ \E s \in Senders : Begin(s) \/ Send(s)
  \/ \E id \in Ids : Delete(id)

\* A call ends within its client's timeout, so a send goes on.
Fairness == \A s \in Senders : WF_vars(Send(s))
Spec == Init /\ [][Next]_vars /\ Fairness

-----------------------------------------------------------------------------
Quiet == \A s \in Senders : sends[s].at = "idle"

\* One notification per review.  Where messages are replaced or edited, and
\* unless two sends overlapped, whatever is on the target beside the message the
\* recorded ref names was posted by a call whose answer was lost (Slack's and
\* Discord's Send return the ref of the message that is there, edited or posted
\* fresh).  Everywhere, and whatever overlaps, a message is shown twice only if an
\* answer to a call was lost: on ntfy's iOS app, which replaces nothing, a review
\* has as many notifications as there were messages.
OneMessage ==
  /\ Quiet /\ target.stage = "review" /\ ~tally.overlapped /\ (Tagged \/ target.backend \in ByRef)
       => Cardinality({id \in Ids : Live(id) /\ id # IF Tagged THEN 1 ELSE record.ref}) <= tally.lost
  /\ \A v \in 1..version : Cardinality({id \in Ids : board[id].version = v}) <= 1 + tally.lost

\* A review rings a target once: again only if the answer to a call was lost or
\* the user deleted the message, while sends do not overlap.  Digests ring
\* nobody but Slack's readers.
RingsOnce ==
  /\ target.stage = "review" /\ ~tally.overlapped =>
       tally.rings <= 1 + tally.lost + tally.deleted
  /\ target.stage = "digest" /\ target.backend # "slack" => tally.rings = 0

\* A message loses the picture it shows only to an update that has none, never
\* because Slack would not take the update with it (call's comment: that "would
\* strip a picture already showing").
PictureStays ==
  [][\A id \in Ids : Live(id) /\ board[id].picture /\ board'[id].there /\ ~board'[id].picture =>
       \E s \in Senders : sends'[s] # sends[s] /\ ~sends[s].image]_vars

\* An update rings only in place of a message that had been shown and that the
\* user has deleted or dismissed, and then only where a fresh post or Android's
\* alert_once sounds for it ("Updates are quiet on every backend",
\* docs/notifications.md:167, but for docs/troubleshooting.md:43).
Replaced(j) == IF Tagged THEN 1 ELSE j.prev
UpdatesAreQuiet ==
  [][tally'.rings > tally.rings =>
       \E s \in Senders :
         /\ sends'[s] # sends[s]
         /\ sends[s].update =>
              /\ AlertsOnce \/ target.backend \in ByRef
              /\ Replaced(sends[s]) \in Ids
              /\ board[Replaced(sends[s])].version > 0 /\ ~Live(Replaced(sends[s]))]_vars

\* Every send ends, however often its calls are refused or time out.
SendsEnd == \A s \in Senders : sends[s].at = "call" ~> sends[s].at = "idle"
=============================================================================
