---------------------------- MODULE SendersProofs ----------------------------
(***************************************************************************)
(* A message loses its picture only to an update without one, an update is *)
(* quiet unless what it updates was deleted, a review rings a target once  *)
(* unless an answer is lost or a message deleted, and each message is      *)
(* there once unless an answer is lost, for any number of goroutines,      *)
(* messages, lost answers and deletions.                                   *)
(***************************************************************************)
EXTENDS Senders, FiniteSetTheorems, TLAPS

Message == [version : Nat, picture : BOOLEAN, there : BOOLEAN]
SendRecord ==
  [at : {"idle", "call", "back"}, version : Nat, image : BOOLEAN, update : BOOLEAN, prev : Nat,
   method : {"post", "edit"}, rateRetried : BOOLEAN, imageDropped : BOOLEAN,
   attempt : Nat, ok : BOOLEAN, ref : Nat]

Types ==
  /\ target \in Targets
  /\ board \in [Ids -> Message]
  /\ record \in [delivered : BOOLEAN, ref : Nat]
  /\ sends \in [Senders -> SendRecord]
  /\ version \in Nat
  /\ tally \in [lost : Nat, deleted : Nat, rings : Nat, overlapped : BOOLEAN]

\* A message that was posted, whether it is still there or not.
Used(id) == id \in Ids /\ board[id].version > 0

\* Where a target replaces or edits messages, and the message a ref stands for.
Replacing == Tagged \/ target.backend \in ByRef
Place(ref) == IF Tagged THEN 1 ELSE ref

\* What a send in progress may rely on.
Sound(j) ==
  /\ j.at = "call" => j.version > 0 /\ ~j.ok
  /\ j.imageDropped => target.backend = "slack" /\ j.method = "post"
  /\ j.at # "idle" /\ j.update => target.stage = "review"
  /\ Replacing /\ j.at # "idle" /\ j.update => Used(Place(j.prev))
  /\ j.method = "edit" => target.backend \in ByRef /\ j.update
  /\ target.backend \in ByRef /\ j.at = "call" /\ j.update /\ j.method = "post" => ~Live(j.prev)
  /\ Replacing /\ j.at = "back" /\ j.ok => Used(Place(j.ref))
  /\ target.backend \in ByTag => j.prev = NoRef /\ j.ref = NoRef

\* What is on record is on the board, or was.
Recorded ==
  /\ Replacing /\ record.delivered => Used(Place(record.ref))
  /\ target.backend \in ByTag => record.ref = NoRef
  /\ ~record.delivered => record.ref = NoRef

IInv ==
  /\ Types
  /\ \A id \in Ids : Live(id) => Used(id)
  /\ \A s \in Senders : Sound(sends[s])
  /\ Recorded

-----------------------------------------------------------------------------
\* What a call leaves on the board.
LEMMA BackendKinds ==
  ASSUME Types
  PROVE  /\ target.backend \in ByTag \/ target.backend \in ByRef
         /\ ~(target.backend \in ByTag /\ target.backend \in ByRef)
         /\ Tagged => target.backend \in ByTag
         /\ AlertsOnce => Tagged
         /\ 1 \in Ids
  BY SendersAssumption DEF Types, Targets, ByTag, ByRef, Tagged, AlertsOnce, Ids

LEMMA ApplyTypes ==
  ASSUME Types, NEW j \in SendRecord, NEW id \in Ids, Apply(j, id), j.version > 0
  PROVE  /\ board' \in [Ids -> Message]
         /\ board'[id].version > 0 /\ board'[id].there
         /\ board'[id].picture = (j.image /\ ~j.imageDropped)
         /\ \A i \in Ids : i # id => board'[i] = board[i]
<1>1. Shows(j) \in Message
  BY DEF Shows, SendRecord, Message, Types, Targets
<1> QED BY <1>1 DEF Apply, Types, Shows

\* Messages only go from unused to used.
LEMMA StaysUsed ==
  ASSUME Types, NEW j \in SendRecord, NEW id \in Ids, Apply(j, id), j.version > 0,
         NEW i, Used(i)
  PROVE  Used(i)'
  BY ApplyTypes DEF Used

\* Only an edit of a message that is there, or the one of the tag, writes over it.
LEMMA WritesOver ==
  ASSUME Types, NEW j \in SendRecord, NEW id \in Ids, Apply(j, id),
         target.backend \in ByRef, Used(id)
  PROVE  j.method = "edit" /\ id = j.prev /\ Live(id)
<1>1. board[id] # Unused
  BY DEF Used, Unused
<1> QED BY <1>1, BackendKinds DEF Apply, WritesTo, Fresh

\* What an answer may make of a send.
LEMMA AnswerForms ==
  ASSUME Types, NEW j \in SendRecord, NEW a
  PROVE  LET k == Answered(j, a) IN
         \/ k = Failed(j)
         \/ k = [j EXCEPT !.attempt = @ + 1]
         \/ k = [j EXCEPT !.rateRetried = TRUE] /\ ~j.rateRetried
         \/ /\ k = [j EXCEPT !.imageDropped = TRUE]
            /\ ~j.imageDropped /\ target.backend = "slack" /\ j.method = "post"
         \/ k = PostsInstead(j) /\ a = "gone" /\ target.backend \in ByRef
<1>1. CASE target.backend \in ByTag
  <2>0. target.backend # "slack" /\ target.backend # "discord"
    BY <1>1 DEF ByTag
  <2>1. Answered(j, a) = TagAnswered(j, a)
    BY <1>1, <2>0 DEF Answered
  <2> QED BY <2>1 DEF TagAnswered
<1>2. CASE target.backend = "slack"
  <2>0. target.backend \notin ByTag
    BY <1>2 DEF ByTag
  <2>1. Answered(j, a) = SlackAnswered(j, a)
    BY <1>2, <2>0 DEF Answered
  <2>2. CASE a = "limited" /\ ~j.rateRetried
    BY <2>1, <2>2 DEF SlackAnswered
  <2>3. CASE a = "badImage" /\ ~j.imageDropped /\ j.method = "post"
    BY <1>2, <2>1, <2>3 DEF SlackAnswered
  <2>4. CASE a = "gone"
    BY <1>2, <2>1, <2>4 DEF SlackAnswered, ByRef
  <2>5. CASE /\ ~(a = "limited" /\ ~j.rateRetried)
             /\ ~(a = "badImage" /\ ~j.imageDropped /\ j.method = "post")
             /\ a # "gone"
    <3>1. SlackAnswered(j, a) = Failed(j)
      BY <2>5, Zenon DEF SlackAnswered
    <3> QED BY <3>1, <2>1
  <2> QED BY <2>2, <2>3, <2>4, <2>5
<1>3. CASE target.backend = "discord"
  <2>0. target.backend \notin ByTag /\ target.backend # "slack"
    BY <1>3 DEF ByTag
  <2>1. Answered(j, a) = DiscordAnswered(j, a)
    BY <1>3, <2>0 DEF Answered
  <2>2. CASE a = "limited" /\ ~j.rateRetried
    BY <2>1, <2>2 DEF DiscordAnswered
  <2>3. CASE a = "gone"
    BY <1>3, <2>1, <2>3 DEF DiscordAnswered, ByRef
  <2>4. CASE ~(a = "limited" /\ ~j.rateRetried) /\ a # "gone"
    <3>1. DiscordAnswered(j, a) = Failed(j)
      BY <2>4, Zenon DEF DiscordAnswered
    <3> QED BY <3>1, <2>1
  <2> QED BY <2>2, <2>3, <2>4
<1> QED BY <1>1, <1>2, <1>3, BackendKinds DEF ByRef

\* What it leaves of it.
LEMMA AnswerTypes ==
  ASSUME Types, NEW j \in SendRecord, j.at = "call", NEW a
  PROVE  LET k == Answered(j, a) IN
         /\ k \in SendRecord
         /\ k.at \in {"call", "back"}
         /\ k.version = j.version /\ k.update = j.update /\ k.prev = j.prev /\ k.ref = j.ref
         /\ k.ok = j.ok
         /\ k.imageDropped => j.imageDropped \/ (target.backend = "slack" /\ j.method = "post")
         /\ \/ k.method = j.method
            \/ k.method = "post" /\ target.backend \in ByRef /\ a = "gone"
         /\ k # j \/ a = "gone"
<1> DEFINE k == Answered(j, a)
           Result ==
             /\ k \in SendRecord
             /\ k.at \in {"call", "back"}
             /\ k.version = j.version /\ k.update = j.update /\ k.prev = j.prev /\ k.ref = j.ref
             /\ k.ok = j.ok
             /\ k.imageDropped => j.imageDropped \/ (target.backend = "slack" /\ j.method = "post")
             /\ \/ k.method = j.method
                \/ k.method = "post" /\ target.backend \in ByRef /\ a = "gone"
             /\ k # j \/ a = "gone"
<1>1. CASE k = Failed(j)
  BY <1>1 DEF Failed, SendRecord
<1>2. CASE k = [j EXCEPT !.attempt = @ + 1]
  BY <1>2 DEF SendRecord
<1>3. CASE k = [j EXCEPT !.rateRetried = TRUE] /\ ~j.rateRetried
  BY <1>3 DEF SendRecord
<1>4. CASE /\ k = [j EXCEPT !.imageDropped = TRUE]
           /\ ~j.imageDropped /\ target.backend = "slack" /\ j.method = "post"
  BY <1>4 DEF SendRecord
<1>5. CASE k = PostsInstead(j) /\ a = "gone" /\ target.backend \in ByRef
  BY <1>5 DEF PostsInstead, SendRecord
<1> HIDE DEF k
<1>6. k = Answered(j, a)
  BY DEF k
<1> QED BY <1>1, <1>2, <1>3, <1>4, <1>5, <1>6, AnswerForms

-----------------------------------------------------------------------------
\* What a call may do to the messages that are there: none is lost, and by ref
\* none comes back.
Keeps ==
  /\ target' = target
  /\ \A i \in Ids : Used(i) => Used(i)'
  /\ target.backend \in ByRef => \A i \in Ids : Used(i) /\ Live(i)' => Live(i)

LEMMA TargetKept ==
  ASSUME target' = target
  PROVE  /\ Tagged' = Tagged /\ AlertsOnce' = AlertsOnce /\ Replacing' = Replacing
         /\ \A ref : Place(ref)' = Place(ref)
  BY DEF Tagged, AlertsOnce, Replacing, Place, ByTag, ByRef

LEMMA SoundKept ==
  ASSUME Types, NEW j \in SendRecord, Sound(j), Keeps
  PROVE  Sound(j)'
<1>1. target' = target
  BY DEF Keeps
<1>2. /\ Tagged' = Tagged /\ Replacing' = Replacing
      /\ Place(j.prev)' = Place(j.prev) /\ Place(j.ref)' = Place(j.ref)
  BY <1>1, TargetKept
<1>3. Used(Place(j.prev)) => Used(Place(j.prev))'
  BY <1>2 DEF Keeps, Used
<1>4. Used(Place(j.ref)) => Used(Place(j.ref))'
  BY <1>2 DEF Keeps, Used
<1>5. target.backend \in ByRef /\ j.at = "call" /\ j.update /\ j.method = "post" => ~Live(j.prev)'
  <2> SUFFICES ASSUME target.backend \in ByRef, j.at = "call", j.update, j.method = "post"
               PROVE  ~Live(j.prev)'
    OBVIOUS
  <2>1. Used(Place(j.prev)) /\ Place(j.prev) = j.prev /\ ~Live(j.prev)
    BY BackendKinds DEF Sound, Replacing, Place
  <2> QED BY <2>1 DEF Keeps, Used
<1> QED BY <1>1, <1>2, <1>3, <1>4, <1>5 DEF Sound, ByRef, ByTag

LEMMA RecordedKept ==
  ASSUME Types, Recorded, Keeps, record' = record
  PROVE  Recorded'
<1>1. target' = target
  BY DEF Keeps
<1>2. Replacing' = Replacing /\ Place(record.ref)' = Place(record.ref)
  <2>1. \A ref : Place(ref)' = Place(ref)
    BY <1>1, TargetKept
  <2> QED BY <1>1, <2>1, TargetKept DEF Place
<1>3. Used(Place(record.ref)) => Used(Place(record.ref))'
  BY <1>2 DEF Keeps, Used
<1> QED BY <1>1, <1>2, <1>3 DEF Recorded, ByRef, ByTag

\* A call that takes effect.
LEMMA ApplyKeeps ==
  ASSUME IInv, NEW j \in SendRecord, Sound(j), j.at = "call", NEW id \in Ids, Apply(j, id),
         target' = target
  PROVE  /\ Keeps
         /\ board' \in [Ids -> Message]
         /\ Used(id)'
         /\ \A i \in Ids : Live(i)' => Used(i)'
<1>0. Types /\ j.version > 0
  BY DEF IInv, Sound
<1>1. /\ board' \in [Ids -> Message]
      /\ board'[id].version > 0 /\ board'[id].there
      /\ board'[id].picture = (j.image /\ ~j.imageDropped)
      /\ \A i \in Ids : i # id => board'[i] = board[i]
  BY <1>0, ApplyTypes
<1>2. Used(id)'
  BY <1>1 DEF Used
<1>3. ASSUME NEW i \in Ids, Used(i)
      PROVE  Used(i)'
  BY <1>0, <1>3, StaysUsed
<1>4. ASSUME target.backend \in ByRef, NEW i \in Ids, Used(i), Live(i)'
      PROVE  Live(i)
  <2>1. CASE i = id
    BY <1>0, <1>4, <2>1, WritesOver
  <2>2. CASE i # id
    BY <1>1, <1>4, <2>2 DEF Live
  <2> QED BY <2>1, <2>2
<1>5. Keeps
  BY <1>3, <1>4 DEF Keeps
<1>6. ASSUME NEW i \in Ids
      PROVE  Live(i)' => Used(i)'
  <2>1. CASE i = id
    BY <1>1, <1>2, <2>1
  <2>2. CASE i # id
    <3>1. board'[i] = board[i]
      BY <1>1, <2>2
    <3> QED BY <3>1 DEF IInv, Live, Used
  <2> QED BY <2>1, <2>2
<1> QED BY <1>1, <1>2, <1>5, <1>6

\* An answer leaves a sound send.
LEMMA AnswerSound ==
  ASSUME Types, NEW j \in SendRecord, j.at = "call", Sound(j), NEW a,
         a = "gone" => j.method = "edit" /\ ~Live(j.prev)
  PROVE  Sound(Answered(j, a))
<1> DEFINE k == Answered(j, a)
<1>1. /\ k \in SendRecord
      /\ k.at \in {"call", "back"}
      /\ k.version = j.version /\ k.update = j.update /\ k.prev = j.prev /\ k.ref = j.ref
      /\ k.ok = j.ok
      /\ k.imageDropped => j.imageDropped \/ (target.backend = "slack" /\ j.method = "post")
      /\ \/ k.method = j.method
         \/ k.method = "post" /\ target.backend \in ByRef /\ a = "gone"
  BY AnswerTypes
<1> HIDE DEF k
<1>2. Sound(k)
  BY <1>1, BackendKinds DEF Sound, SendRecord
<1> QED BY <1>2 DEF k

-----------------------------------------------------------------------------
\* The invariant holds at first and no step breaks it.
LEMMA InitInv == Init => IInv
<1> SUFFICES ASSUME Init PROVE IInv
  OBVIOUS
<1>1. Types
  BY DEF Init, Types, Targets, Unused, Message, Idle, SendRecord, NoRef
<1>2. ASSUME NEW id \in Ids PROVE Live(id) => Used(id)
  BY DEF Init, Unused, Live, Used
<1>3. ASSUME NEW s \in Senders PROVE Sound(sends[s])
  BY DEF Init, Idle, Sound, NoRef
<1>4. Recorded
  BY DEF Init, Recorded, NoRef
<1> QED BY <1>1, <1>2, <1>3, <1>4 DEF IInv

\* A goroutine's step that leaves the others' sends.
LEMMA SendsKept ==
  ASSUME IInv, Keeps, NEW s \in Senders, NEW j \in SendRecord, Sound(j)',
         sends' = [sends EXCEPT ![s] = j]
  PROVE  /\ sends' \in [Senders -> SendRecord]
         /\ \A o \in Senders : Sound(sends[o])'
<1>1. sends \in [Senders -> SendRecord]
  BY DEF IInv, Types
<1>2. sends' \in [Senders -> SendRecord] /\ sends'[s] = j
      /\ \A o \in Senders : o # s => sends'[o] = sends[o]
  BY <1>1
<1>3. ASSUME NEW o \in Senders PROVE Sound(sends[o])'
  <2>1. CASE o = s
    BY <1>2, <2>1 DEF Sound
  <2>2. CASE o # s
    <3>1. PICK k \in SendRecord : k = sends[o]
      BY <1>1
    <3>2. Sound(k)'
      BY <3>1, SoundKept DEF IInv
    <3>3. sends'[o] = k
      BY <3>1, <1>2, <2>2
    <3> QED BY <3>2, <3>3 DEF Sound
  <2> QED BY <2>1, <2>2
<1> QED BY <1>2, <1>3

LEMMA KeepsUnchanged ==
  ASSUME UNCHANGED <<target, board>>
  PROVE  Keeps
  BY DEF Keeps, Used, Live

LEMMA BeginInv ==
  ASSUME IInv, NEW s \in Senders, Begin(s)
  PROVE  IInv'
<1> DEFINE update == record.delivered /\ target.stage = "review"
           prev == IF update THEN record.ref ELSE NoRef
<1>0. PICK image \in BOOLEAN : sends' = [sends EXCEPT ![s] =
        [Idle EXCEPT !.at = "call", !.version = version', !.image = image, !.update = update,
                     !.prev = prev, !.method = IF prev # NoRef THEN "edit" ELSE "post"]]
  BY DEF Begin
<1> DEFINE j0 == [Idle EXCEPT !.at = "call", !.version = version', !.image = image, !.update = update,
                              !.prev = prev, !.method = IF prev # NoRef THEN "edit" ELSE "post"]
<1>1. Types /\ Recorded
  BY DEF IInv
<1>2. version' \in Nat /\ version' > 0
  BY <1>1 DEF Begin, Types
<1>3. j0 \in SendRecord /\ Sound(j0)
  <2>1. update \in BOOLEAN /\ prev \in Nat
    BY <1>1 DEF Types, NoRef
  <2>2. j0 \in SendRecord
    BY <2>1, <1>2 DEF Idle, SendRecord, NoRef
  <2>3. /\ Replacing /\ update => Used(Place(prev))
        /\ target.backend \in ByRef /\ update => prev # NoRef
    <3>1. Replacing /\ update => Used(Place(prev))
      BY <1>1 DEF Recorded
    <3>2. target.backend \in ByRef => Replacing /\ Place(prev) = prev
      BY <1>1, BackendKinds DEF Replacing, Place
    <3> QED BY <3>1, <3>2 DEF Used, Ids, NoRef
  <2>4. ~update => prev = NoRef
    OBVIOUS
  <2>5. target.backend \in ByTag => prev = NoRef
    BY <1>1 DEF Recorded
  <2> QED BY <1>1, <1>2, <2>1, <2>2, <2>3, <2>4, <2>5, BackendKinds DEF Sound, Idle, NoRef
<1>4. PICK j \in SendRecord : j = j0
  BY <1>3
<1>5. Keeps
  BY KeepsUnchanged DEF Begin
<1>6. Sound(j)'
  BY <1>1, <1>3, <1>4, <1>5, SoundKept
<1>7. sends' = [sends EXCEPT ![s] = j]
  BY <1>0, <1>4
<1> HIDE DEF j0, update, prev
<1>8. sends' \in [Senders -> SendRecord] /\ \A o \in Senders : Sound(sends[o])'
  BY <1>5, <1>6, <1>7, SendsKept
<1>9. Types'
  <2>1. tally' \in [lost : Nat, deleted : Nat, rings : Nat, overlapped : BOOLEAN]
    BY <1>1 DEF Begin, Types
  <2> QED BY <1>1, <1>2, <1>8, <2>1 DEF Begin, Types, Targets
<1>10. Recorded'
  BY <1>1, <1>5, RecordedKept DEF Begin
<1>11. \A id \in Ids : Live(id)' => Used(id)'
  BY DEF Begin, IInv, Live, Used
<1> QED BY <1>8, <1>9, <1>10, <1>11 DEF IInv

\* What a call's effect and its result have in common, answered or not.
LEMMA CalledInv ==
  ASSUME IInv, NEW s \in Senders, sends[s].at = "call",
         NEW j \in SendRecord, Sound(j)', sends' = [sends EXCEPT ![s] = j],
         NEW id \in Ids, Apply(sends[s], id), UNCHANGED <<target, record, version>>,
         tally' \in [lost : Nat, deleted : Nat, rings : Nat, overlapped : BOOLEAN]
  PROVE  IInv'
<1>1. Types /\ Recorded
  BY DEF IInv
<1>2. PICK i \in SendRecord : i = sends[s]
  BY <1>1 DEF Types
<1>3. /\ Keeps /\ board' \in [Ids -> Message]
      /\ \A k \in Ids : Live(k)' => Used(k)'
  BY <1>2, ApplyKeeps DEF IInv
<1>4. sends' \in [Senders -> SendRecord] /\ \A o \in Senders : Sound(sends[o])'
  BY <1>3, SendsKept
<1>5. Recorded'
  BY <1>1, <1>3, RecordedKept
<1>6. Types'
  BY <1>1, <1>3, <1>4 DEF Types, Targets
<1> QED BY <1>3, <1>4, <1>5, <1>6 DEF IInv

LEMMA CallInv ==
  ASSUME IInv, NEW s \in Senders, Call(s)
  PROVE  IInv'
<1>1. Types
  BY DEF IInv
<1>2. PICK i \in SendRecord : i = sends[s]
  BY <1>1 DEF Types
<1>3. PICK id \in Ids : Apply(i, id) /\ sends' = [sends EXCEPT ![s] = Succeeded(i, id)]
  BY <1>2 DEF Call
<1>4. i.at = "call" /\ Sound(i) /\ target' = target
  BY <1>2 DEF Call, IInv
<1>5. Keeps /\ Used(id)'
  BY <1>3, <1>4, ApplyKeeps
<1>6. Succeeded(i, id) \in SendRecord
  <2>1. PICK ref \in Nat : ref = IF target.backend \in ByTag THEN NoRef ELSE id
    BY SendersAssumption DEF NoRef, Ids
  <2>2. Succeeded(i, id) = [i EXCEPT !.at = "back", !.ok = TRUE, !.ref = ref]
    BY <2>1 DEF Succeeded
  <2> QED BY <2>2 DEF SendRecord
<1>7. Sound(i)'
  BY <1>1, <1>4, <1>5, SoundKept
<1>8. PICK j \in SendRecord : j = Succeeded(i, id)
  BY <1>6
<1>9. /\ j.at = "back" /\ j.version = i.version /\ j.update = i.update /\ j.prev = i.prev
      /\ j.method = i.method /\ j.imageDropped = i.imageDropped
      /\ j.ref = IF target.backend \in ByTag THEN NoRef ELSE id
  BY <1>8 DEF Succeeded, SendRecord
<1>10. Sound(j)'
  <2>1. Replacing => Place(j.ref) = id
    <3>1. Tagged => id = 1
      BY <1>3 DEF Apply, WritesTo
    <3> QED BY <1>1, <1>9, <3>1, BackendKinds DEF Replacing, Place
  <2>2. Replacing' = Replacing /\ Place(j.ref)' = Place(j.ref) /\ Place(i.prev)' = Place(j.prev)'
    BY <1>4, <1>9, TargetKept DEF Place
  <2>3. Replacing' => Used(Place(j.ref))'
    BY <1>5, <2>1, <2>2 DEF Used
  <2> QED BY <1>1, <1>4, <1>7, <1>9, <2>2, <2>3, BackendKinds DEF Sound, ByTag, ByRef
<1>11. tally' \in [lost : Nat, deleted : Nat, rings : Nat, overlapped : BOOLEAN]
  BY <1>1 DEF Call, Types, Rings
<1> QED BY <1>2, <1>3, <1>4, <1>8, <1>10, <1>11, CalledInv DEF Call

LEMMA UnansweredInv ==
  ASSUME IInv, NEW s \in Senders, CallUnanswered(s)
  PROVE  IInv'
<1>1. Types
  BY DEF IInv
<1>2. PICK i \in SendRecord : i = sends[s]
  BY <1>1 DEF Types
<1>3. PICK id \in Ids : Apply(i, id)
  BY <1>2 DEF CallUnanswered
<1>4. i.at = "call" /\ Sound(i) /\ target' = target
  BY <1>2 DEF CallUnanswered, IInv
<1>5. Keeps
  BY <1>3, <1>4, ApplyKeeps
<1>6. PICK j \in SendRecord : j = Answered(i, "none")
  BY <1>1, <1>4, AnswerTypes
<1>7. Sound(j)
  BY <1>1, <1>4, <1>6, AnswerSound
<1>8. Sound(j)'
  BY <1>1, <1>5, <1>7, SoundKept
<1>9. sends' = [sends EXCEPT ![s] = j]
  BY <1>2, <1>6 DEF CallUnanswered
<1>10. tally' \in [lost : Nat, deleted : Nat, rings : Nat, overlapped : BOOLEAN]
  <2>1. PICK n \in Nat : n = Rings(sends[s])
    BY DEF Rings
  <2>2. PICK was \in [lost : Nat, deleted : Nat, rings : Nat, overlapped : BOOLEAN] : was = tally
    BY <1>1 DEF Types
  <2>3. PICK lost \in Nat, rings \in Nat : lost = was.lost + 1 /\ rings = was.rings + n
    OBVIOUS
  <2>4. tally' = [was EXCEPT !.lost = lost, !.rings = rings]
    BY <2>1, <2>2, <2>3 DEF CallUnanswered
  <2> QED BY <2>4
<1> QED BY <1>2, <1>3, <1>4, <1>8, <1>9, <1>10, CalledInv DEF CallUnanswered

\* A step that only changes one send.
LEMMA AloneInv ==
  ASSUME IInv, NEW s \in Senders, NEW j \in SendRecord, Sound(j),
         sends' = [sends EXCEPT ![s] = j], UNCHANGED <<target, board, record, version, tally>>
  PROVE  IInv'
<1>1. Types /\ Recorded
  BY DEF IInv
<1>2. Keeps
  BY KeepsUnchanged
<1>3. Sound(j)'
  BY <1>1, <1>2, SoundKept
<1>4. sends' \in [Senders -> SendRecord] /\ \A o \in Senders : Sound(sends[o])'
  BY <1>2, <1>3, SendsKept
<1>5. Recorded'
  BY <1>1, <1>2, RecordedKept
<1>6. \A id \in Ids : Live(id)' => Used(id)'
  BY DEF IInv, Live, Used
<1> QED BY <1>1, <1>4, <1>5, <1>6 DEF IInv, Types, Targets

LEMMA FailsInv ==
  ASSUME IInv, NEW s \in Senders, CallFails(s)
  PROVE  IInv'
<1>1. Types
  BY DEF IInv
<1>2. PICK i \in SendRecord : i = sends[s]
  BY <1>1 DEF Types
<1>3. PICK a \in Answers(i) : sends' = [sends EXCEPT ![s] = Answered(i, a)]
  BY <1>2 DEF CallFails
<1>4. i.at = "call" /\ Sound(i)
  BY <1>2 DEF CallFails, IInv
<1>5. a = "gone" => i.method = "edit" /\ ~Live(i.prev)
  BY <1>3 DEF Answers
<1>6. PICK j \in SendRecord : j = Answered(i, a)
  BY <1>1, <1>4, AnswerTypes
<1>7. Sound(j)
  BY <1>1, <1>4, <1>5, <1>6, AnswerSound
<1> QED BY <1>3, <1>6, <1>7, AloneInv DEF CallFails

LEMMA GiveUpInv ==
  ASSUME IInv, NEW s \in Senders, GiveUp(s)
  PROVE  IInv'
<1>1. Types
  BY DEF IInv
<1>2. PICK i \in SendRecord : i = sends[s]
  BY <1>1 DEF Types
<1>3. i.at = "call" /\ Sound(i)
  BY <1>2 DEF GiveUp, IInv
<1>4. PICK j \in SendRecord : j = Failed(i)
  BY DEF Failed, SendRecord
<1>5. Sound(j)
  BY <1>3, <1>4 DEF Sound, Failed, SendRecord
<1> QED BY <1>2, <1>4, <1>5, AloneInv DEF GiveUp

\* What Return keeps is on the board: what the send wrote, or what it found.
LEMMA ReturnInv ==
  ASSUME IInv, NEW s \in Senders, Return(s)
  PROVE  IInv'
<1>1. Types /\ Recorded
  BY DEF IInv
<1>2. PICK i \in SendRecord : i = sends[s]
  BY <1>1 DEF Types
<1>3. i.at = "back" /\ Sound(i)
  BY <1>2 DEF Return, IInv
<1>4. PICK j \in SendRecord : j = Idle
  BY DEF Idle, SendRecord, NoRef
<1>5. Keeps
  BY KeepsUnchanged DEF Return
<1>6. Sound(j)'
  BY <1>4, <1>5 DEF Sound, Idle, NoRef
<1>7. sends' \in [Senders -> SendRecord] /\ \A o \in Senders : Sound(sends[o])'
  BY <1>4, <1>5, <1>6, SendsKept DEF Return
<1>8. record' = Kept(i) /\ UNCHANGED <<target, board, version, tally>>
  BY <1>2 DEF Return
<1>9. record' \in [delivered : BOOLEAN, ref : Nat] /\ Recorded'
  <2>1. CASE target.stage # "review"
    <3>1. record' = record
      BY <1>8, <2>1, Zenon DEF Kept
    <3> QED BY <3>1, <1>1, <1>5, RecordedKept DEF Types
  <2>2. CASE target.stage = "review" /\ i.update
    <3>1. record' = [delivered |-> TRUE, ref |-> IF i.ok THEN i.ref ELSE i.prev]
      BY <1>8, <2>2 DEF Kept
    <3>2. IF i.ok THEN Replacing => Used(Place(i.ref)) ELSE Replacing => Used(Place(i.prev))
      BY <1>3, <2>2 DEF Sound
    <3>3. Replacing' = Replacing /\ (Replacing => Used(Place(record.ref))')
      BY <1>8, <3>1, <3>2, TargetKept DEF Place, Used, Tagged
    <3> QED BY <3>1, <3>3, <1>3, <1>8 DEF Recorded, Sound, SendRecord, ByTag
  <2>3. CASE target.stage = "review" /\ ~i.update /\ i.ok
    <3>1. record' = [delivered |-> TRUE, ref |-> i.ref]
      BY <1>8, <2>3 DEF Kept
    <3>2. Replacing => Used(Place(i.ref))
      BY <1>3, <2>3 DEF Sound
    <3>3. Replacing' = Replacing /\ (Replacing => Used(Place(record.ref))')
      BY <1>8, <3>1, <3>2, TargetKept DEF Place, Used, Tagged
    <3> QED BY <3>1, <3>3, <1>3, <1>8 DEF Recorded, Sound, SendRecord, ByTag
  <2>4. CASE target.stage = "review" /\ ~i.update /\ ~i.ok
    <3>1. record' = record
      BY <1>8, <2>4, Zenon DEF Kept
    <3> QED BY <3>1, <1>1, <1>5, RecordedKept DEF Types
  <2> QED BY <2>1, <2>2, <2>3, <2>4
<1>10. \A id \in Ids : Live(id)' => Used(id)'
  BY <1>8 DEF IInv, Live, Used
<1> QED BY <1>1, <1>7, <1>8, <1>9, <1>10 DEF IInv, Types, Targets

LEMMA DeleteInv ==
  ASSUME IInv, NEW d \in Ids, Delete(d)
  PROVE  IInv'
<1>1. Types /\ Recorded
  BY DEF IInv
<1>2. /\ board' \in [Ids -> Message]
      /\ board'[d].version = board[d].version /\ board'[d].picture = board[d].picture
      /\ ~board'[d].there
      /\ \A i \in Ids : i # d => board'[i] = board[i]
  BY <1>1 DEF Delete, Deleted, Types, Message
<1>3. Keeps
  <2>1. \A i \in Ids : Used(i) => Used(i)'
    BY <1>2 DEF Used
  <2>2. \A i \in Ids : Live(i)' => Live(i)
    BY <1>2 DEF Live
  <2> QED BY <2>1, <2>2 DEF Keeps, Delete
<1>4. \A s \in Senders : Sound(sends[s])'
  <2>1. TAKE s \in Senders
  <2>2. PICK i \in SendRecord : i = sends[s]
    BY <1>1 DEF Types
  <2>3. Sound(i)'
    BY <1>1, <1>3, <2>2, SoundKept DEF IInv
  <2> QED BY <2>2, <2>3 DEF Delete, Sound
<1>5. Recorded'
  BY <1>1, <1>3, RecordedKept DEF Delete
<1>6. \A id \in Ids : Live(id)' => Used(id)'
  <2>1. TAKE id \in Ids
  <2>2. CASE id = d
    BY <1>2, <2>2 DEF IInv, Live, Used, Delete
  <2>3. CASE id # d
    BY <1>2, <2>3 DEF IInv, Live, Used, Delete
  <2> QED BY <2>2, <2>3
<1>7. Types'
  BY <1>1, <1>2 DEF Delete, Types, Targets
<1> QED BY <1>4, <1>5, <1>6, <1>7 DEF IInv

LEMMA StepInv == IInv /\ [Next]_vars => IInv'
<1> SUFFICES ASSUME IInv, [Next]_vars PROVE IInv'
  OBVIOUS
<1>1. ASSUME NEW s \in Senders, Begin(s) \/ Send(s) PROVE IInv'
  BY <1>1, BeginInv, CallInv, UnansweredInv, FailsInv, GiveUpInv, ReturnInv DEF Send
<1>2. ASSUME NEW id \in Ids, Delete(id) PROVE IInv'
  BY <1>2, DeleteInv
<1>3. CASE UNCHANGED vars
  <2>1. Types'
    BY <1>3 DEF IInv, vars, Types, Targets
  <2>2. Recorded'
    BY <1>3, RecordedKept, KeepsUnchanged DEF IInv, vars
  <2>3. \A id \in Ids : Live(id)' => Used(id)'
    BY <1>3 DEF IInv, vars, Live, Used
  <2>4. \A s \in Senders : Sound(sends[s])'
    <3>1. TAKE s \in Senders
    <3>2. PICK j \in SendRecord : j = sends[s]
      BY DEF IInv, Types
    <3>3. Sound(j)'
      BY <1>3, <3>2, SoundKept, KeepsUnchanged DEF IInv, vars
    <3> QED BY <1>3, <3>2, <3>3 DEF vars
  <2> QED BY <2>1, <2>2, <2>3, <2>4 DEF IInv
<1> QED BY <1>1, <1>2, <1>3 DEF Next

-----------------------------------------------------------------------------
LEMMA Invariant == Spec => []IInv
  BY InitInv, StepInv, PTL DEF Spec

\* A call that takes effect changes its send.
LEMMA CallChanges ==
  ASSUME IInv, NEW s \in Senders, Call(s) \/ CallUnanswered(s)
  PROVE  sends'[s] # sends[s] /\ sends[s].at = "call" /\ \E d \in Ids : Apply(sends[s], d)
<1>1. sends \in [Senders -> SendRecord]
  BY DEF IInv, Types
<1>2. PICK j \in SendRecord : j = sends[s]
  BY <1>1
<1>3. CASE Call(s)
  <2>1. PICK id \in Ids : sends' = [sends EXCEPT ![s] = Succeeded(sends[s], id)]
    BY <1>3 DEF Call
  <2>2. Succeeded(j, id).at = "back"
    BY DEF Succeeded, SendRecord
  <2> QED BY <1>1, <1>2, <1>3, <2>1, <2>2 DEF Call
<1>4. CASE CallUnanswered(s)
  <2>1. Answered(j, "none") # j
    BY <1>2, <1>4, AnswerTypes DEF CallUnanswered, IInv
  <2>2. sends'[s] # sends[s]
    BY <1>1, <1>2, <1>4, <2>1 DEF CallUnanswered
  <2> QED BY <1>4, <2>2 DEF CallUnanswered
<1> QED BY <1>3, <1>4

\* An edit carries the picture of its message: only a post is tried again without
\* one (slack.call), and a deleted id is not posted to.
LEMMA PictureStep ==
  ASSUME IInv, [Next]_vars, NEW id \in Ids, Live(id), board[id].picture, board'[id].there,
         ~board'[id].picture
  PROVE  \E s \in Senders : sends'[s] # sends[s] /\ ~sends[s].image
<1>1. ASSUME NEW s \in Senders, NEW d \in Ids, sends[s].at = "call", Apply(sends[s], d)
      PROVE  ~sends[s].image
  <2>1. PICK j \in SendRecord : j = sends[s]
    BY DEF IInv, Types
  <2>2. Types /\ Sound(j) /\ j.version > 0 /\ Apply(j, d)
    BY <1>1, <2>1 DEF IInv, Sound
  <2>3. d = id
    BY <2>2, ApplyTypes
  <2>4. board'[id].picture = (j.image /\ ~j.imageDropped)
    BY <2>2, <2>3, ApplyTypes
  <2>5. ASSUME j.imageDropped PROVE FALSE
    <3>1. target.backend = "slack" /\ j.method = "post"
      BY <2>2, <2>5 DEF Sound
    <3>2. j.method = "edit"
      BY <2>2, <2>3, <3>1, WritesOver DEF IInv, ByRef
    <3> QED BY <3>1, <3>2
  <2> QED BY <2>1, <2>4, <2>5
<1>2. ASSUME NEW d \in Ids, Delete(d) PROVE FALSE
  <2>1. board \in [Ids -> Message]
    BY DEF IInv, Types
  <2> QED BY <1>2, <2>1 DEF Delete, Deleted, Message
<1>3. ASSUME board' = board PROVE FALSE
  BY <1>3
<1>4. ASSUME NEW s \in Senders, Begin(s) \/ Send(s)
      PROVE  sends'[s] # sends[s] /\ ~sends[s].image
  <2>1. CASE Begin(s) \/ CallFails(s) \/ GiveUp(s) \/ Return(s)
    BY <1>3, <2>1 DEF Begin, CallFails, GiveUp, Return
  <2>2. CASE Call(s) \/ CallUnanswered(s)
    BY <1>1, <2>2, CallChanges
  <2> QED BY <1>4, <2>1, <2>2 DEF Send
<1> QED BY <1>2, <1>3, <1>4 DEF Next, vars

\* A message that shows a picture loses it only to a send that has none, whatever
\* Slack refuses and whichever send posts afresh.
THEOREM PictureKept == Spec => PictureStays
<1>1. IInv /\ [Next]_vars =>
        [\A id \in Ids : Live(id) /\ board[id].picture /\ board'[id].there /\ ~board'[id].picture =>
           \E s \in Senders : sends'[s] # sends[s] /\ ~sends[s].image]_vars
  BY PictureStep
<1> QED BY <1>1, Invariant, PTL DEF Spec, PictureStays

\* An update sounds only where the message it replaces was there and is gone: a
\* post in its place, or a dismissed notification's tag on Android.
LEMMA RingingUpdate ==
  ASSUME IInv, NEW s \in Senders, sends[s].at = "call", sends[s].update, Rings(sends[s]) # 0
  PROVE  /\ AlertsOnce \/ target.backend \in ByRef
         /\ Used(Place(sends[s].prev)) /\ ~Live(Place(sends[s].prev))
<1>1. PICK j \in SendRecord : j = sends[s]
  BY DEF IInv, Types
<1>2. Types /\ Sound(j) /\ j.at = "call" /\ j.update
  BY <1>1 DEF IInv
<1>3. /\ j.method = "post"
      /\ target.backend \in ByTag => AlertsOnce
      /\ AlertsOnce => ~Live(1)
  BY <1>1, <1>2 DEF Rings, Silent, SendRecord
<1>4. CASE target.backend \in ByTag
  <2>1. AlertsOnce /\ Tagged
    BY <1>2, <1>3, <1>4, BackendKinds
  <2> QED BY <1>1, <1>2, <1>3, <2>1 DEF Sound, Replacing, Place
<1>5. CASE target.backend \in ByRef
  <2>1. ~Tagged
    BY <1>2, <1>5, BackendKinds
  <2> QED BY <1>1, <1>2, <1>3, <1>5, <2>1 DEF Sound, Replacing, Place
<1> QED BY <1>2, <1>4, <1>5, BackendKinds

LEMMA QuietStep ==
  ASSUME IInv, Next, tally'.rings > tally.rings
  PROVE  \E s \in Senders :
           /\ sends'[s] # sends[s]
           /\ sends[s].update =>
                /\ AlertsOnce \/ target.backend \in ByRef
                /\ Replaced(sends[s]) \in Ids
                /\ board[Replaced(sends[s])].version > 0 /\ ~Live(Replaced(sends[s]))
<1>1. tally \in [lost : Nat, deleted : Nat, rings : Nat, overlapped : BOOLEAN]
  BY DEF IInv, Types
<1>2. ASSUME NEW s \in Senders, Call(s) \/ CallUnanswered(s)
      PROVE  Rings(sends[s]) # 0
  <2>1. CASE Call(s)
    BY <1>1, <2>1 DEF Call
  <2>2. CASE CallUnanswered(s)
    BY <1>1, <2>2 DEF CallUnanswered
  <2> QED BY <1>2, <2>1, <2>2
<1>3. ASSUME NEW s \in Senders, Begin(s) \/ CallFails(s) \/ GiveUp(s) \/ Return(s) PROVE FALSE
  <2>1. tally'.rings = tally.rings
    <3>1. CASE Begin(s)
      BY <1>1, <3>1 DEF Begin
    <3>2. CASE CallFails(s) \/ GiveUp(s) \/ Return(s)
      BY <3>2 DEF CallFails, GiveUp, Return
    <3> QED BY <1>3, <3>1, <3>2
  <2> QED BY <1>1, <2>1
<1>4. ASSUME NEW id \in Ids, Delete(id) PROVE FALSE
  BY <1>1, <1>4 DEF Delete
<1>5. PICK s \in Senders : Call(s) \/ CallUnanswered(s)
  BY <1>3, <1>4 DEF Next, Send
<1>6. sends'[s] # sends[s] /\ sends[s].at = "call"
  BY <1>5, CallChanges
<1>7. Replaced(sends[s]) = Place(sends[s].prev)
  BY DEF Replaced, Place
<1>8. ASSUME sends[s].update
      PROVE  /\ AlertsOnce \/ target.backend \in ByRef
             /\ Used(Place(sends[s].prev)) /\ ~Live(Place(sends[s].prev))
  BY <1>2, <1>5, <1>6, <1>8, RingingUpdate
<1> QED BY <1>6, <1>7, <1>8 DEF Used

\* What rings is a first send, or an update of a message that was there and has
\* been deleted.
THEOREM UpdatesQuiet == Spec => UpdatesAreQuiet
<1>1. IInv /\ [Next]_vars =>
        [tally'.rings > tally.rings =>
           \E s \in Senders :
             /\ sends'[s] # sends[s]
             /\ sends[s].update =>
                  /\ AlertsOnce \/ target.backend \in ByRef
                  /\ Replaced(sends[s]) \in Ids
                  /\ board[Replaced(sends[s])].version > 0 /\ ~Live(Replaced(sends[s]))]_vars
  BY QuietStep
<1> QED BY <1>1, Invariant, PTL DEF Spec, UpdatesAreQuiet

-----------------------------------------------------------------------------
\* The rings of a review, while its sends do not overlap: one for its first
\* delivery, one for a lost answer, and one more each time the message that is
\* on record was deleted and is not there yet again.
Calm == ~tally.overlapped /\ target.stage = "review"
Told(j) == record.delivered \/ (j.at = "back" /\ j.ok)
Current(j) == IF j.at = "back" /\ j.ok THEN j.ref ELSE record.ref
Missing(j) ==
  (AlertsOnce \/ target.backend \in ByRef) /\ Told(j) /\ ~Live(Place(Current(j)))
Within(j) ==
  tally.rings + (IF Missing(j) THEN 1 ELSE 0)
    <= (IF Told(j) THEN 1 ELSE 0) + tally.lost + tally.deleted
Alone(s) == \A o \in Senders : sends[o].at # "idle" => o = s

RingInv ==
  /\ target.stage = "digest" /\ target.backend # "slack" => tally.rings = 0
  /\ Calm =>
       /\ \A s \in Senders : sends[s].at # "idle" =>
            /\ Alone(s) /\ Within(sends[s])
            /\ sends[s].update = record.delivered
            /\ sends[s].update => sends[s].prev = record.ref
       /\ (\A s \in Senders : sends[s].at = "idle") => Within(Idle)

LEMMA CountsAreNumbers ==
  ASSUME Types
  PROVE  tally.rings \in Nat /\ tally.lost \in Nat /\ tally.deleted \in Nat
         /\ tally.overlapped \in BOOLEAN
  BY DEF Types

\* A goroutine's step, seen by the others.
LEMMA AloneStep ==
  ASSUME IInv, RingInv, Calm, NEW s \in Senders, sends[s].at # "idle",
         NEW j \in SendRecord, sends' = [sends EXCEPT ![s] = j]
  PROVE  /\ Alone(s)' /\ sends'[s] = j
         /\ \A o \in Senders : o # s => sends'[o].at = "idle"
<1>1. sends \in [Senders -> SendRecord]
  BY DEF IInv, Types
<1>2. sends'[s] = j /\ \A o \in Senders : o # s => sends'[o] = sends[o]
  BY <1>1
<1>3. \A o \in Senders : o # s => sends[o].at = "idle"
  BY DEF RingInv, Alone
<1> QED BY <1>2, <1>3 DEF Alone

\* What is left to show of such a step that does not end the send.
LEMMA RingsKept ==
  ASSUME IInv, RingInv, NEW s \in Senders, sends[s].at # "idle", NEW j \in SendRecord,
         sends' = [sends EXCEPT ![s] = j], j.at # "idle", UNCHANGED <<target, record>>,
         tally'.overlapped = tally.overlapped,
         j.update = sends[s].update, j.prev = sends[s].prev,
         Calm => Within(j)',
         target.stage = "digest" /\ target.backend # "slack" => tally'.rings = 0
  PROVE  RingInv'
<1>1. Calm' = Calm
  BY DEF Calm
<1>2. ASSUME Calm
      PROVE  /\ \A o \in Senders : sends'[o].at # "idle" =>
                  /\ Alone(o)' /\ Within(sends[o])'
                  /\ sends'[o].update = record'.delivered
                  /\ sends'[o].update => sends'[o].prev = record'.ref
             /\ ~ \A o \in Senders : sends'[o].at = "idle"
  <2>1. /\ Alone(s)' /\ sends'[s] = j
        /\ \A o \in Senders : o # s => sends'[o].at = "idle"
    BY <1>2, AloneStep
  <2>2. Within(sends[s])'
    BY <1>2, <2>1 DEF Within, Missing, Told, Current, Place, Tagged, AlertsOnce
  <2>3. j.update = record.delivered /\ (j.update => j.prev = record.ref)
    BY <1>2 DEF RingInv
  <2> QED BY <2>1, <2>2, <2>3
<1> QED BY <1>1, <1>2 DEF RingInv

\* A call that rings.
LEMMA RingingCall ==
  ASSUME IInv, NEW s \in Senders, sends[s].at = "call"
  PROVE  /\ Rings(sends[s]) \in {0, 1}
         /\ target.stage = "digest" /\ target.backend # "slack" => Rings(sends[s]) = 0
         /\ Rings(sends[s]) # 0 /\ sends[s].update =>
              (AlertsOnce \/ target.backend \in ByRef) /\ ~Live(Place(sends[s].prev))
<1>1. Rings(sends[s]) \in {0, 1}
      /\ (target.stage = "digest" /\ target.backend # "slack" => Rings(sends[s]) = 0)
  BY DEF Rings, Silent
<1> QED BY <1>1, RingingUpdate

LEMMA RingCall ==
  ASSUME IInv, RingInv, NEW s \in Senders, Call(s)
  PROVE  RingInv'
<1>1. Types /\ target' = target /\ record' = record /\ sends[s].at = "call"
  BY DEF Call, IInv
<1>2. PICK i \in SendRecord : i = sends[s]
  BY <1>1 DEF Types
<1>3. PICK id \in Ids : Apply(i, id) /\ sends' = [sends EXCEPT ![s] = Succeeded(i, id)]
  BY <1>2 DEF Call
<1>4. PICK ref \in Nat : ref = IF target.backend \in ByTag THEN NoRef ELSE id
  BY SendersAssumption DEF NoRef, Ids
<1>5. PICK j \in SendRecord : j = [i EXCEPT !.at = "back", !.ok = TRUE, !.ref = ref]
  BY DEF SendRecord
<1>6. sends' = [sends EXCEPT ![s] = j]
  BY <1>3, <1>4, <1>5 DEF Succeeded
<1>7. j.at = "back" /\ j.ok /\ j.ref = ref /\ j.update = i.update /\ j.prev = i.prev
  BY <1>5 DEF SendRecord
<1>8. /\ tally'.rings = tally.rings + Rings(i) /\ tally'.lost = tally.lost
      /\ tally'.deleted = tally.deleted /\ tally'.overlapped = tally.overlapped
  BY <1>1, <1>2 DEF Call, Types
<1>9. board'[id].there
  BY <1>1, <1>2, <1>3, ApplyTypes DEF IInv, Sound
<1>10. ASSUME Calm PROVE Within(j)'
  <2>1. ~Missing(j)' /\ Told(j)'
    <3>1. Told(j)' /\ Current(j)' = ref
      BY <1>7 DEF Told, Current
    <3>2. Tagged' = Tagged /\ AlertsOnce' = AlertsOnce
      BY <1>1, TargetKept
    <3>3. Tagged => id = 1
      BY <1>3 DEF Apply, WritesTo
    <3>4. Tagged \/ target.backend \in ByRef => Place(Current(j))' = id
      BY <1>1, <1>4, <3>1, <3>2, <3>3, BackendKinds DEF Place
    <3> QED BY <1>1, <1>9, <3>1, <3>2, <3>4, BackendKinds DEF Missing, Live
  <2>2. Within(i) /\ i.update = record.delivered /\ (i.update => i.prev = record.ref)
    BY <1>1, <1>2, <1>10 DEF RingInv
  <2>3. tally.rings + Rings(i) <= 1 + tally.lost + tally.deleted
    <3>1. CASE record.delivered
      <4>1. Current(i) = record.ref /\ Told(i)
        BY <1>1, <1>2, <3>1 DEF Told, Current
      <4>2. Rings(i) # 0 => Missing(i)
        BY <1>1, <1>2, <2>2, <3>1, <4>1, RingingCall DEF Missing
      <4> QED BY <1>1, <1>2, <2>2, <4>1, <4>2, RingingCall, CountsAreNumbers DEF Within
    <3>2. CASE ~record.delivered
      <4>1. ~Told(i)
        BY <1>1, <1>2, <3>2 DEF Told
      <4> QED BY <1>1, <1>2, <2>2, <4>1, RingingCall, CountsAreNumbers DEF Within, Missing
    <3> QED BY <3>1, <3>2
  <2>4. PICK r \in {0, 1} : r = Rings(i)
    BY <1>1, <1>2, RingingCall
  <2>5. (tally.rings + r) + 0 <= 1 + tally.lost + tally.deleted
    BY <1>1, <2>3, <2>4, CountsAreNumbers
  <2> QED BY <1>8, <2>1, <2>4, <2>5 DEF Within
<1>11. target.stage = "digest" /\ target.backend # "slack" => tally'.rings = 0
  BY <1>1, <1>2, <1>8, RingingCall DEF RingInv
<1> QED BY <1>1, <1>2, <1>6, <1>7, <1>8, <1>10, <1>11, RingsKept

LEMMA RingUnanswered ==
  ASSUME IInv, RingInv, NEW s \in Senders, CallUnanswered(s)
  PROVE  RingInv'
<1>1. Types /\ target' = target /\ record' = record /\ sends[s].at = "call"
  BY DEF CallUnanswered, IInv
<1>2. PICK i \in SendRecord : i = sends[s]
  BY <1>1 DEF Types
<1>3. PICK id \in Ids : Apply(i, id)
  BY <1>2 DEF CallUnanswered
<1>4. PICK j \in SendRecord : j = Answered(i, "none")
  BY <1>1, <1>2, AnswerTypes
<1>5. /\ j.at \in {"call", "back"} /\ ~j.ok
      /\ j.update = i.update /\ j.prev = i.prev
  BY <1>1, <1>2, <1>4, AnswerTypes DEF IInv, Sound
<1>6. sends' = [sends EXCEPT ![s] = j]
  BY <1>2, <1>4 DEF CallUnanswered
<1>7. /\ tally'.rings = tally.rings + Rings(i) /\ tally'.lost = tally.lost + 1
      /\ tally'.deleted = tally.deleted /\ tally'.overlapped = tally.overlapped
  BY <1>1, <1>2 DEF CallUnanswered, Types
<1>8. \A k \in Ids : Live(k) => Live(k)'
  BY <1>1, <1>2, <1>3, ApplyTypes DEF IInv, Sound, Live
<1>9. ASSUME Calm PROVE Within(j)'
  <2>1. Within(i)
    BY <1>1, <1>2, <1>9 DEF RingInv
  <2>2. (Told(j)' <=> Told(i)) /\ Current(j)' = record.ref /\ Current(i) = record.ref
    BY <1>1, <1>2, <1>5 DEF Told, Current, IInv, Sound
  <2>3. Replacing /\ Told(i) => Place(record.ref) \in Ids
    BY <1>1, <1>2 DEF Told, IInv, Recorded, Used
  <2>4. Missing(j)' => Missing(i)
    <3>1. AlertsOnce' = AlertsOnce /\ Place(Current(j))' = Place(record.ref)
      BY <1>1, <2>2, TargetKept DEF Place
    <3>2. AlertsOnce \/ target.backend \in ByRef => Replacing
      BY <1>1, BackendKinds DEF Replacing
    <3> QED BY <1>1, <1>8, <2>2, <2>3, <3>1, <3>2 DEF Missing
  <2>5. tally.rings + (IF Missing(j)' THEN 1 ELSE 0)
          <= (IF Told(j)' THEN 1 ELSE 0) + tally.lost + tally.deleted
    BY <1>1, <2>1, <2>2, <2>4, CountsAreNumbers DEF Within
  <2>6. PICK m \in {0, 1}, n \in {0, 1}, r \in {0, 1} :
          /\ m = (IF Missing(j)' THEN 1 ELSE 0)
          /\ n = (IF Told(j)' THEN 1 ELSE 0)
          /\ r = Rings(i)
    BY <1>1, <1>2, RingingCall
  <2>7. (tally.rings + r) + m <= n + (tally.lost + 1) + tally.deleted
    BY <1>1, <2>5, <2>6, CountsAreNumbers
  <2> QED BY <1>7, <2>6, <2>7 DEF Within
<1>10. target.stage = "digest" /\ target.backend # "slack" => tally'.rings = 0
  BY <1>1, <1>2, <1>7, RingingCall DEF RingInv
<1> QED BY <1>1, <1>2, <1>5, <1>6, <1>7, <1>9, <1>10, RingsKept

\* A call without effect, and a send that gives up.
LEMMA RingFails ==
  ASSUME IInv, RingInv, NEW s \in Senders, CallFails(s) \/ GiveUp(s)
  PROVE  RingInv'
<1>1. /\ Types /\ target' = target /\ record' = record /\ board' = board /\ tally' = tally
      /\ sends[s].at = "call"
  BY DEF CallFails, GiveUp, IInv
<1>2. PICK i \in SendRecord : i = sends[s]
  BY <1>1 DEF Types
<1>3. PICK j \in SendRecord : /\ sends' = [sends EXCEPT ![s] = j]
                              /\ j.at \in {"call", "back"} /\ ~j.ok
                              /\ j.update = i.update /\ j.prev = i.prev
  <2>1. ~i.ok
    BY <1>1, <1>2 DEF IInv, Sound
  <2>2. CASE CallFails(s)
    <3>1. PICK a \in Answers(i) : sends' = [sends EXCEPT ![s] = Answered(i, a)]
      BY <1>2, <2>2 DEF CallFails
    <3>2. PICK j \in SendRecord : j = Answered(i, a)
      BY <1>1, <1>2, AnswerTypes
    <3>3. /\ j.at \in {"call", "back"} /\ ~j.ok
          /\ j.update = i.update /\ j.prev = i.prev
      BY <1>1, <1>2, <2>1, <3>2, AnswerTypes
    <3> QED BY <3>1, <3>2, <3>3
  <2>3. CASE GiveUp(s)
    <3>1. PICK j \in SendRecord : j = Failed(i)
      BY DEF Failed, SendRecord
    <3>2. j.at = "back" /\ ~j.ok /\ j.update = i.update /\ j.prev = i.prev
      BY <2>1, <3>1 DEF Failed, SendRecord
    <3> QED BY <1>2, <2>3, <3>1, <3>2 DEF GiveUp
  <2> QED BY <2>2, <2>3
<1>4. ASSUME Calm PROVE Within(j)'
  <2>1. Within(i)
    BY <1>1, <1>2, <1>4 DEF RingInv
  <2>2. (Told(j)' <=> Told(i)) /\ Current(j)' = Current(i)
    BY <1>1, <1>2, <1>3 DEF Told, Current, IInv, Sound
  <2> QED BY <1>1, <2>1, <2>2 DEF Within, Missing, Live, Place, Tagged, AlertsOnce
<1> QED BY <1>1, <1>2, <1>3, <1>4, RingsKept DEF RingInv

LEMMA RingBegin ==
  ASSUME IInv, RingInv, NEW s \in Senders, Begin(s)
  PROVE  RingInv'
<1>1. /\ Types /\ target' = target /\ record' = record /\ board' = board
      /\ tally'.rings = tally.rings /\ tally'.lost = tally.lost /\ tally'.deleted = tally.deleted
      /\ tally'.overlapped = (tally.overlapped \/ \E o \in Senders : sends[o].at # "idle")
  BY DEF Begin, IInv, Types
<1> DEFINE update == record.delivered /\ target.stage = "review"
           prev == IF update THEN record.ref ELSE NoRef
<1>0. PICK image \in BOOLEAN : sends' = [sends EXCEPT ![s] =
        [Idle EXCEPT !.at = "call", !.version = version', !.image = image, !.update = update,
                     !.prev = prev, !.method = IF prev # NoRef THEN "edit" ELSE "post"]]
  BY DEF Begin
<1> DEFINE j0 == [Idle EXCEPT !.at = "call", !.version = version', !.image = image, !.update = update,
                              !.prev = prev, !.method = IF prev # NoRef THEN "edit" ELSE "post"]
<1>2. PICK j : /\ j.at = "call" /\ sends' = [sends EXCEPT ![s] = j]
               /\ target.stage = "review" => (j.update <=> record.delivered)
               /\ target.stage = "review" /\ j.update => j.prev = record.ref
  <2>1. j0.at = "call" /\ j0.update = update /\ j0.prev = prev
    BY DEF Idle
  <2>2. sends' = [sends EXCEPT ![s] = j0]
    BY <1>0
  <2> HIDE DEF j0
  <2> QED BY <2>1, <2>2
<1> HIDE DEF update, prev, j0
<1>3. ASSUME Calm'
      PROVE  /\ \A o \in Senders : sends'[o].at # "idle" =>
                  /\ Alone(o)' /\ Within(sends[o])'
                  /\ sends'[o].update = record'.delivered
                  /\ sends'[o].update => sends'[o].prev = record'.ref
             /\ ~ \A o \in Senders : sends'[o].at = "idle"
  <2>1. Calm /\ \A o \in Senders : sends[o].at = "idle"
    BY <1>1, <1>3 DEF Calm
  <2>2. sends'[s] = j /\ \A o \in Senders : o # s => sends'[o].at = "idle"
    BY <1>1, <1>2, <2>1 DEF Types
  <2>3. Within(Idle)
    BY <2>1 DEF RingInv
  <2>4. (Told(sends[s])' <=> Told(Idle)) /\ Current(sends[s])' = Current(Idle)
    BY <1>1, <1>2, <2>2 DEF Told, Current, Idle
  <2>5. Within(sends[s])'
    BY <1>1, <2>3, <2>4 DEF Within, Missing, Live, Place, Tagged, AlertsOnce
  <2>6. j.update \in BOOLEAN
    BY <1>1, <1>2, <1>3, <2>2, BeginInv DEF IInv, Types, SendRecord
  <2> QED BY <1>1, <1>2, <1>3, <2>2, <2>5, <2>6 DEF Alone, Calm, Types
<1> QED BY <1>1, <1>3 DEF RingInv

LEMMA RingReturn ==
  ASSUME IInv, RingInv, NEW s \in Senders, Return(s)
  PROVE  RingInv'
<1>1. /\ Types /\ target' = target /\ board' = board /\ tally' = tally
      /\ sends[s].at = "back" /\ record' = Kept(sends[s]) /\ sends' = [sends EXCEPT ![s] = Idle]
  BY DEF Return, IInv
<1>2. PICK i \in SendRecord : i = sends[s]
  BY <1>1 DEF Types
<1>3. ASSUME Calm
      PROVE  (\A o \in Senders : sends'[o].at = "idle") /\ Within(Idle)'
  <2>1. Within(i) /\ i.update = record.delivered /\ (i.update => i.prev = record.ref)
    BY <1>1, <1>2, <1>3 DEF RingInv
  <2>2. \A o \in Senders : sends'[o].at = "idle"
    BY <1>1, <1>3 DEF RingInv, Alone, Types, Idle
  <2>3. (record'.delivered <=> Told(i)) /\ (Told(i) => record'.ref = Current(i))
    <3>1. CASE i.update
      <4>1. record' = [delivered |-> TRUE, ref |-> IF i.ok THEN i.ref ELSE i.prev]
        BY <1>1, <1>2, <1>3, <3>1 DEF Kept, Calm
      <4> QED BY <1>1, <1>2, <2>1, <3>1, <4>1 DEF Told, Current
    <3>2. CASE ~i.update /\ i.ok
      <4>1. record' = [delivered |-> TRUE, ref |-> i.ref]
        BY <1>1, <1>2, <1>3, <3>2 DEF Kept, Calm
      <4> QED BY <1>1, <1>2, <3>2, <4>1 DEF Told, Current
    <3>3. CASE ~i.update /\ ~i.ok
      <4>1. record' = record
        BY <1>1, <1>2, <3>3, Zenon DEF Kept
      <4> QED BY <1>1, <1>2, <3>3, <4>1 DEF Told, Current
    <3> QED BY <3>1, <3>2, <3>3
  <2>4. (Told(Idle)' <=> Told(i)) /\ (Told(i) => Current(Idle)' = Current(i))
    BY <2>3 DEF Told, Current, Idle
  <2> QED BY <1>1, <2>1, <2>2, <2>4 DEF Within, Missing, Live, Place, Tagged, AlertsOnce
<1> QED BY <1>1, <1>3 DEF RingInv, Calm

LEMMA RingDelete ==
  ASSUME IInv, RingInv, NEW d \in Ids, Delete(d)
  PROVE  RingInv'
<1>1. /\ Types /\ target' = target /\ record' = record /\ sends' = sends
      /\ tally'.rings = tally.rings /\ tally'.lost = tally.lost
      /\ tally'.deleted = tally.deleted + 1 /\ tally'.overlapped = tally.overlapped
  BY DEF Delete, IInv, Types
<1>2. ASSUME NEW j \in SendRecord, Within(j)
      PROVE  Within(j)'
  BY <1>1, <1>2, CountsAreNumbers DEF Within, Told
<1>3. ASSUME Calm, NEW s \in Senders, sends[s].at # "idle"
      PROVE  Within(sends[s])'
  <2>1. PICK j \in SendRecord : j = sends[s]
    BY <1>1 DEF Types
  <2>2. Within(j)'
    BY <1>2, <1>3, <2>1 DEF RingInv
  <2> QED BY <1>1, <2>1, <2>2 DEF Within, Missing, Told, Current, Place, Tagged, AlertsOnce
<1>4. ASSUME Calm, \A s \in Senders : sends[s].at = "idle"
      PROVE  Within(Idle)'
  <2>1. PICK j \in SendRecord : j = Idle
    BY DEF Idle, SendRecord, NoRef
  <2>2. Within(j)'
    BY <1>2, <1>4, <2>1 DEF RingInv
  <2> QED BY <2>1, <2>2 DEF Within, Missing, Told, Current, Place, Tagged, AlertsOnce
<1> QED BY <1>1, <1>3, <1>4 DEF RingInv, Calm, Alone

LEMMA RingInit == Init => RingInv
<1> SUFFICES ASSUME Init PROVE RingInv
  OBVIOUS
<1>1. ~Told(Idle) /\ tally.rings = 0 /\ tally.lost = 0 /\ tally.deleted = 0
  BY DEF Init, Told, Idle
<1>2. \A s \in Senders : sends[s].at = "idle"
  BY DEF Init, Idle
<1> QED BY <1>1, <1>2 DEF RingInv, Within, Missing

LEMMA RingStep == IInv /\ RingInv /\ [Next]_vars => RingInv'
<1> SUFFICES ASSUME IInv, RingInv, [Next]_vars PROVE RingInv'
  OBVIOUS
<1>1. ASSUME NEW s \in Senders, Begin(s) \/ Send(s) PROVE RingInv'
  BY <1>1, RingBegin, RingCall, RingUnanswered, RingFails, RingReturn DEF Send
<1>2. ASSUME NEW id \in Ids, Delete(id) PROVE RingInv'
  BY <1>2, RingDelete
<1>3. CASE UNCHANGED vars
  BY <1>3 DEF vars, RingInv, Calm, Alone, Within, Missing, Told, Current, Live, Place, Tagged, AlertsOnce
<1> QED BY <1>1, <1>2, <1>3 DEF Next

\* A review rings a target once, and again only for a lost answer or a deleted
\* message; digests ring nobody but Slack's readers.
THEOREM RingsCounted == Spec => []RingsOnce
<1>1. IInv /\ RingInv => RingsOnce
  <2> SUFFICES ASSUME IInv, RingInv PROVE RingsOnce
    OBVIOUS
  <2>1. ASSUME Calm PROVE tally.rings <= 1 + tally.lost + tally.deleted
    <3>1. PICK j : Within(j)
      <4>1. CASE \A s \in Senders : sends[s].at = "idle"
        BY <2>1, <4>1 DEF RingInv
      <4>2. CASE \E s \in Senders : sends[s].at # "idle"
        BY <2>1, <4>2 DEF RingInv
      <4> QED BY <4>1, <4>2
    <3> QED BY <3>1, CountsAreNumbers DEF Within, IInv
  <2> QED BY <2>1 DEF RingsOnce, RingInv, Calm
<1>2. Spec => []RingInv
  <2>1. Init /\ [][Next]_vars /\ []IInv => []RingInv
    BY RingInit, RingStep, PTL
  <2> QED BY <2>1, Invariant, PTL DEF Spec
<1> QED BY <1>1, <1>2, Invariant, PTL

-----------------------------------------------------------------------------
\* The messages of a target beside the one a ref, or the tag, names: while sends
\* do not overlap and are replaced or edited, each was posted by a call whose
\* answer was lost.
Beside(ref) == {id \in Ids : Live(id) /\ id # Place(ref)}

Steady == Calm /\ Replacing

StrayInv ==
  /\ Tagged => \A id \in Ids : Live(id) => id = 1
  /\ Steady =>
       /\ \A s \in Senders : sends[s].at # "idle" =>
            Cardinality(Beside(Current(sends[s]))) <= tally.lost
       /\ (\A s \in Senders : sends[s].at = "idle") =>
            Cardinality(Beside(record.ref)) <= tally.lost

LEMMA CountsOfIds ==
  ASSUME NEW S, S \subseteq Ids
  PROVE  /\ IsFiniteSet(S) /\ Cardinality(S) \in Nat
         /\ \A T \in SUBSET S : Cardinality(T) <= Cardinality(S)
         /\ \A x : Cardinality(S \cup {x}) <= Cardinality(S) + 1
<1>1. IsFiniteSet(Ids)
  BY FS_Interval, SendersAssumption DEF Ids
<1>2. IsFiniteSet(S)
  BY <1>1, FS_Subset
<1>3. Cardinality(S) \in Nat
  BY <1>2, FS_CardinalityType
<1> QED BY <1>2, <1>3, FS_Subset, FS_AddElement

\* Fewer messages beside the current one are no more than the answers lost.
LEMMA NoMoreBeside ==
  ASSUME NEW S, S \subseteq Ids, NEW T, T \subseteq S, NEW n \in Nat, Cardinality(S) <= n
  PROVE  Cardinality(T) <= n
<1>1. Cardinality(T) <= Cardinality(S) /\ Cardinality(S) \in Nat /\ Cardinality(T) \in Nat
  BY CountsOfIds
<1> QED BY <1>1

\* What is left to show of a step that does not end the send.
LEMMA StrayKept ==
  ASSUME IInv, RingInv, StrayInv, NEW s \in Senders, sends[s].at # "idle", NEW j \in SendRecord,
         sends' = [sends EXCEPT ![s] = j], j.at # "idle",
         UNCHANGED <<target, record>>, tally'.overlapped = tally.overlapped,
         Tagged => \A id \in Ids : Live(id)' => id = 1,
         Steady => Cardinality(Beside(Current(j)))' <= tally'.lost
  PROVE  StrayInv'
<1>1. Steady' = Steady /\ Tagged' = Tagged
  BY TargetKept DEF Steady, Calm
<1>2. ASSUME Steady
      PROVE  /\ \A o \in Senders : sends'[o].at # "idle" => sends'[o] = j
             /\ ~ \A o \in Senders : sends'[o].at = "idle"
  BY <1>2, AloneStep DEF Steady
<1>3. ASSUME Steady, NEW o \in Senders, sends'[o].at # "idle"
      PROVE  Cardinality(Beside(Current(sends[o])))' <= tally'.lost
  <2>1. sends'[o] = j
    BY <1>2, <1>3
  <2>2. Current(sends[o])' = Current(j)'
    BY <2>1 DEF Current
  <2>3. Beside(Current(sends[o]))' = Beside(Current(j))'
    BY <2>2 DEF Beside
  <2> QED BY <1>3, <2>3
<1> QED BY <1>1, <1>2, <1>3 DEF StrayInv

\* A call that takes effect writes over the current message, or adds one where
\* there is no current message.
LEMMA CallBeside ==
  ASSUME IInv, RingInv, StrayInv, Steady, NEW s \in Senders, sends[s].at = "call",
         NEW id \in Ids, Apply(sends[s], id), target' = target, record' = record
  PROVE  /\ Tagged => id = 1
         /\ target.backend \in ByRef =>
              \/ id = record.ref /\ Live(id)
              \/ ~Live(id) /\ \A i \in Ids : Live(i) => i # record.ref
         /\ \A i \in Ids : i # id => (Live(i)' <=> Live(i))
<1>1. PICK j \in SendRecord : j = sends[s]
  BY DEF IInv, Types
<1>2. Types /\ j.at = "call" /\ Sound(j) /\ Apply(j, id)
  BY <1>1 DEF IInv
<1>3. j.update = record.delivered /\ (j.update => j.prev = record.ref)
  BY <1>1 DEF RingInv, Steady
<1>4. \A i \in Ids : i # id => (Live(i)' <=> Live(i))
  BY <1>2, ApplyTypes DEF Sound, Live
<1>5. ASSUME target.backend \in ByRef, j.method = "edit"
      PROVE  id = record.ref /\ Live(id)
  BY <1>2, <1>3, <1>5, BackendKinds DEF Apply, WritesTo, Sound
<1>6. ASSUME target.backend \in ByRef, j.method = "post"
      PROVE  ~Live(id) /\ \A i \in Ids : Live(i) => i # record.ref
  <2>1. ~Live(id)
    BY <1>2, <1>6, BackendKinds DEF Apply, WritesTo, Fresh, Unused, Live
  <2>2. CASE j.update
    BY <1>2, <1>3, <1>6, <2>1, <2>2 DEF Sound
  <2>3. CASE ~j.update
    <3>1. record.ref = 0
      BY <1>3, <2>3 DEF IInv, Recorded, NoRef
    <3> QED BY <2>1, <3>1, SendersAssumption DEF Ids
  <2> QED BY <1>1, <2>1, <2>2, <2>3 DEF SendRecord
<1>7. Tagged => id = 1
  BY <1>2 DEF Apply, WritesTo
<1> QED BY <1>2, <1>4, <1>5, <1>6, <1>7 DEF SendRecord

\* A tag's only message is the first, whatever overlaps.
LEMMA TagWrites ==
  ASSUME IInv, StrayInv, NEW s \in Senders, sends[s].at = "call",
         NEW id \in Ids, Apply(sends[s], id), Tagged
  PROVE  \A i \in Ids : Live(i)' => i = 1
<1>1. PICK j \in SendRecord : j = sends[s]
  BY DEF IInv, Types
<1>2. Types /\ j.version > 0 /\ Apply(j, id)
  BY <1>1 DEF IInv, Sound
<1>3. id = 1
  BY <1>2 DEF Apply, WritesTo
<1>4. \A i \in Ids : i # id => (Live(i)' <=> Live(i))
  BY <1>2, ApplyTypes DEF Live
<1> QED BY <1>3, <1>4 DEF StrayInv

LEMMA StrayCall ==
  ASSUME IInv, RingInv, StrayInv, NEW s \in Senders, Call(s)
  PROVE  StrayInv'
<1>1. Types /\ target' = target /\ record' = record /\ sends[s].at = "call"
  BY DEF Call, IInv
<1>2. PICK i \in SendRecord : i = sends[s]
  BY <1>1 DEF Types
<1>3. PICK id \in Ids : Apply(i, id) /\ sends' = [sends EXCEPT ![s] = Succeeded(i, id)]
  BY <1>2 DEF Call
<1>4. PICK ref \in Nat : ref = IF target.backend \in ByTag THEN NoRef ELSE id
  BY SendersAssumption DEF NoRef, Ids
<1>5. PICK j \in SendRecord : j = [i EXCEPT !.at = "back", !.ok = TRUE, !.ref = ref]
  BY DEF SendRecord
<1>6. sends' = [sends EXCEPT ![s] = j] /\ j.at = "back" /\ j.ok /\ j.ref = ref
  BY <1>3, <1>4, <1>5 DEF Succeeded, SendRecord
<1>7. tally'.lost = tally.lost /\ tally'.overlapped = tally.overlapped
  BY <1>1 DEF Call, Types
<1>8. Tagged => \A k \in Ids : Live(k)' => k = 1
  BY <1>1, <1>2, <1>3, TagWrites
<1>9. ASSUME Steady PROVE Cardinality(Beside(Current(j)))' <= tally'.lost
  <2>1. i.at = "call" /\ Cardinality(Beside(record.ref)) <= tally.lost
    <3>1. Current(i) = record.ref
      BY <1>1, <1>2 DEF Current
    <3> QED BY <1>1, <1>2, <1>9, <3>1 DEF StrayInv
  <2>2. /\ target.backend \in ByRef =>
             \/ id = record.ref /\ Live(id)
             \/ ~Live(id) /\ \A k \in Ids : Live(k) => k # record.ref
        /\ \A k \in Ids : k # id => (Live(k)' <=> Live(k))
    BY <1>1, <1>2, <1>3, <1>9, CallBeside
  <2>3. Beside(Current(j))' \subseteq Beside(record.ref)
    <3>1. Current(j)' = ref /\ Place(ref)' = Place(ref)
      BY <1>1, <1>6, TargetKept DEF Current
    <3>2. Place(Current(j))' = Place(ref)
      BY <1>1, <3>1 DEF Place, Tagged
    <3>3. CASE Tagged
      BY <1>8, <3>2, <3>3 DEF Beside, Place
    <3>4. CASE ~Tagged
      <4>1. target.backend \in ByRef
        BY <1>9, <3>4 DEF Steady, Replacing
      <4>2. Place(ref) = id /\ Place(record.ref) = record.ref
        BY <1>1, <1>4, <3>4, <4>1, BackendKinds DEF Place
      <4> QED BY <2>2, <3>2, <4>1, <4>2 DEF Beside
    <3> QED BY <3>3, <3>4
  <2>4. tally.lost \in Nat
    BY <1>1, CountsAreNumbers
  <2>5. Cardinality(Beside(Current(j))') <= tally.lost
    BY <2>1, <2>3, <2>4, NoMoreBeside DEF Beside
  <2> QED BY <1>7, <2>5
<1> QED BY <1>1, <1>6, <1>7, <1>8, <1>9, StrayKept

LEMMA StrayUnanswered ==
  ASSUME IInv, RingInv, StrayInv, NEW s \in Senders, CallUnanswered(s)
  PROVE  StrayInv'
<1>1. Types /\ target' = target /\ record' = record /\ sends[s].at = "call"
  BY DEF CallUnanswered, IInv
<1>2. PICK i \in SendRecord : i = sends[s]
  BY <1>1 DEF Types
<1>3. PICK id \in Ids : Apply(i, id)
  BY <1>2 DEF CallUnanswered
<1>4. PICK j \in SendRecord : j = Answered(i, "none")
  BY <1>1, <1>2, AnswerTypes
<1>5. j.at \in {"call", "back"} /\ ~j.ok
  BY <1>1, <1>2, <1>4, AnswerTypes DEF IInv, Sound
<1>6. sends' = [sends EXCEPT ![s] = j]
  BY <1>2, <1>4 DEF CallUnanswered
<1>7. tally'.lost = tally.lost + 1 /\ tally'.overlapped = tally.overlapped
  BY <1>1 DEF CallUnanswered, Types
<1>8. Tagged => \A k \in Ids : Live(k)' => k = 1
  BY <1>1, <1>2, <1>3, TagWrites
<1>9. ASSUME Steady PROVE Cardinality(Beside(Current(j)))' <= tally'.lost
  <2>1. Cardinality(Beside(record.ref)) <= tally.lost
    <3>1. Current(i) = record.ref
      BY <1>1, <1>2 DEF Current
    <3> QED BY <1>1, <1>2, <1>9, <3>1 DEF StrayInv
  <2>2. \A k \in Ids : k # id => (Live(k)' <=> Live(k))
    BY <1>1, <1>2, <1>3, <1>9, CallBeside
  <2>3. Beside(Current(j))' \subseteq Beside(record.ref) \cup {id}
    <3>1. Place(Current(j))' = Place(record.ref)
      BY <1>1, <1>5 DEF Current, Place, Tagged
    <3> QED BY <2>2, <3>1 DEF Beside
  <2>4. Beside(record.ref) \subseteq Ids /\ Beside(record.ref) \cup {id} \subseteq Ids
    BY DEF Beside
  <2>5. /\ Cardinality(Beside(record.ref) \cup {id}) <= Cardinality(Beside(record.ref)) + 1
        /\ Cardinality(Beside(record.ref) \cup {id}) \in Nat
        /\ Cardinality(Beside(record.ref)) \in Nat /\ tally.lost \in Nat
    BY <1>1, <2>4, CountsOfIds, CountsAreNumbers
  <2>6. Cardinality(Beside(record.ref) \cup {id}) <= tally.lost + 1 /\ tally.lost + 1 \in Nat
    BY <2>1, <2>5
  <2>7. Cardinality(Beside(Current(j))') <= tally.lost + 1
    BY <2>3, <2>4, <2>6, NoMoreBeside
  <2> QED BY <1>7, <2>7
<1> QED BY <1>1, <1>4, <1>5, <1>6, <1>7, <1>8, <1>9, StrayKept

LEMMA StrayFails ==
  ASSUME IInv, RingInv, StrayInv, NEW s \in Senders, CallFails(s) \/ GiveUp(s)
  PROVE  StrayInv'
<1>1. /\ Types /\ target' = target /\ record' = record /\ board' = board /\ tally' = tally
      /\ sends[s].at = "call"
  BY DEF CallFails, GiveUp, IInv
<1>2. PICK i \in SendRecord : i = sends[s]
  BY <1>1 DEF Types
<1>3. PICK j \in SendRecord : /\ sends' = [sends EXCEPT ![s] = j]
                              /\ j.at \in {"call", "back"} /\ ~j.ok
  <2>1. ~i.ok
    BY <1>1, <1>2 DEF IInv, Sound
  <2>2. CASE CallFails(s)
    <3>1. PICK a \in Answers(i) : sends' = [sends EXCEPT ![s] = Answered(i, a)]
      BY <1>2, <2>2 DEF CallFails
    <3>2. PICK j \in SendRecord : j = Answered(i, a)
      BY <1>1, <1>2, AnswerTypes
    <3>3. j.at \in {"call", "back"} /\ ~j.ok
      BY <1>1, <1>2, <2>1, <3>2, AnswerTypes
    <3> QED BY <3>1, <3>2, <3>3
  <2>3. CASE GiveUp(s)
    <3>1. PICK j \in SendRecord : j = Failed(i)
      BY DEF Failed, SendRecord
    <3>2. j.at = "back" /\ ~j.ok
      BY <2>1, <3>1 DEF Failed, SendRecord
    <3> QED BY <1>2, <2>3, <3>1, <3>2 DEF GiveUp
  <2> QED BY <2>2, <2>3
<1>4. ASSUME Steady PROVE Cardinality(Beside(Current(j)))' <= tally'.lost
  <2>1. Current(i) = record.ref /\ Current(j)' = record.ref
    BY <1>1, <1>2, <1>3 DEF Current
  <2>2. Beside(Current(j))' = Beside(Current(i))
    BY <1>1, <2>1 DEF Beside, Live, Place, Tagged
  <2> QED BY <1>1, <1>2, <1>4, <2>2 DEF StrayInv
<1>5. Tagged => \A id \in Ids : Live(id)' => id = 1
  BY <1>1 DEF StrayInv, Live
<1> QED BY <1>1, <1>3, <1>4, <1>5, StrayKept

LEMMA StrayBegin ==
  ASSUME IInv, RingInv, StrayInv, NEW s \in Senders, Begin(s)
  PROVE  StrayInv'
<1>1. /\ Types /\ target' = target /\ record' = record /\ board' = board
      /\ tally'.lost = tally.lost
      /\ tally'.overlapped = (tally.overlapped \/ \E o \in Senders : sends[o].at # "idle")
  BY DEF Begin, IInv, Types
<1>2. /\ sends'[s].at = "call" /\ \A o \in Senders : o # s => sends'[o] = sends[o]
  BY <1>1 DEF Begin, Types, Idle
<1>3. ASSUME Steady'
      PROVE  /\ \A o \in Senders : sends'[o].at # "idle" =>
                  Cardinality(Beside(Current(sends[o])))' <= tally'.lost
             /\ ~ \A o \in Senders : sends'[o].at = "idle"
  <2>1. Steady /\ \A o \in Senders : sends[o].at = "idle"
    BY <1>1, <1>3, TargetKept DEF Calm, Steady
  <2>2. ASSUME NEW o \in Senders, sends'[o].at # "idle"
        PROVE  Cardinality(Beside(Current(sends[o])))' <= tally'.lost
    <3>1. Current(sends[o])' = record.ref
      BY <1>1, <1>2, <2>1, <2>2 DEF Current
    <3>2. Beside(Current(sends[o]))' = Beside(record.ref)
      BY <1>1, <3>1 DEF Beside, Live, Place, Tagged
    <3> QED BY <1>1, <2>1, <3>2 DEF StrayInv
  <2> QED BY <1>2, <2>2
<1> QED BY <1>1, <1>3, TargetKept DEF StrayInv, Live

LEMMA StrayReturn ==
  ASSUME IInv, RingInv, StrayInv, NEW s \in Senders, Return(s)
  PROVE  StrayInv'
<1>1. /\ Types /\ target' = target /\ board' = board /\ tally' = tally
      /\ sends[s].at = "back" /\ record' = Kept(sends[s]) /\ sends' = [sends EXCEPT ![s] = Idle]
  BY DEF Return, IInv
<1>2. PICK i \in SendRecord : i = sends[s]
  BY <1>1 DEF Types
<1>3. ASSUME Steady
      PROVE  /\ \A o \in Senders : sends'[o].at = "idle"
             /\ Cardinality(Beside(record.ref))' <= tally'.lost
  <2>1. i.update = record.delivered /\ (i.update => i.prev = record.ref)
    BY <1>1, <1>2, <1>3 DEF RingInv, Steady
  <2>2. \A o \in Senders : sends'[o].at = "idle"
    BY <1>1, <1>3 DEF RingInv, Steady, Alone, Types, Idle
  <2>3. record'.ref = Current(i)
    <3>1. CASE i.update
      <4>1. record' = [delivered |-> TRUE, ref |-> IF i.ok THEN i.ref ELSE i.prev]
        BY <1>1, <1>2, <1>3, <3>1 DEF Kept, Calm, Steady
      <4> QED BY <1>1, <1>2, <2>1, <3>1, <4>1 DEF Current
    <3>2. CASE ~i.update /\ i.ok
      <4>1. record' = [delivered |-> TRUE, ref |-> i.ref]
        BY <1>1, <1>2, <1>3, <3>2 DEF Kept, Calm, Steady
      <4> QED BY <1>1, <1>2, <3>2, <4>1 DEF Current
    <3>3. CASE ~i.update /\ ~i.ok
      <4>1. record' = record
        BY <1>1, <1>2, <3>3, Zenon DEF Kept
      <4> QED BY <1>1, <1>2, <3>3, <4>1 DEF Current
    <3> QED BY <3>1, <3>2, <3>3
  <2>4. Beside(record.ref)' = Beside(Current(i))
    BY <1>1, <2>3 DEF Beside, Live, Place, Tagged
  <2> QED BY <1>1, <1>2, <1>3, <2>2, <2>4 DEF StrayInv
<1>4. Steady' = Steady /\ Tagged' = Tagged
  BY <1>1, TargetKept DEF Steady, Calm
<1> QED BY <1>1, <1>3, <1>4 DEF StrayInv, Live

LEMMA StrayDelete ==
  ASSUME IInv, StrayInv, NEW d \in Ids, Delete(d)
  PROVE  StrayInv'
<1>1. /\ Types /\ target' = target /\ record' = record /\ sends' = sends
      /\ tally'.lost = tally.lost /\ tally'.overlapped = tally.overlapped
  BY DEF Delete, IInv, Types
<1>2. \A i \in Ids : Live(i)' => Live(i)
  BY <1>1 DEF Delete, Types, Deleted, Live
<1>3. ASSUME NEW ref, Cardinality(Beside(ref)) <= tally.lost
      PROVE  Cardinality({id \in Ids : Live(id)' /\ id # Place(ref)}) <= tally.lost
  BY <1>1, <1>2, <1>3, NoMoreBeside, CountsAreNumbers DEF Beside
<1>4. ASSUME Steady, NEW s \in Senders, sends[s].at # "idle"
      PROVE  Cardinality(Beside(Current(sends[s])))' <= tally'.lost
  <2>1. Cardinality(Beside(Current(sends[s]))) <= tally.lost
    BY <1>4 DEF StrayInv
  <2>2. Current(sends[s])' = Current(sends[s])
    BY <1>1 DEF Current
  <2> QED BY <1>1, <1>3, <2>1, <2>2 DEF Beside, Place, Tagged
<1>5. ASSUME Steady, \A s \in Senders : sends[s].at = "idle"
      PROVE  Cardinality(Beside(record.ref))' <= tally'.lost
  BY <1>1, <1>3, <1>5 DEF StrayInv, Beside, Place, Tagged
<1>6. Steady' = Steady /\ Tagged' = Tagged
  BY <1>1, TargetKept DEF Steady, Calm
<1> QED BY <1>1, <1>2, <1>4, <1>5, <1>6 DEF StrayInv

LEMMA StrayInit == Init => StrayInv
<1> SUFFICES ASSUME Init PROVE StrayInv
  OBVIOUS
<1>1. \A id \in Ids : ~Live(id)
  BY DEF Init, Live, Unused
<1>2. \A ref : Beside(ref) = {}
  BY <1>1 DEF Beside
<1>3. \A ref : Cardinality(Beside(ref)) = 0
  BY <1>2, FS_EmptySet
<1>4. tally.lost = 0
  BY DEF Init
<1> QED BY <1>1, <1>3, <1>4 DEF StrayInv

LEMMA StrayStep == IInv /\ RingInv /\ StrayInv /\ [Next]_vars => StrayInv'
<1> SUFFICES ASSUME IInv, RingInv, StrayInv, [Next]_vars PROVE StrayInv'
  OBVIOUS
<1>1. ASSUME NEW s \in Senders, Begin(s) \/ Send(s) PROVE StrayInv'
  BY <1>1, StrayBegin, StrayCall, StrayUnanswered, StrayFails, StrayReturn DEF Send
<1>2. ASSUME NEW id \in Ids, Delete(id) PROVE StrayInv'
  BY <1>2, StrayDelete
<1>3. CASE UNCHANGED vars
  BY <1>3 DEF vars, StrayInv, Steady, Replacing, Calm, Beside, Current, Live, Place, Tagged
<1> QED BY <1>1, <1>2, <1>3 DEF Next

-----------------------------------------------------------------------------
\* A message is on the target once, and once more for each answer lost: until its
\* send is answered, only calls whose answer was lost have shown it.
Copies(v) == {id \in Ids : board[id].version = v}

CopyInv ==
  /\ \A id \in Ids : board[id].version <= version
  /\ \A s \in Senders : sends[s].version <= version
  /\ \A s, o \in Senders :
       sends[s].at = "call" /\ sends[o].at = "call" /\ s # o => sends[s].version # sends[o].version
  /\ \A s \in Senders : sends[s].at = "call" => Cardinality(Copies(sends[s].version)) <= tally.lost
  /\ \A v \in Nat \ {0} : Cardinality(Copies(v)) <= 1 + tally.lost

\* A step that leaves the messages' versions and those under way.
LEMMA CopiesKept ==
  ASSUME IInv, CopyInv, \A id \in Ids : board'[id].version = board[id].version,
         version' = version, tally'.lost = tally.lost,
         \A s \in Senders :
           /\ sends'[s].version \in {0, sends[s].version}
           /\ sends'[s].at = "call" => sends[s].at = "call" /\ sends'[s].version = sends[s].version
  PROVE  CopyInv'
<1>1. \A v : Copies(v)' = Copies(v)
  BY DEF Copies
<1>2. \A s \in Senders : sends'[s].version <= version'
  BY DEF CopyInv, IInv, Types
<1> QED BY <1>1, <1>2 DEF CopyInv

\* A call that takes effect.
LEMMA CopiesCalled ==
  ASSUME IInv, CopyInv, NEW s \in Senders, sends[s].at = "call", NEW id \in Ids, Apply(sends[s], id),
         NEW j \in SendRecord, sends' = [sends EXCEPT ![s] = j], j.version = sends[s].version,
         version' = version, tally'.lost \in Nat,
         \/ j.at # "call" /\ tally'.lost = tally.lost
         \/ tally'.lost = tally.lost + 1
  PROVE  CopyInv'
<1>1. PICK i \in SendRecord : i = sends[s]
  BY DEF IInv, Types
<1>2. /\ board' \in [Ids -> Message] /\ board'[id].version = i.version
      /\ \A k \in Ids : k # id => board'[k] = board[k]
  <2>1. Types /\ Apply(i, id) /\ i.version > 0
    BY <1>1 DEF IInv, Sound
  <2>2. board' \in [Ids -> Message] /\ \A k \in Ids : k # id => board'[k] = board[k]
    BY <2>1, ApplyTypes
  <2>3. board'[id] = Shows(i)
    BY <2>1 DEF Apply, Types
  <2> QED BY <2>2, <2>3 DEF Shows
<1>3. sends'[s] = j /\ \A o \in Senders : o # s => sends'[o] = sends[o]
  BY DEF IInv, Types
<1>4. \A v : v # i.version => Copies(v)' \subseteq Copies(v)
  BY <1>2 DEF Copies
<1>5. Copies(i.version)' \subseteq Copies(i.version) \cup {id}
  BY <1>2 DEF Copies
<1>6. \A v : Copies(v) \subseteq Ids
  BY DEF Copies
<1>7. tally.lost \in Nat
  BY CountsAreNumbers DEF IInv
<1>8. Cardinality(Copies(i.version)') <= tally.lost + 1
  <2>1. Cardinality(Copies(i.version)) <= tally.lost
    BY <1>1 DEF CopyInv
  <2>2. Copies(i.version) \cup {id} \subseteq Ids
    BY <1>6
  <2>3. /\ Cardinality(Copies(i.version) \cup {id}) <= Cardinality(Copies(i.version)) + 1
        /\ Cardinality(Copies(i.version) \cup {id}) \in Nat /\ Cardinality(Copies(i.version)) \in Nat
    BY <1>6, <2>2, CountsOfIds
  <2>4. Cardinality(Copies(i.version) \cup {id}) <= tally.lost + 1 /\ tally.lost + 1 \in Nat
    BY <1>7, <2>1, <2>3
  <2> QED BY <1>5, <2>2, <2>4, NoMoreBeside
<1>9. ASSUME NEW v, v # i.version, NEW n \in Nat, Cardinality(Copies(v)) <= n
      PROVE  Cardinality(Copies(v)') <= n
  BY <1>4, <1>6, <1>9, NoMoreBeside
<1>10. tally.lost <= tally'.lost /\ (j.at = "call" => tally'.lost = tally.lost + 1)
  BY <1>7
<1>11. ASSUME NEW o \in Senders, sends'[o].at = "call"
       PROVE  Cardinality(Copies(sends[o].version))' <= tally'.lost
  <2>1. CASE o = s
    <3>1. Copies(sends[o].version)' = Copies(i.version)'
      BY <1>1, <1>3, <2>1 DEF Copies
    <3> QED BY <1>3, <1>8, <1>10, <1>11, <2>1, <3>1
  <2>2. CASE o # s
    <3>0. Copies(sends[o].version)' = {id1 \in Ids : board'[id1].version = sends[o].version}
      BY <1>3, <2>2 DEF Copies
    <3>1. sends[o].at = "call" /\ sends[o].version # i.version
      BY <1>1, <1>3, <1>11, <2>2 DEF CopyInv
    <3>2. Cardinality(Copies(sends[o].version)) <= tally.lost
      BY <3>1 DEF CopyInv
    <3>3. Cardinality(Copies(sends[o].version)) <= tally'.lost
      <4>1. Cardinality(Copies(sends[o].version)) \in Nat
        BY <1>6, CountsOfIds
      <4> QED BY <1>7, <1>10, <3>2, <4>1
    <3>4. PICK w : w = sends[o].version
      OBVIOUS
    <3>5. Cardinality(Copies(w)') <= tally'.lost
      BY <1>9, <3>1, <3>3, <3>4
    <3> QED BY <3>0, <3>4, <3>5 DEF Copies
  <2> QED BY <2>1, <2>2
<1>12. ASSUME NEW v \in Nat \ {0}
       PROVE  Cardinality(Copies(v)') <= 1 + tally'.lost
  <2>1. CASE v = i.version
    <3>1. Cardinality(Copies(v)') \in Nat
      <4>1. Copies(v)' \subseteq Ids
        BY <1>5, <1>6, <2>1
      <4> QED BY <4>1, CountsOfIds
    <3> QED BY <1>7, <1>8, <1>10, <2>1, <3>1
  <2>2. CASE v # i.version
    <3>1. Cardinality(Copies(v)) <= 1 + tally.lost /\ Cardinality(Copies(v)) \in Nat
      BY <1>6, CountsOfIds DEF CopyInv
    <3>2. Cardinality(Copies(v)) <= 1 + tally'.lost /\ 1 + tally'.lost \in Nat
      BY <1>7, <1>10, <3>1
    <3> QED BY <1>9, <2>2, <3>2
  <2> QED BY <2>1, <2>2
<1>14. \A o \in Senders : sends'[o].version = sends[o].version
  BY <1>3
<1>15. \A k \in Ids : board'[k].version <= version'
  <2>1. i.version <= version
    BY <1>1 DEF CopyInv
  <2> QED BY <1>2, <2>1 DEF CopyInv
<1>16. \A o \in Senders : sends'[o].at = "call" => sends[o].at = "call"
  BY <1>3
<1> QED BY <1>11, <1>12, <1>14, <1>15, <1>16 DEF CopyInv

LEMMA CopyBegin ==
  ASSUME IInv, CopyInv, NEW s \in Senders, Begin(s)
  PROVE  CopyInv'
<1>1. /\ Types /\ board' = board /\ tally'.lost = tally.lost /\ version' = version + 1
      /\ version \in Nat /\ tally.lost \in Nat
  BY DEF Begin, IInv, Types
<1>2. /\ sends'[s].version = version + 1
      /\ \A o \in Senders : o # s => sends'[o] = sends[o]
  BY <1>1 DEF Begin, Types, Idle
<1>3. \A v : Copies(v)' = Copies(v)
  BY <1>1 DEF Copies
<1>4. \A id \in Ids : board[id].version \in Nat /\ board[id].version <= version
  BY <1>1 DEF CopyInv, Types, Message
<1>5. \A o \in Senders : sends[o].version \in Nat /\ sends[o].version <= version
  BY <1>1 DEF CopyInv, Types, SendRecord
<1>6. Copies(version + 1) = {}
  BY <1>1, <1>4 DEF Copies
<1>7. Cardinality(Copies(version + 1)) = 0
  BY <1>6, FS_EmptySet
<1>8. \A id \in Ids : board'[id].version <= version'
  BY <1>1, <1>4
<1>9. \A o \in Senders : sends'[o].version <= version'
  BY <1>1, <1>2, <1>5
<1>10. \A o, q \in Senders : sends'[o].at = "call" /\ sends'[q].at = "call" /\ o # q =>
         sends'[o].version # sends'[q].version
  BY <1>1, <1>2, <1>5 DEF CopyInv
<1>11. ASSUME NEW o \in Senders, sends'[o].at = "call"
       PROVE  Cardinality(Copies(sends'[o].version)) <= tally'.lost
  <2>1. CASE o = s
    BY <1>1, <1>2, <1>7, <2>1
  <2>2. CASE o # s
    BY <1>1, <1>2, <1>11, <2>2 DEF CopyInv
  <2> QED BY <2>1, <2>2
<1>12. \A v \in Nat \ {0} : Cardinality(Copies(v)) <= 1 + tally'.lost
  BY <1>1 DEF CopyInv
<1> QED BY <1>1, <1>8, <1>9, <1>10, <1>11, <1>12 DEF CopyInv, Copies

LEMMA CopyStep == IInv /\ CopyInv /\ [Next]_vars => CopyInv'
<1> SUFFICES ASSUME IInv, CopyInv, [Next]_vars PROVE CopyInv'
  OBVIOUS
<1>1. Types /\ sends \in [Senders -> SendRecord] /\ board \in [Ids -> Message]
  BY DEF IInv, Types
<1>2. ASSUME NEW s \in Senders, Call(s) PROVE CopyInv'
  <2>1. PICK id \in Ids : Apply(sends[s], id) /\ sends' = [sends EXCEPT ![s] = Succeeded(sends[s], id)]
    BY <1>2 DEF Call
  <2>2. PICK i \in SendRecord : i = sends[s]
    BY <1>1
  <2>3. PICK ref \in Nat : ref = IF target.backend \in ByTag THEN NoRef ELSE id
    BY SendersAssumption DEF NoRef, Ids
  <2>4. PICK j \in SendRecord : j = [i EXCEPT !.at = "back", !.ok = TRUE, !.ref = ref]
    BY DEF SendRecord
  <2>5. j = Succeeded(sends[s], id) /\ j.at = "back" /\ j.version = i.version
    BY <2>2, <2>3, <2>4 DEF Succeeded, SendRecord
  <2>6. tally'.lost = tally.lost /\ tally.lost \in Nat /\ version' = version /\ sends[s].at = "call"
    BY <1>1, <1>2 DEF Call, Types
  <2> QED BY <2>1, <2>2, <2>5, <2>6, CopiesCalled
<1>3. ASSUME NEW s \in Senders, CallUnanswered(s) PROVE CopyInv'
  <2>1. PICK id \in Ids : Apply(sends[s], id)
    BY <1>3 DEF CallUnanswered
  <2>2. sends[s] \in SendRecord /\ sends[s].at = "call"
    BY <1>1, <1>3 DEF CallUnanswered
  <2>3. PICK j \in SendRecord : j = Answered(sends[s], "none") /\ j.version = sends[s].version
    BY <1>1, <2>2, AnswerTypes
  <2>4. tally'.lost = tally.lost + 1 /\ tally.lost \in Nat /\ version' = version
    BY <1>1, <1>3 DEF CallUnanswered, Types
  <2>5. tally'.lost \in Nat
    BY <2>4
  <2>6. sends' = [sends EXCEPT ![s] = j]
    BY <1>3, <2>3 DEF CallUnanswered
  <2> QED BY <2>1, <2>2, <2>3, <2>4, <2>5, <2>6, CopiesCalled
<1>4. ASSUME NEW s \in Senders, NEW j \in SendRecord, sends' = [sends EXCEPT ![s] = j],
             j.version \in {0, sends[s].version},
             j.at = "call" => sends[s].at = "call" /\ j.version = sends[s].version,
             UNCHANGED <<board, version, tally>>
      PROVE  CopyInv'
  <2>1. sends'[s] = j /\ \A o \in Senders : o # s => sends'[o] = sends[o]
    BY <1>1, <1>4
  <2> QED BY <1>4, <2>1, CopiesKept
<1>5. ASSUME NEW s \in Senders, CallFails(s) PROVE CopyInv'
  <2>1. PICK a : sends' = [sends EXCEPT ![s] = Answered(sends[s], a)]
    BY <1>5 DEF CallFails
  <2>2. sends[s] \in SendRecord /\ sends[s].at = "call"
    BY <1>1, <1>5 DEF CallFails
  <2>3. PICK j \in SendRecord : j = Answered(sends[s], a) /\ j.version = sends[s].version
    BY <1>1, <2>2, AnswerTypes
  <2>4. sends' = [sends EXCEPT ![s] = j] /\ UNCHANGED <<board, version, tally>>
    BY <1>5, <2>1, <2>3 DEF CallFails
  <2> QED BY <1>4, <2>2, <2>3, <2>4
<1>6. ASSUME NEW s \in Senders, GiveUp(s) PROVE CopyInv'
  <2>1. PICK i \in SendRecord : i = sends[s]
    BY <1>1
  <2>2. PICK j \in SendRecord : j = Failed(i)
    BY DEF Failed, SendRecord
  <2>3. j.version = i.version /\ j.at = "back"
    BY <2>2 DEF Failed, SendRecord
  <2> QED BY <1>4, <1>6, <2>1, <2>2, <2>3 DEF GiveUp
<1>7. ASSUME NEW s \in Senders, Return(s) PROVE CopyInv'
  <2>1. PICK j \in SendRecord : j = Idle
    BY DEF Idle, SendRecord, NoRef
  <2>2. j.version = 0 /\ j.at = "idle"
    BY <2>1 DEF Idle
  <2> QED BY <1>4, <1>7, <2>1, <2>2 DEF Return
<1>8. ASSUME NEW id \in Ids, Delete(id) PROVE CopyInv'
  <2>1. \A k \in Ids : board'[k].version = board[k].version
    BY <1>1, <1>8 DEF Delete, Deleted, Message
  <2>2. sends' = sends /\ version' = version /\ tally'.lost = tally.lost
    BY <1>1, <1>8 DEF Delete, Types
  <2> QED BY <2>1, <2>2, CopiesKept
<1>9. CASE UNCHANGED vars
  BY <1>9, CopiesKept DEF vars
<1> QED BY <1>2, <1>3, <1>5, <1>6, <1>7, <1>8, <1>9, CopyBegin DEF Next, Send

LEMMA CopyInit == Init => CopyInv
<1> SUFFICES ASSUME Init PROVE CopyInv
  OBVIOUS
<1>1. version = 0 /\ tally.lost = 0 /\ \A id \in Ids : board[id].version = 0
  BY DEF Init, Unused
<1>2. \A s \in Senders : sends[s].version = 0 /\ sends[s].at = "idle"
  BY DEF Init, Idle
<1>3. ASSUME NEW v \in Nat \ {0} PROVE Cardinality(Copies(v)) = 0
  <2>1. Copies(v) = {}
    BY <1>1 DEF Copies
  <2> QED BY <2>1, FS_EmptySet
<1> QED BY <1>1, <1>2, <1>3 DEF CopyInv

\* Between sends that did not overlap, a review has one message on a target that
\* replaces or edits it, beside those that calls without an answer left there; and
\* each message is on a target once, and once more for each answer lost.
THEOREM OneMessagePerReview == Spec => []OneMessage
<1>1. IInv /\ StrayInv /\ CopyInv => OneMessage
  <2> SUFFICES ASSUME IInv, StrayInv, CopyInv PROVE OneMessage
    OBVIOUS
  <2>1. ASSUME Quiet, target.stage = "review", ~tally.overlapped, Tagged \/ target.backend \in ByRef
        PROVE  Cardinality({id \in Ids : Live(id) /\ id # IF Tagged THEN 1 ELSE record.ref}) <= tally.lost
    <3>1. Steady /\ \A s \in Senders : sends[s].at = "idle"
      BY <2>1 DEF Steady, Calm, Replacing, Quiet
    <3>2. Cardinality(Beside(record.ref)) <= tally.lost
      BY <3>1 DEF StrayInv
    <3> QED BY <3>2 DEF Beside, Place
  <2>2. ASSUME NEW v \in 1..version
        PROVE  Cardinality({id \in Ids : board[id].version = v}) <= 1 + tally.lost
    <3>1. v \in Nat \ {0}
      BY DEF IInv, Types
    <3>2. Cardinality(Copies(v)) <= 1 + tally.lost
      BY <3>1 DEF CopyInv
    <3> QED BY <3>2 DEF Copies
  <2> QED BY <2>1, <2>2 DEF OneMessage
<1>2. Spec => []RingInv
  <2>1. Init /\ [][Next]_vars /\ []IInv => []RingInv
    BY RingInit, RingStep, PTL
  <2> QED BY <2>1, Invariant, PTL DEF Spec
<1>3. Spec => []StrayInv
  <2>1. Init /\ [][Next]_vars /\ []IInv /\ []RingInv => []StrayInv
    BY StrayInit, StrayStep, PTL
  <2> QED BY <2>1, <1>2, Invariant, PTL DEF Spec
<1>4. Spec => []CopyInv
  <2>1. Init /\ [][Next]_vars /\ []IInv => []CopyInv
    BY CopyInit, CopyStep, PTL
  <2> QED BY <2>1, Invariant, PTL DEF Spec
<1> QED BY <1>1, <1>3, <1>4, Invariant, PTL
=============================================================================
