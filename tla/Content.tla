------------------------------- MODULE Content -------------------------------
(***************************************************************************)
(* What a notification says and carries: the media candidates of a review  *)
(* and how they are probed and linked (notifier/presets.go, media/probe.go)*)
(* and which links the media proxy accepts (media/media.go).  Something    *)
(* that may be absent is a set of at most one member.                      *)
(*                                                                         *)
(* A review has the second it started, the second it ended if it has, and  *)
(* the event behind it if there is one.  Frigate's answer for a kind of    *)
(* media is what it answers and how many seconds that takes.               *)
(***************************************************************************)
EXTENDS Integers, Sequences, FiniteSets

CONSTANTS ProbeBudget,       \* mediaProbeBudget
          ClipProbe,         \* clipProbeTimeout
          StillProbe,        \* stillProbeTimeout
          PadBefore, PadAfter, MaxSpan   \* of a clip

ASSUME ProbeAssumption == {ProbeBudget, ClipProbe, StillProbe} \subseteq Nat \ {0}
\* The limits of a clip and of two stills "together fit the budget".
ASSUME BudgetAssumption == ClipProbe + 2 * StillProbe <= ProbeBudget
ASSUME ClipAssumption == {PadBefore, PadAfter, MaxSpan} \subseteq Nat

Kinds == {"clip", "preview", "snapshot", "play", "vod"}

-----------------------------------------------------------------------------
\* A clip covers the review and the padding around it.
ClipId(start, end) == [start |-> start - PadBefore, end |-> end + PadAfter]

ParsesAsClip(id) == id.start > 0 /\ id.end > id.start /\ id.end - id.start <= MaxSpan

\* Whether id is well formed for a kind; the id of a still always is.
Accepts(kind, id) == kind \in {"clip", "play", "vod"} => ParsesAsClip(id)

\* Fault: a link to an id nobody looked at.
LinkOfAny(kind, id, exp) == {[kind |-> kind, id |-> id, exp |-> exp]}

\* The signed link to a piece of media, none if it has no well-formed id.
Link(kind, id, exp) ==
  {[kind |-> k, id |-> id, exp |-> exp] : k \in {k \in {kind} : k # "vod" /\ Accepts(k, id)}}

\* What the proxy makes of a link at time now; a link nobody signed is refused
\* before its expiry is looked at.
Verify(link, signed, now) ==
  IF ~Accepts(link.kind, link.id) THEN "malformed"
  ELSE IF link \notin signed THEN "bad signature"
  ELSE IF link.exp <= now THEN "expired" ELSE "served"

\* The links of a player page, which expire with the page.
PlayerLinks(page) == {[page EXCEPT !.kind = k] : k \in {"vod", "clip"}}

-----------------------------------------------------------------------------
\* What could be attached, best first; a clip exists only after the end.
MediaCandidates(review, phase) ==
  LET If(cond, c) == IF cond THEN <<c>> ELSE <<>>
      end == CHOOSE t \in review.end \cup {0} : review.end = {} \/ t \in review.end
  IN If(phase = "end" /\ review.end # {},
        [kind |-> "clip", id |-> ClipId(review.start, end)])
     \o If(phase = "end", [kind |-> "preview", id |-> "review"])
     \o If(review.event # {}, [kind |-> "snapshot", id |-> "event"])

\* Fault: each probe may take what there is.
TimeoutOfBudget(kind) == ProbeBudget

Timeout(kind) == IF kind = "clip" THEN ClipProbe ELSE StillProbe

Least(a, b) == IF a <= b THEN a ELSE b

\* The seconds a probe may take when so much of the budget is spent.
Allowed(kind, spent) == Least(Timeout(kind), ProbeBudget - spent)

\* Frigate streams a clip without its length, so a size is known by reading to
\* one byte past the limit; a failure may be a 200 with another type of body.
Probe(cand, answer, allowed) ==
  IF ~Accepts(cand.kind, cand.id) THEN "malformed"
  ELSE IF answer.takes >= allowed THEN "timeout" ELSE answer.says

\* The seconds a probe takes.
Takes(cand, answer, allowed) ==
  IF Accepts(cand.kind, cand.id) THEN Least(answer.takes, allowed) ELSE 0

\* What the text preset probes is the clip, for the link to its page.
Wanted(review, phase, preset) ==
  LET all == MediaCandidates(review, phase) IN
  IF preset # "text" THEN all
  ELSE IF all # <<>> /\ all[1].kind = "clip" THEN <<all[1]>> ELSE <<>>

\* The seconds spent before each candidate is probed, one after the other.
Spent(cands, answers) ==
  LET spent[i \in 1..Len(cands)] ==
        IF i = 1 THEN 0
        ELSE spent[i-1] + Takes(cands[i-1], answers[cands[i-1].kind],
                                Allowed(cands[i-1].kind, spent[i-1]))
  IN spent

\* What the probes of the candidates say; without a prober everything exists and
\* fits.
Checks(cands, answers, prober) ==
  [i \in 1..Len(cands) |->
     IF ~prober THEN "fits"
     ELSE Probe(cands[i], answers[cands[i].kind],
                Allowed(cands[i].kind, Spent(cands, answers)[i]))]

\* The media of a notification: the clip's page if the clip exists, and what
\* fits, the first still as the image.
BuildContent(review, phase, preset, signer, prober, answers, exp) ==
  LET cands == IF signer THEN Wanted(review, phase, preset) ELSE <<>>
      check == Checks(cands, answers, prober)
      attach == preset # "text"
      Signed(i) == Link(cands[i].kind, cands[i].id, exp)
      Fitting(kinds) == {i \in DOMAIN cands : cands[i].kind \in kinds /\ check[i] = "fits"
                                                /\ attach /\ Signed(i) # {}}
      First(S) == {i \in S : \A j \in S : i <= j}
  IN [video |-> UNION {Signed(i) : i \in Fitting({"clip"})},
      image |-> UNION {Signed(i) : i \in First(Fitting({"preview", "snapshot"}))},
      snapshot |-> UNION {Signed(i) : i \in Fitting({"snapshot"})},
      clipUrl |-> UNION {Link("play", cands[i].id, exp) :
                           i \in {i \in DOMAIN cands : cands[i].kind = "clip"
                                    /\ check[i] \in {"fits", "too large"}}}]

-----------------------------------------------------------------------------
\* The GenAI summary of a review: absent without a title and a summary.
GenAI(title, summary) == {[title |-> title, summary |-> summary] :
                            m \in {m \in {1} : title \cup summary # {}}}

\* The body of a notification as the parts it is made of: a headline, which is
\* the title of the GenAI summary if it has one, and a detail, which is that
\* summary or else the description of the object.
Compose(labels, description, genAI) ==
  LET titles == UNION {m.title : m \in genAI}
      summaries == UNION {m.summary : m \in genAI}
      headline == IF titles # {} THEN titles ELSE labels
      detail == IF summaries # {} THEN summaries ELSE description
  IN IF detail # {} /\ genAI = {} THEN detail ELSE headline \cup detail
=============================================================================
