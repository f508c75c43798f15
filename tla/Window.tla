------------------------------- MODULE Window -------------------------------
(***************************************************************************)
(* Hours windows (config/window.go): how an endpoint is written and what   *)
(* it means, and whether an instant falls in a window.  Times of day are   *)
(* counted from midnight in units of which an hour has Minutes.            *)
(***************************************************************************)
EXTENDS Integers, Sequences

CONSTANT Minutes   \* units in an hour; 60 in the code

ASSUME MinutesAssumption == Minutes \in Nat \ {0}

Day == 24 * Minutes
SolarEvents == {"sunrise", "sunset", "dawn", "dusk"}

\* What the sun does today.
SolarTimes == [SolarEvents -> 0..Day-1]

-----------------------------------------------------------------------------
\* The forms an endpoint may be written in, with the numbers two digits can
\* spell: "6:30", "06:30pm", "noon", "dusk-1h".
Spellings ==
  [form : {"24h"}, hour : Nat, minute : Nat, half : {"none"}]
    \cup [form : {"12h"}, hour : Nat, minute : Nat, half : {"am", "pm"}]
    \cup [form : {"named"}, word : {"noon", "midnight"}]
    \cup [form : {"solar"}, event : SolarEvents, offset : Int]
    \cup [form : {"other"}]

Clock(at) == [kind |-> "clock", at |-> at]
Solar(event, offset) == [kind |-> "solar", event |-> event, offset |-> offset]
Invalid == [kind |-> "invalid"]

\* Is the spelling a time of day?
OnTheClock(s) ==
  \/ s.form = "24h" /\ s.hour <= 23 /\ s.minute < Minutes
  \/ s.form = "12h" /\ s.hour \in 1..12 /\ s.minute < Minutes

\* The hour of day of a 12-hour spelling: twelve comes before one.
HourOf(s) ==
  CASE s.half = "pm" /\ s.hour # 12 -> s.hour + 12
    [] s.half = "am" /\ s.hour = 12 -> 0
    [] OTHER -> s.hour

ParseEndpoint(s) ==
  CASE s.form \in {"24h", "12h"} ->
         IF OnTheClock(s) THEN Clock(HourOf(s) * Minutes + s.minute) ELSE Invalid
    [] s.form = "named" -> Clock(IF s.word = "noon" THEN 12 * Minutes ELSE 0)
    [] s.form = "solar" -> Solar(s.event, s.offset)
    [] s.form = "other" -> Invalid

\* Go's remainder takes the sign of the dividend; TLA+'s is never negative.
Remainder(d, m) == IF d >= 0 THEN d % m ELSE -((-d) % m)

\* Fault: what is before midnight stays there.
RemainderOfDay(d) == Remainder(d, Day)

NormalizeDay(d) ==
  LET r == Remainder(d, Day) IN IF r < 0 THEN r + Day ELSE r

Resolve(e, sun) ==
  IF e.kind = "clock" THEN e.at ELSE NormalizeDay(sun[e.event] + e.offset)

-----------------------------------------------------------------------------
NeedsSolar(w) == w.from.kind = "solar" \/ w.to.kind = "solar"

\* Is n between from and to, both included, on a clock that wraps at midnight?
Between(from, to, n) ==
  IF from <= to THEN n >= from /\ n <= to ELSE n >= from \/ n <= to

Contains(w, n, sun) == Between(Resolve(w.from, sun), Resolve(w.to, sun), n)
=============================================================================
