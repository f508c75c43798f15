-------------------------------- MODULE Proxy --------------------------------
(***************************************************************************)
(* The media proxy (media/proxy.go, play.go, Verify of media.go) behind    *)
(* its listener (lib/httpserver).  A request for a media file waits for    *)
(* one of the slots, fetches from Frigate and streams what comes back; the *)
(* slots are a buffered channel, so a slot given back goes at once to the  *)
(* request that has waited longest.                                        *)
(***************************************************************************)
EXTENDS Integers, FiniteSets, SequencesExt

CONSTANTS Requests,
          Slots,          \* upstream fetches at once
          SlotWait,       \* how long a request waits for a slot
          HeaderTimeout,  \* how long Frigate has to answer
          Drain,          \* how long the listener waits for requests at shutdown
          Expiries,       \* when the links of the requests expire
          MaxArrival,     \* bound: the last instant a request or the shutdown comes at
          MaxClock        \* bound: the clock

ASSUME ProxyAssumption ==
  /\ Slots \in Nat \ {0} /\ IsFiniteSet(Requests)
  /\ SlotWait \in Nat /\ HeaderTimeout \in Nat /\ Drain \in Nat
  /\ MaxArrival \in Nat /\ MaxClock \in Nat
  /\ MaxArrival + SlotWait + HeaderTimeout <= MaxClock /\ MaxArrival + Drain <= MaxClock
  /\ Expiries \subseteq Nat

VARIABLES
  clock,
  listener,  \* whether it is "up", "draining" since an instant, or "closed"
  slots,     \* the tokens in the channel
  queue,     \* the requests blocked on it
  reqs       \* each request
vars == <<clock, listener, slots, queue, reqs>>

\* What a request asks for: a media file, the clip's player page, or something
\* serve refuses (another method, a malformed path, a link that is not ours).
Asks == {"media", "play", "other"}

Never == 0
NoRequest == [at |-> "none", head |-> FALSE, exp |-> 0, remaining |-> 0, since |-> 0,
              answer |-> "none", until |-> Never]
Active == {r \in Requests : reqs[r].at \in {"waiting", "fetching", "streaming"}}
Holders == {r \in Requests : reqs[r].at \in {"fetching", "streaming"}}

-----------------------------------------------------------------------------
\* A request that is over, with its answer and the instant until which its client
\* may keep it.
Ended(q, answer, until) ==
  [NoRequest EXCEPT !.at = "done", !.exp = q.exp, !.answer = answer, !.until = until]

\* The time left on a link.
Remaining(exp) == exp - clock

\* serve: the answer to a request that asks for a link expiring at exp, or none
\* yet for a media file.
Verdict(ask, exp) ==
  CASE ask = "other" \/ Remaining(exp) <= 0 -> "error"
    [] ask = "play" /\ Remaining(exp) > 0 -> "ok"
    [] ask = "media" /\ Remaining(exp) > 0 -> "none"

\* Fault: an error may be kept as long as the file.
KeptWhatever(q, answer) == clock + q.remaining

\* Only a real response may be kept, for the time left when it was verified.
Kept(q, answer) == IF answer = "ok" THEN clock + q.remaining ELSE Never

\* Fault: a slot given back wakes nobody.
ReleaseUnheard(r, q) ==
  slots' = slots - 1 /\ reqs' = [reqs EXCEPT ![r] = q] /\ UNCHANGED queue

\* A request that held a slot ends as q and hands the slot on.
Release(r, q) ==
  IF queue = <<>>
  THEN slots' = slots - 1 /\ reqs' = [reqs EXCEPT ![r] = q] /\ UNCHANGED queue
  ELSE /\ queue' = Tail(queue) /\ UNCHANGED slots
       /\ reqs' = [reqs EXCEPT ![r] = q, ![Head(queue)].at = "fetching", ![Head(queue)].since = clock]

HasRoom == slots < Slots

-----------------------------------------------------------------------------
\* A request arrives: refused, answered with the player page, or for a slot.
Arrive(r) ==
  /\ listener.at = "up" /\ clock <= MaxArrival /\ reqs[r].at = "none"
  /\ \E ask \in Asks, exp \in Expiries, head \in BOOLEAN :
       LET q == [NoRequest EXCEPT !.head = head, !.exp = exp, !.remaining = Remaining(exp),
                                  !.since = clock]
           answer == Verdict(ask, exp)
       IN CASE answer # "none" ->
                 /\ reqs' = [reqs EXCEPT ![r] = Ended(q, answer, Kept(q, answer))]
                 /\ UNCHANGED <<slots, queue>>
            [] answer = "none" /\ HasRoom ->
                 /\ slots' = slots + 1
                 /\ reqs' = [reqs EXCEPT ![r] = [q EXCEPT !.at = "fetching"]]
                 /\ UNCHANGED queue
            [] answer = "none" /\ ~HasRoom ->
                 /\ queue' = Append(queue, r)
                 /\ reqs' = [reqs EXCEPT ![r] = [q EXCEPT !.at = "waiting"]]
                 /\ UNCHANGED slots
  /\ UNCHANGED <<clock, listener>>

\* Fault: the wait has no end.
WaitsOn(r) == FALSE

\* It has waited its time.
TimesOut(r) == reqs[r].at = "waiting" /\ clock - reqs[r].since >= SlotWait

\* It no longer stands in line.
LeaveQueue(r) == \E i \in DOMAIN queue : queue[i] = r /\ queue' = RemoveAt(queue, i)

\* It is told that the proxy is busy.
TurnAway(r) ==
  /\ TimesOut(r)
  /\ LeaveQueue(r)
  /\ reqs' = [reqs EXCEPT ![r] = Ended(@, "error", Never)]
  /\ UNCHANGED <<clock, listener, slots>>

\* Its client hangs up.
Leave(r) ==
  /\ \/ /\ reqs[r].at = "waiting"
        /\ LeaveQueue(r)
        /\ reqs' = [reqs EXCEPT ![r] = Ended(@, "none", Never)]
        /\ UNCHANGED slots
     \/ reqs[r].at \in {"fetching", "streaming"} /\ Release(r, Ended(reqs[r], "none", Never))
  /\ UNCHANGED <<clock, listener>>

\* Frigate does not answer, or not in time.
FetchFails(r) ==
  /\ reqs[r].at = "fetching"
  /\ Release(r, Ended(reqs[r], "error", Never))
  /\ UNCHANGED <<clock, listener>>

\* Frigate answers, with the file or with an error; a HEAD ends there.
Respond(r) ==
  /\ reqs[r].at = "fetching"
  /\ \E answer \in {"ok", "error"} :
       LET q == Ended(reqs[r], answer, Kept(reqs[r], answer))
       IN IF reqs[r].head THEN Release(r, q)
          ELSE reqs' = [reqs EXCEPT ![r] = [q EXCEPT !.at = "streaming"]] /\ UNCHANGED <<slots, queue>>
  /\ UNCHANGED <<clock, listener>>

\* The body is through, or the upstream's time is up.
StreamEnds(r) ==
  /\ reqs[r].at = "streaming"
  /\ Release(r, [reqs[r] EXCEPT !.at = "done"])
  /\ UNCHANGED <<clock, listener>>

\* RunGraceful: no more requests are taken once the context ends.
Stop ==
  /\ listener.at = "up" /\ clock <= MaxArrival
  /\ listener' = [at |-> "draining", since |-> clock]
  /\ UNCHANGED <<clock, slots, queue, reqs>>

\* Shutdown returns once every request is done, or after its deadline.
Drained == listener.at = "draining" /\ (Active = {} \/ clock - listener.since >= Drain)

\* What is left is cut off.
Close ==
  /\ Drained
  /\ listener' = [listener EXCEPT !.at = "closed"]
  /\ reqs' = [r \in Requests |-> IF r \in Active THEN Ended(reqs[r], "none", Never) ELSE reqs[r]]
  /\ slots' = 0 /\ queue' = <<>>
  /\ UNCHANGED clock

\* Time passes, but not past a timeout that is due.
Tick ==
  /\ clock < MaxClock
  /\ \A r \in Requests :
       /\ ~TimesOut(r)
       /\ reqs[r].at = "fetching" => clock - reqs[r].since < HeaderTimeout
  /\ listener.at = "draining" => clock - listener.since < Drain
  /\ clock' = clock + 1
  /\ UNCHANGED <<listener, slots, queue, reqs>>

Init ==
  /\ clock = 0
  /\ listener = [at |-> "up", since |-> 0]
  /\ slots = 0 /\ queue = <<>>
  /\ reqs = [r \in Requests |-> NoRequest]

Next ==
  \/ \E r \in Requests : \/ Arrive(r) \/ TurnAway(r) \/ Leave(r) \/ FetchFails(r)
                         \/ Respond(r) \/ StreamEnds(r)
  \/ Stop \/ Close \/ Tick

\* Timers fire, and Frigate answers or times out.  Nothing makes a client read
\* what it is sent: the listener has no write timeout.
Fairness ==
  /\ WF_vars(Tick) /\ WF_vars(Close)
  /\ \A r \in Requests : /\ WF_vars(TurnAway(r)) /\ WF_vars(FetchFails(r) \/ Respond(r))
Spec == Init /\ [][Next]_vars /\ Fairness

-----------------------------------------------------------------------------
\* A token is in the channel for each request that streams, whichever way the
\* others ended, so none leaks and none is given back twice; and a request waits
\* only while every slot is taken, so one that is turned away was refused by load
\* and not by a slot left idle.
SlotsAreKept ==
  /\ slots = Cardinality(Holders) /\ slots <= Slots
  /\ queue # <<>> => slots = Slots
  /\ \A r \in Requests : reqs[r].at = "waiting" <=> Contains(queue, r)

\* What a client may keep of an answer: nothing of an error, and a file for no
\* longer after its link expires than the request waited (forward sets the time
\* left that Verify returned before the wait, though Verify's comment says "the
\* response can be cached for exactly that long").
KeptNoLonger ==
  \A r \in Requests :
    /\ reqs[r].answer # "ok" => reqs[r].until = Never
    /\ reqs[r].until <= reqs[r].exp + SlotWait + HeaderTimeout

\* Every request gets its answer begun or is turned away, even while clients that
\* stopped reading hold every slot; and a listener that is told to stop does,
\* whatever its clients do.
NobodyWaitsForEver ==
  /\ \A r \in Requests :
       reqs[r].at \in {"waiting", "fetching"} ~> reqs[r].at \in {"streaming", "done"}
  /\ listener.at = "draining" ~> listener.at = "closed"
=============================================================================
