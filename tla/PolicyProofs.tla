---------------------------- MODULE PolicyProofs ----------------------------
(***************************************************************************)
(* The hourly cap and the digest, for every set of callers, recipients,    *)
(* cameras and hours and every bound.                                      *)
(*                                                                         *)
(* Each backend counts a verdict once, but for the counts that were sent a *)
(* second time, so neither count exceeds the two together (CountsAsked): a *)
(* count past the cap means that the cap had been let through or counted   *)
(* again.  As long as the primary answers, it counts every push let        *)
(* through (AllowedIsCounted).  Digests are paid for by the intervals that *)
(* passed (SpacedInv), and what is held back is in the digest or told      *)
(* while goroutines take turns (TurnInv).                                  *)
(***************************************************************************)
EXTENDS Policy, FiniteSetTheorems, TLAPS

-----------------------------------------------------------------------------
(***************************************************************************)
(* What the operators of FailOpen keep.                                    *)
(***************************************************************************)
\* The caller is answered by one of the backends.
LEMMA AnswerType == \A w : Answer(w) \in Backends
  BY DEF Answer, Backends

\* A table keeps its type when it is rewritten where an operation took effect.
LEMMA AppliedType ==
  ASSUME NEW S, NEW table \in [Backends -> S], NEW w, NEW v \in [Backends -> S]
  PROVE  Applied(table, w, v) \in [Backends -> S]
  BY DEF Applied

\* So does a keyed table.
LEMMA WrittenType ==
  ASSUME NEW K, NEW V, NEW table \in [Backends -> [K -> V]], NEW w,
         NEW key \in K, NEW val \in V
  PROVE  Written(table, w, key, val) \in [Backends -> [K -> V]]
  BY DEF Written, Applied

\* And a table after a restart.
LEMMA SurvivesType ==
  ASSUME NEW S, NEW table \in [Backends -> S], NEW empty \in S
  PROVE  Survives(table, empty) \in [Backends -> S]
  BY DEF Survives

\* An operation never overdraws the bound on primary failures.
LEMMA SpendType ==
  ASSUME NEW ctx \in BOOLEAN, NEW faults \in Nat, NEW w \in Reach(ctx, faults)
  PROVE  Spend(ctx, faults, w) \in Nat
  BY DEF Spend, Reach

-----------------------------------------------------------------------------
LEMMA BlankType == Blank \in Job
  BY PolicyAssumption DEF Blank, Job, Hours

LEMMA BudgetType ==
  ASSUME NEW b \in Budget
  PROVE  /\ b.asks > 0 => [b EXCEPT !.asks = @ - 1] \in Budget
         /\ b.faults > 0 => [b EXCEPT !.faults = @ - 1] \in Budget
         /\ b.sends > 0 => [b EXCEPT !.sends = @ - 1] \in Budget
         /\ b.expiries > 0 => [b EXCEPT !.expiries = @ - 1] \in Budget
         /\ b.lapses > 0 => [b EXCEPT !.lapses = @ - 1] \in Budget
         /\ b.restarts > 0 => [b EXCEPT !.restarts = @ - 1] \in Budget
  BY DEF Budget

LEMMA KeyType ==
  ASSUME TypeOK, NEW p \in Callers
  PROVE  KeyOf(p) \in Keys /\ job[p].entry \in Nat /\ job[p].to \in Recipients
         /\ job[p].hour \in Hours /\ HourName[job[p].hour] \in Names
  BY DEF TypeOK, KeyOf, Keys, Job, Names

LEMMA CallsType ==
  ASSUME TypeOK, NEW w, Calls(w)
  PROVE  budget' \in Budget /\ fellBack' \in BOOLEAN
<1>1. Spend(canceled, budget.faults, w) \in Nat
  BY SpendType DEF TypeOK, Calls, Budget
<1> QED BY <1>1 DEF TypeOK, Calls, Budget

LEMMA GotoType ==
  ASSUME TypeOK, NEW p \in Callers, NEW l \in PcValues, Goto(p, l)
  PROVE  pc' \in [Callers -> PcValues]
  BY DEF TypeOK, Goto

LEMMA CountedType ==
  ASSUME TypeOK, NEW p \in Callers, NEW b \in Backends, Counted(p, b)
  PROVE  job' \in [Callers -> Job]
<1>1. Found(p, b) \in Nat
  BY KeyType DEF TypeOK, Found
<1>2. job[p] \in Job /\ job \in [Callers -> Job]
  BY DEF TypeOK
<1>3. [job[p] EXCEPT !.entry = Found(p, b) + 1] \in Job
  BY <1>1, <1>2 DEF Job
<1>4. job' = [job EXCEPT ![p] = [job[p] EXCEPT !.entry = Found(p, b) + 1]]
  BY DEF Counted
<1> QED BY <1>2, <1>3, <1>4

LEMMA IncrementedType ==
  ASSUME TypeOK, NEW p \in Callers, NEW w
  PROVE  Incremented(p, w) \in [Backends -> [Recipients -> [Names -> Nat]]]
<1> DEFINE r == job[p].to  h == job[p].hour
           counted == [b \in Backends |-> [rate[b] EXCEPT ![r][HourName[h]] = @ + 1]]
           Rate == [Recipients -> [Names -> Nat]]
<1>1. r \in Recipients /\ HourName[h] \in Names
  BY KeyType
<1>2. counted \in [Backends -> Rate]
  BY <1>1 DEF TypeOK
<1>3. rate \in [Backends -> Rate]
  BY DEF TypeOK
<1>4. Incremented(p, w) = Applied(rate, w, counted)
  BY DEF Incremented
<1> HIDE DEF counted, Rate
<1>5. Applied(rate, w, counted) \in [Backends -> Rate]
  BY <1>2, <1>3, AppliedType
<1> QED BY <1>4, <1>5 DEF Rate

LEMMA CountType ==
  ASSUME TypeOK, NEW p \in Callers, NEW w, Count(p, w)
  PROVE  TypeOK'
<1> DEFINE r == job[p].to  h == job[p].hour
<1>1. budget' \in Budget /\ fellBack' \in BOOLEAN
  BY CallsType DEF Count
<1>2. r \in Recipients /\ h \in Hours /\ HourName[h] \in Names /\ KeyOf(p) \in Keys
  BY KeyType
<1>3. rate' \in [Backends -> [Recipients -> [Names -> Nat]]]
  BY IncrementedType DEF Count
<1>4. asked' \in [Recipients -> [Hours -> Nat]]
  BY <1>2 DEF Count, TypeOK
<1>5. /\ allowed' \in [Recipients -> [Hours -> Nat]]
      /\ held' \in [Keys -> Nat]
  <2>1. allowed \in [Recipients -> [Hours -> Nat]] /\ held \in [Keys -> Nat]
    BY DEF TypeOK
  <2>2. \/ held' = [held EXCEPT ![KeyOf(p)] = @ + 1] /\ allowed' = allowed
        \/ allowed' = [allowed EXCEPT ![r][h] = @ + 1] /\ held' = held
    BY DEF Count
  <2>3. [held EXCEPT ![KeyOf(p)] = @ + 1] \in [Keys -> Nat]
    BY <1>2, <2>1
  <2>4. [allowed EXCEPT ![r][h] = @ + 1] \in [Recipients -> [Hours -> Nat]]
    BY <1>2, <2>1
  <2> QED BY <2>1, <2>2, <2>3, <2>4
<1>6. pc' \in [Callers -> PcValues]
  BY GotoType DEF Count, PcValues
<1> QED BY <1>1, <1>3, <1>4, <1>5, <1>6 DEF Count, TypeOK

LEMMA ResendType ==
  ASSUME TypeOK, NEW p \in Callers, Resend(p)
  PROVE  TypeOK'
<1>1. Unanswered
  BY DEF Resend, ResendCount, ResendWrite, ResendWindow, ResendClear
<1>2. budget' \in Budget
  BY <1>1, BudgetType DEF Unanswered, Resendable, TypeOK
<1>3. KeyOf(p) \in Keys /\ job[p].entry \in Nat /\ job[p].to \in Recipients
      /\ job[p].hour \in Hours
  BY KeyType
<1>4. CASE ResendCount(p)
  <2>1. rate' \in [Backends -> [Recipients -> [Names -> Nat]]]
    BY <1>4, IncrementedType DEF ResendCount
  <2>2. recounted' \in [Recipients -> [Hours -> Nat]]
    BY <1>3, <1>4 DEF ResendCount, TypeOK
  <2> QED BY <1>1, <1>2, <1>4, <2>1, <2>2 DEF ResendCount, Unanswered, TypeOK
<1>5. CASE ResendWrite(p)
  <2>1. digest' \in [Backends -> [Keys -> Nat]]
    BY <1>3, <1>5 DEF ResendWrite, Rewritten, TypeOK
  <2> QED BY <1>1, <1>2, <1>5, <2>1 DEF ResendWrite, Unanswered, TypeOK
<1>6. CASE ResendWindow(p)
  <2>1. [b \in Backends |-> Started(b, KeyOf(p))] \in [Backends -> SUBSET Keys]
    BY <1>3 DEF TypeOK, Started
  <2>2. window' \in [Backends -> SUBSET Keys]
    BY <1>6, <2>1, AppliedType DEF ResendWindow, Opened, TypeOK
  <2> QED BY <1>1, <1>2, <1>6, <2>2 DEF ResendWindow, Unanswered, TypeOK
<1>7. CASE ResendClear(p)
  <2>1. digest' \in [Backends -> [Keys -> Nat]]
    BY <1>3, <1>7, WrittenType DEF ResendClear, TypeOK
  <2> QED BY <1>1, <1>2, <1>7, <2>1 DEF ResendClear, Unanswered, TypeOK
<1> QED BY <1>4, <1>5, <1>6, <1>7 DEF Resend

LEMMA InitType == Init => TypeOK
<1> SUFFICES ASSUME Init PROVE TypeOK
  OBVIOUS
<1>1. job \in [Callers -> Job]
  BY BlankType DEF Init
<1>2. budget \in Budget /\ hour \in Hours
  BY PolicyAssumption DEF Init, Budget, Hours
<1> QED BY <1>1, <1>2 DEF Init, TypeOK, PcValues

LEMMA TypeStep ==
  ASSUME TypeOK, [Next]_vars
  PROVE  TypeOK'
<1>1. ASSUME NEW p \in Callers, NEW r \in Recipients, NEW c \in Cameras,
             NEW settled \in BOOLEAN, Ask(p, r, c, settled)
      PROVE  TypeOK'
  <2>1. budget' \in Budget
    BY <1>1, BudgetType DEF Ask, TypeOK
  <2>2. pc' \in [Callers -> PcValues]
    BY <1>1, GotoType DEF Ask, TypeOK, PcValues
  <2>3. job' \in [Callers -> Job]
    <3>1. [to |-> r, camera |-> c, hour |-> hour, entry |-> 0] \in Job
      BY DEF TypeOK, Job
    <3> QED BY <1>1, <3>1 DEF Ask, TypeOK
  <2> QED BY <1>1, <2>1, <2>2, <2>3 DEF Ask, TypeOK, store, journal
<1>2. ASSUME NEW p \in Callers, Run(p) PROVE TypeOK'
  <2>1. CASE RereadDigest(p)
    <3>1. pc' \in [Callers -> PcValues] /\ job' \in [Callers -> Job]
      BY <2>1, GotoType, CountedType DEF RereadDigest, PcValues, Backends
    <3> QED BY <2>1, <3>1 DEF RereadDigest, TypeOK, store, journal
  <2>2. CASE RewriteDigest(p)
    <3>1. pc' \in [Callers -> PcValues]
      BY <2>2, GotoType DEF RewriteDigest, PcValues
    <3>2. digest' \in [Backends -> [Keys -> Nat]]
      BY <2>2, KeyType DEF RewriteDigest, Rewritten, TypeOK
    <3> QED BY <2>2, <3>1, <3>2 DEF RewriteDigest, TypeOK, journal
  <2>3. ASSUME NEW out \in BOOLEAN, Tell(p, out) PROVE TypeOK'
    <3>1. pc' \in [Callers -> PcValues]
      BY <2>3, GotoType DEF Tell, PcValues
    <3>2. told' \in [Keys -> Nat] /\ digests' \in [Keys -> Nat]
      <4>1. told \in [Keys -> Nat] /\ digests \in [Keys -> Nat]
        BY DEF TypeOK
      <4>2. /\ [told EXCEPT ![KeyOf(p)] = @ + job[p].entry] \in [Keys -> Nat]
            /\ [digests EXCEPT ![KeyOf(p)] = @ + 1] \in [Keys -> Nat]
        BY <4>1, KeyType
      <4> QED BY <2>3, <4>1, <4>2 DEF Tell
    <3>3. budget' \in Budget
      BY <2>3, BudgetType DEF Tell, TypeOK
    <3> QED BY <2>3, <3>1, <3>2, <3>3 DEF Tell, TypeOK, store
  <2>4. ASSUME NEW w, Count(p, w) PROVE TypeOK'
    BY <2>4, CountType
  <2>5. ASSUME NEW w, ReadDigest(p, w) PROVE TypeOK'
    <3>1. pc' \in [Callers -> PcValues]
      BY <2>5, GotoType DEF ReadDigest, PcValues
    <3>2. job' \in [Callers -> Job]
      BY <2>5, CountedType DEF ReadDigest, Backends, TypeOK
    <3> QED BY <2>5, <3>1, <3>2, CallsType DEF ReadDigest, TypeOK, store, journal
  <2>6. ASSUME NEW w, WriteDigest(p, w) PROVE TypeOK'
    <3>1. pc' \in [Callers -> PcValues]
      BY <2>6, GotoType DEF WriteDigest, PcValues
    <3>2. digest' \in [Backends -> [Keys -> Nat]]
      BY <2>6, KeyType DEF WriteDigest, Rewritten, TypeOK
    <3> QED BY <2>6, <3>1, <3>2, CallsType DEF WriteDigest, TypeOK, journal
  <2>7. ASSUME NEW w, TryWindow(p, w) PROVE TypeOK'
    <3>1. pc' \in [Callers -> PcValues]
      BY <2>7, GotoType DEF TryWindow, PcValues
    <3>2. window' \in [Backends -> SUBSET Keys]
      <4>1. [b \in Backends |-> Started(b, KeyOf(p))] \in [Backends -> SUBSET Keys]
        BY KeyType DEF TypeOK, Started
      <4> QED BY <2>7, <4>1, AppliedType DEF TryWindow, Opened, TypeOK
    <3> QED BY <2>7, <3>1, <3>2, CallsType DEF TryWindow, TypeOK, journal
  <2>8. ASSUME NEW w, ClearDigest(p, w) PROVE TypeOK'
    <3>1. pc' \in [Callers -> PcValues]
      BY <2>8, GotoType DEF ClearDigest, PcValues
    <3>2. digest' \in [Backends -> [Keys -> Nat]]
      BY <2>8, KeyType, WrittenType DEF ClearDigest, TypeOK
    <3> QED BY <2>8, <3>1, <3>2, CallsType DEF ClearDigest, TypeOK, journal
  <2> QED BY <1>2, <2>1, <2>2, <2>3, <2>4, <2>5, <2>6, <2>7, <2>8 DEF Run
<1>3. CASE ExpireWindow
  <2>1. budget' \in Budget
    BY <1>3, BudgetType DEF ExpireWindow, TypeOK
  <2>2. window' \in [Backends -> SUBSET Keys]
    BY <1>3 DEF ExpireWindow, TypeOK
  <2> QED BY <1>3, <2>1, <2>2 DEF ExpireWindow, TypeOK, journal
<1>4. CASE ExpireDigest
  <2>1. budget' \in Budget
    BY <1>4, BudgetType DEF ExpireDigest, TypeOK
  <2>2. digest' \in [Backends -> [Keys -> Nat]]
    BY <1>4 DEF ExpireDigest, TypeOK
  <2> QED BY <1>4, <2>1, <2>2 DEF ExpireDigest, TypeOK, journal
<1>5. CASE Tick
  <2>1. hour' \in Hours
    BY <1>5, PolicyAssumption DEF Tick, TypeOK, Hours
  <2> QED BY <1>5, <2>1 DEF Tick, TypeOK, store, journal
<1>6. CASE Shutdown
  BY <1>6 DEF Shutdown, TypeOK, store, journal
<1>7. CASE Restart
  <2>1. budget' \in Budget
    BY <1>7, BudgetType DEF Restart, TypeOK
  <2>2. job' \in [Callers -> Job] /\ pc' \in [Callers -> PcValues]
    BY <1>7, BlankType DEF Restart, PcValues
  <2>3. rate' \in [Backends -> [Recipients -> [Names -> Nat]]]
    <3>1. [r \in Recipients |-> [k \in Names |-> 0]] \in [Recipients -> [Names -> Nat]]
      OBVIOUS
    <3> QED BY <1>7, <3>1, SurvivesType DEF Restart, TypeOK
  <2>4. digest' \in [Backends -> [Keys -> Nat]]
    <3>1. [k \in Keys |-> 0] \in [Keys -> Nat]
      OBVIOUS
    <3> QED BY <1>7, <3>1, SurvivesType DEF Restart, TypeOK
  <2>5. window' \in [Backends -> SUBSET Keys]
    BY <1>7, SurvivesType DEF Restart, TypeOK
  <2> QED BY <1>7, <2>1, <2>2, <2>3, <2>4, <2>5 DEF Restart, TypeOK, journal
<1>8. ASSUME NEW p \in Callers, Resend(p) PROVE TypeOK'
  BY <1>8, ResendType
<1>9. CASE UNCHANGED vars
  BY <1>9 DEF vars, store, journal, TypeOK
<1> QED BY <1>1, <1>2, <1>3, <1>4, <1>5, <1>6, <1>7, <1>8, <1>9 DEF Next

\* Every variable of the policy keeps its type, for every configuration.
THEOREM PolicyTypeCorrect == Spec => []TypeOK
<1> QED BY InitType, TypeStep, PTL DEF Spec

-----------------------------------------------------------------------------
(***************************************************************************)
(* The cap.                                                                *)
(***************************************************************************)
\* No backend has counted more of an hour's verdicts than there were, and than
\* were counted again.
CountsAsked == \A b \in Backends, r \in Recipients, h \in Hours :
  rate[b][r][HourName[h]] <= asked[r][h] + recounted[r][h]

\* While the primary answers, it has counted every push let through.
AllowedIsCounted == HasPrimary /\ ~fellBack =>
  \A r \in Recipients, h \in Hours : allowed[r][h] <= rate["primary"][r][HourName[h]]

\* Every hour has a name of its own: no clock is set back.
NoRepeatedHour == \A g, h \in Hours : HourName[g] = HourName[h] => g = h

\* Only a count changes a verdict; any other step but its resend forgets counts
\* at most, and never those of the primary.
LEMMA OtherSteps ==
  ASSUME TypeOK, [Next]_vars
  PROVE  \/ \E p \in Callers, w \in SUBSET Backends : Count(p, w)
         \/ \E p \in Callers : ResendCount(p)
         \/ /\ UNCHANGED <<asked, allowed, recounted>>
            /\ \A b \in Backends, r \in Recipients, k \in Names :
                 rate'[b][r][k] <= rate[b][r][k]
            /\ HasPrimary => rate'["primary"] = rate["primary"]
            /\ fellBack => fellBack'
<1> DEFINE Kept == /\ UNCHANGED <<asked, allowed, recounted>>
                   /\ \A b \in Backends, r \in Recipients, k \in Names :
                        rate'[b][r][k] <= rate[b][r][k]
                   /\ HasPrimary => rate'["primary"] = rate["primary"]
                   /\ fellBack => fellBack'
<1>1. ASSUME UNCHANGED <<asked, allowed, recounted, rate>>, fellBack => fellBack' PROVE Kept
  <2>1. \A b \in Backends, r \in Recipients, k \in Names : rate[b][r][k] \in Nat
    BY DEF TypeOK
  <2> QED BY <1>1, <2>1
<1>2. ASSUME NEW p \in Callers, Run(p)
      PROVE  (\E w \in SUBSET Backends : Count(p, w)) \/ Kept
  <2>1. \/ \E w \in SUBSET Backends : Count(p, w)
        \/ UNCHANGED <<asked, allowed, recounted, rate>> /\ (fellBack => fellBack')
    BY <1>2 DEF Run, RereadDigest, RewriteDigest, Tell, ReadDigest, WriteDigest,
                TryWindow, ClearDigest, Calls, store, journal
  <2> QED BY <1>1, <2>1
<1>3. CASE Restart
  <2>1. UNCHANGED <<asked, allowed, recounted, fellBack>>
    BY <1>3 DEF Restart, journal
  <2>2. ASSUME NEW b \in Backends, NEW r \in Recipients, NEW k \in Names
        PROVE  rate'[b][r][k] <= rate[b][r][k]
    <3>1. rate[b][r][k] \in Nat
      BY DEF TypeOK
    <3>2. rate'[b] = rate[b] \/ rate'[b][r][k] = 0
      BY <1>3 DEF Restart, Survives
    <3> QED BY <3>1, <3>2
  <2>3. HasPrimary => rate'["primary"] = rate["primary"]
    BY <1>3 DEF Restart, Survives, Backends
  <2> QED BY <2>1, <2>2, <2>3
<1>4. ASSUME NEW p \in Callers, NEW r \in Recipients, NEW c \in Cameras,
             NEW settled \in BOOLEAN, Ask(p, r, c, settled)
      PROVE  Kept
  BY <1>1, <1>4 DEF Ask, store, journal
<1>5. CASE ExpireWindow \/ ExpireDigest
  BY <1>1, <1>5 DEF ExpireWindow, ExpireDigest, journal
<1>6. CASE Tick \/ Shutdown \/ UNCHANGED vars
  BY <1>1, <1>6 DEF Tick, Shutdown, vars, store, journal
<1>7. ASSUME NEW p \in Callers, Resend(p)
      PROVE  ResendCount(p) \/ Kept
  BY <1>1, <1>7 DEF Resend, ResendWrite, ResendWindow, ResendClear, Unanswered
<1> QED BY <1>2, <1>3, <1>4, <1>5, <1>6, <1>7 DEF Next

\* What a count on w does to the numbers of the theorems: it answers n for
\* recipient r and hour h.
Counts(w, r, h, n) ==
  /\ n = rate[Answer(w)][r][HourName[h]] + 1
  /\ asked' = [asked EXCEPT ![r][h] = @ + 1] /\ recounted' = recounted
  /\ \/ n > MaxPerHour[r] /\ allowed' = allowed
     \/ n <= MaxPerHour[r] /\ allowed' = [allowed EXCEPT ![r][h] = @ + 1]
  /\ \A b \in Backends :
       rate'[b] = IF b \in w THEN [rate[b] EXCEPT ![r][HourName[h]] = @ + 1]
                             ELSE rate[b]

LEMMA CountStep ==
  ASSUME TypeOK, NEW p \in Callers, NEW w \in SUBSET Backends, Count(p, w)
  PROVE  \E r \in Recipients, h \in Hours, n \in Nat : Counts(w, r, h, n)
<1> DEFINE r == job[p].to  h == job[p].hour
           n == rate[Answer(w)][r][HourName[h]] + 1
<1>1. r \in Recipients /\ h \in Hours /\ HourName[h] \in Names
  BY KeyType
<1>2. n \in Nat
  BY <1>1, AnswerType DEF TypeOK
<1>3. asked' = [asked EXCEPT ![r][h] = @ + 1] /\ recounted' = recounted
  BY DEF Count
<1>4. \/ n > MaxPerHour[r] /\ allowed' = allowed
      \/ n <= MaxPerHour[r] /\ allowed' = [allowed EXCEPT ![r][h] = @ + 1]
  <2>1. MaxPerHour[r] \in Nat
    BY <1>1, PolicyAssumption
  <2>2. \/ Over(r, n) /\ allowed' = allowed
        \/ ~Over(r, n) /\ allowed' = [allowed EXCEPT ![r][h] = @ + 1]
    BY DEF Count
  <2> HIDE DEF r, h, n
  <2> QED BY <1>2, <2>1, <2>2 DEF Over
<1>5. \A b \in Backends :
        rate'[b] = IF b \in w THEN [rate[b] EXCEPT ![r][HourName[h]] = @ + 1] ELSE rate[b]
  BY DEF Count, Incremented, Applied
<1> HIDE DEF r, h, n
<1>6. n = rate[Answer(w)][r][HourName[h]] + 1
  BY DEF n, r, h
<1> QED BY <1>1, <1>2, <1>3, <1>4, <1>5, <1>6 DEF Counts

\* And what its resend does.
LEMMA ResendCountStep ==
  ASSUME TypeOK, NEW p \in Callers, ResendCount(p)
  PROVE  \E r \in Recipients, h \in Hours :
           /\ UNCHANGED <<asked, allowed, fellBack>>
           /\ recounted' = [recounted EXCEPT ![r][h] = @ + 1]
           /\ rate'["memory"] = rate["memory"]
           /\ rate'["primary"] = [rate["primary"] EXCEPT ![r][HourName[h]] = @ + 1]
<1> DEFINE r == job[p].to  h == job[p].hour
<1>1. r \in Recipients /\ h \in Hours
  BY KeyType
<1>2. /\ UNCHANGED <<asked, allowed, fellBack>>
      /\ recounted' = [recounted EXCEPT ![r][h] = @ + 1]
  BY DEF ResendCount, Unanswered
<1>3. /\ rate'["memory"] = rate["memory"]
      /\ rate'["primary"] = [rate["primary"] EXCEPT ![r][HourName[h]] = @ + 1]
  BY DEF ResendCount, Incremented, Applied, Backends
<1> QED BY <1>1, <1>2, <1>3

LEMMA CountsAskedStep ==
  ASSUME NoRepeatedHour, TypeOK, CountsAsked, HeldOnlyPastTheCap, [Next]_vars
  PROVE  CountsAsked' /\ HeldOnlyPastTheCap'
<1>0. \A g \in Hours : HourName[g] \in Names
  BY DEF Names
<1>1. ASSUME UNCHANGED <<asked, allowed, recounted>>,
             \A b \in Backends, r \in Recipients, k \in Names :
               rate'[b][r][k] <= rate[b][r][k],
             TypeOK'
      PROVE  CountsAsked' /\ HeldOnlyPastTheCap'
  <2>1. HeldOnlyPastTheCap'
    BY <1>1 DEF HeldOnlyPastTheCap
  <2>2. ASSUME NEW b \in Backends, NEW r \in Recipients, NEW h \in Hours
        PROVE  rate'[b][r][HourName[h]] <= asked'[r][h] + recounted'[r][h]
    <3>1. rate'[b][r][HourName[h]] \in Nat /\ rate[b][r][HourName[h]] \in Nat
          /\ asked[r][h] \in Nat /\ recounted[r][h] \in Nat
      BY <1>0, <1>1 DEF TypeOK
    <3>2. rate[b][r][HourName[h]] <= asked[r][h] + recounted[r][h]
      BY DEF CountsAsked
    <3>3. rate'[b][r][HourName[h]] <= rate[b][r][HourName[h]]
      BY <1>0, <1>1
    <3> QED BY <1>1, <3>1, <3>2, <3>3
  <2> QED BY <2>1, <2>2 DEF CountsAsked
<1>2. ASSUME NEW p \in Callers, NEW w \in SUBSET Backends, Count(p, w)
      PROVE  CountsAsked' /\ HeldOnlyPastTheCap'
  <2>0. PICK r \in Recipients, h \in Hours, n \in Nat : Counts(w, r, h, n)
    BY <1>2, CountStep
  <2>1. /\ n = rate[Answer(w)][r][HourName[h]] + 1
        /\ asked' = [asked EXCEPT ![r][h] = @ + 1] /\ recounted' = recounted
        /\ \/ n > MaxPerHour[r] /\ allowed' = allowed
           \/ n <= MaxPerHour[r] /\ allowed' = [allowed EXCEPT ![r][h] = @ + 1]
        /\ \A b \in Backends :
             rate'[b] = IF b \in w THEN [rate[b] EXCEPT ![r][HourName[h]] = @ + 1]
                                   ELSE rate[b]
    BY <2>0 DEF Counts
  <2>2. ASSUME NEW b \in Backends, NEW s \in Recipients, NEW g \in Hours
        PROVE  rate'[b][s][HourName[g]] <= asked'[s][g] + recounted'[s][g]
    <3>1. /\ rate[b][s][HourName[g]] \in Nat /\ asked[s][g] \in Nat
          /\ recounted[s][g] \in Nat /\ recounted'[s][g] = recounted[s][g]
          /\ rate[b][s][HourName[g]] <= asked[s][g] + recounted[s][g]
      BY <2>1, <1>0 DEF TypeOK, CountsAsked
    <3>2. CASE s = r /\ g = h
      <4>1. asked'[s][g] = asked[s][g] + 1
        BY <2>1, <3>2 DEF TypeOK
      <4>2. rate'[b][s][HourName[g]] \in {rate[b][s][HourName[g]], rate[b][s][HourName[g]] + 1}
        <5>1. rate[b] \in [Recipients -> [Names -> Nat]] /\ HourName[g] \in Names
          BY <1>0 DEF TypeOK
        <5>2. rate'[b] = rate[b] \/ rate'[b] = [rate[b] EXCEPT ![s][HourName[g]] = @ + 1]
          BY <2>1, <3>2
        <5> QED BY <5>1, <5>2
      <4> QED BY <3>1, <4>1, <4>2
    <3>3. CASE ~(s = r /\ g = h)
      <4>1. asked'[s][g] = asked[s][g]
        BY <2>1, <3>3 DEF TypeOK
      <4>2. ~(s = r /\ HourName[g] = HourName[h])
        BY <3>3 DEF NoRepeatedHour
      <4>3. rate'[b][s][HourName[g]] = rate[b][s][HourName[g]]
        <5>1. /\ rate[b] \in [Recipients -> [Names -> Nat]]
              /\ HourName[g] \in Names /\ HourName[h] \in Names
          BY <1>0 DEF TypeOK
        <5>2. rate'[b] = rate[b] \/ rate'[b] = [rate[b] EXCEPT ![r][HourName[h]] = @ + 1]
          BY <2>1
        <5> QED BY <4>2, <5>1, <5>2
      <4> QED BY <3>1, <4>1, <4>3
    <3> QED BY <3>2, <3>3
  <2>3. ASSUME NEW s \in Recipients, NEW g \in Hours, allowed'[s][g] < asked'[s][g]
        PROVE  allowed'[s][g] + recounted'[s][g] >= MaxPerHour[s]
    <3>1. /\ allowed[s][g] \in Nat /\ asked[s][g] \in Nat /\ MaxPerHour[s] \in Nat
          /\ recounted[s][g] \in Nat /\ recounted'[s][g] = recounted[s][g]
          /\ rate[Answer(w)][s][HourName[g]] \in Nat
          /\ rate[Answer(w)][s][HourName[g]] <= asked[s][g] + recounted[s][g]
          /\ allowed[s][g] < asked[s][g]
               => allowed[s][g] + recounted[s][g] >= MaxPerHour[s]
      <4>1. allowed[s][g] \in Nat /\ asked[s][g] \in Nat /\ MaxPerHour[s] \in Nat
        BY PolicyAssumption DEF TypeOK
      <4>2. recounted[s][g] \in Nat /\ recounted'[s][g] = recounted[s][g]
        BY <2>1 DEF TypeOK
      <4>3. /\ rate[Answer(w)][s][HourName[g]] \in Nat
            /\ rate[Answer(w)][s][HourName[g]] <= asked[s][g] + recounted[s][g]
        BY <1>0, AnswerType DEF TypeOK, CountsAsked
      <4>4. allowed[s][g] < asked[s][g]
              => allowed[s][g] + recounted[s][g] >= MaxPerHour[s]
        BY DEF HeldOnlyPastTheCap
      <4> QED BY <4>1, <4>2, <4>3, <4>4
    <3>2. CASE s = r /\ g = h
      <4>1. asked'[s][g] = asked[s][g] + 1
        BY <2>1, <3>2 DEF TypeOK
      <4>2. \/ n > MaxPerHour[s] /\ allowed'[s][g] = allowed[s][g]
            \/ n <= MaxPerHour[s] /\ allowed'[s][g] = allowed[s][g] + 1
        BY <2>1, <3>2 DEF TypeOK
      <4>3. n = rate[Answer(w)][s][HourName[g]] + 1
        BY <2>1, <3>2
      <4> QED BY <2>3, <3>1, <4>1, <4>2, <4>3
    <3>3. CASE ~(s = r /\ g = h)
      <4>1. asked'[s][g] = asked[s][g] /\ allowed'[s][g] = allowed[s][g]
        BY <2>1, <3>3 DEF TypeOK
      <4> QED BY <2>3, <3>1, <4>1
    <3> QED BY <3>2, <3>3
  <2> QED BY <2>2, <2>3 DEF CountsAsked, HeldOnlyPastTheCap
<1>3. ASSUME NEW p \in Callers, ResendCount(p), TypeOK'
      PROVE  CountsAsked' /\ HeldOnlyPastTheCap'
  <2>1. PICK r \in Recipients, h \in Hours :
          /\ UNCHANGED <<asked, allowed, fellBack>>
          /\ recounted' = [recounted EXCEPT ![r][h] = @ + 1]
          /\ rate'["memory"] = rate["memory"]
          /\ rate'["primary"] = [rate["primary"] EXCEPT ![r][HourName[h]] = @ + 1]
    BY <1>3, ResendCountStep
  <2>2. ASSUME NEW s \in Recipients, NEW g \in Hours
        PROVE  /\ recounted[s][g] \in Nat /\ recounted'[s][g] \in Nat
               /\ recounted'[s][g] = IF s = r /\ g = h THEN recounted[s][g] + 1
                                                     ELSE recounted[s][g]
    BY <1>3, <2>1 DEF TypeOK
  <2>3. ASSUME NEW b \in Backends, NEW s \in Recipients, NEW g \in Hours
        PROVE  rate'[b][s][HourName[g]] <= asked'[s][g] + recounted'[s][g]
    <3>1. /\ rate[b][s][HourName[g]] \in Nat /\ asked[s][g] \in Nat
          /\ rate[b][s][HourName[g]] <= asked[s][g] + recounted[s][g]
          /\ asked'[s][g] = asked[s][g]
      BY <1>0, <2>1 DEF TypeOK, CountsAsked
    <3>2. rate'[b][s][HourName[g]] = rate[b][s][HourName[g]]
          \/ (/\ rate'[b][s][HourName[g]] = rate[b][s][HourName[g]] + 1
              /\ s = r /\ HourName[g] = HourName[h])
      <4>1. /\ rate[b] \in [Recipients -> [Names -> Nat]]
            /\ HourName[g] \in Names /\ HourName[h] \in Names
        BY <1>0 DEF TypeOK
      <4>2. rate'[b] = rate[b] \/ rate'[b] = [rate[b] EXCEPT ![r][HourName[h]] = @ + 1]
        BY <2>1 DEF Backends
      <4> QED BY <4>1, <4>2
    <3>3. s = r /\ HourName[g] = HourName[h] => s = r /\ g = h
      BY DEF NoRepeatedHour
    <3> QED BY <2>2, <3>1, <3>2, <3>3
  <2>4. ASSUME NEW s \in Recipients, NEW g \in Hours, allowed'[s][g] < asked'[s][g]
        PROVE  allowed'[s][g] + recounted'[s][g] >= MaxPerHour[s]
    <3>1. allowed[s][g] \in Nat /\ MaxPerHour[s] \in Nat
      BY PolicyAssumption DEF TypeOK
    <3>2. allowed'[s][g] = allowed[s][g] /\ asked'[s][g] = asked[s][g]
      BY <2>1
    <3>3. allowed[s][g] + recounted[s][g] >= MaxPerHour[s]
      BY <2>4, <3>2 DEF HeldOnlyPastTheCap
    <3> QED BY <2>2, <3>1, <3>2, <3>3
  <2> QED BY <2>3, <2>4 DEF CountsAsked, HeldOnlyPastTheCap
<1>4. TypeOK'
  BY TypeStep
<1> QED BY <1>1, <1>2, <1>3, <1>4, OtherSteps

\* Unless a clock is set back, the cap holds a push back only after it let
\* MaxPerHour pushes of the hour through, those it counted twice included,
\* whatever the store does: no error, no restart and no answer that was lost
\* holds one back unless the primary's client sent the count again.
THEOREM HeldPastTheCap ==
  ASSUME NoRepeatedHour
  PROVE  Spec => []HeldOnlyPastTheCap
<1>1. Init => CountsAsked /\ HeldOnlyPastTheCap
  BY DEF Init, CountsAsked, HeldOnlyPastTheCap, Names, Backends
<1>2. TypeOK /\ CountsAsked /\ HeldOnlyPastTheCap /\ [Next]_vars
        => CountsAsked' /\ HeldOnlyPastTheCap'
  BY CountsAskedStep
<1> QED BY <1>1, <1>2, PolicyTypeCorrect, PTL DEF Spec

LEMMA CapStep ==
  ASSUME TypeOK, AllowedIsCounted, CapHolds, [Next]_vars
  PROVE  AllowedIsCounted' /\ CapHolds'
<1> SUFFICES ASSUME HasPrimary, ~fellBack'
             PROVE  \A s \in Recipients, g \in Hours :
                      /\ allowed'[s][g] <= rate'["primary"][s][HourName[g]]
                      /\ MaxPerHour[s] > 0 => allowed'[s][g] <= MaxPerHour[s]
  BY DEF AllowedIsCounted, CapHolds
<1> SUFFICES ASSUME NEW s \in Recipients, NEW g \in Hours
             PROVE  /\ allowed'[s][g] <= rate'["primary"][s][HourName[g]]
                    /\ MaxPerHour[s] > 0 => allowed'[s][g] <= MaxPerHour[s]
  OBVIOUS
<1>1. CASE \E p \in Callers, w \in SUBSET Backends : Count(p, w)
  <2>1. PICK p \in Callers, w \in SUBSET Backends : Count(p, w)
    BY <1>1
  <2>2. w = {"primary"} /\ ~fellBack
    BY <2>1 DEF Count, Calls
  <2>3. PICK r \in Recipients, h \in Hours, n \in Nat : Counts(w, r, h, n)
    BY <2>1, CountStep
  <2>4. rate'["primary"] = [rate["primary"] EXCEPT ![r][HourName[h]] = @ + 1]
    BY <2>2, <2>3 DEF Backends, Counts
  <2>5. n = rate["primary"][r][HourName[h]] + 1
    BY <2>2, <2>3 DEF Answer, Counts
  <2>6. /\ allowed[s][g] \in Nat /\ MaxPerHour[s] \in Nat /\ HourName[g] \in Names
        /\ rate["primary"][s][HourName[g]] \in Nat
        /\ allowed[s][g] <= rate["primary"][s][HourName[g]]
        /\ MaxPerHour[s] > 0 => allowed[s][g] <= MaxPerHour[s]
    <3>1. "primary" \in Backends /\ HourName[g] \in Names
      BY DEF Backends, Names
    <3>2. /\ allowed[s][g] \in Nat /\ MaxPerHour[s] \in Nat
          /\ rate["primary"][s][HourName[g]] \in Nat
      BY <3>1, PolicyAssumption DEF TypeOK
    <3>3. /\ allowed[s][g] <= rate["primary"][s][HourName[g]]
          /\ MaxPerHour[s] > 0 => allowed[s][g] <= MaxPerHour[s]
      BY <2>2 DEF AllowedIsCounted, CapHolds
    <3> QED BY <3>1, <3>2, <3>3
  <2>7. CASE s = r /\ g = h
    <3>1. rate'["primary"][s][HourName[g]] = rate["primary"][s][HourName[g]] + 1
      BY <2>4, <2>6, <2>7 DEF TypeOK, Backends
    <3>2. \/ allowed'[s][g] = allowed[s][g]
          \/ n <= MaxPerHour[s] /\ allowed'[s][g] = allowed[s][g] + 1
      BY <2>3, <2>7 DEF TypeOK, Counts
    <3>3. n = rate["primary"][s][HourName[g]] + 1
      BY <2>5, <2>7
    <3> QED BY <2>6, <3>1, <3>2, <3>3
  <2>8. CASE ~(s = r /\ g = h)
    <3>1. allowed'[s][g] = allowed[s][g]
      BY <2>3, <2>8 DEF TypeOK, Counts
    <3>2. rate'["primary"][s][HourName[g]]
            \in {rate["primary"][s][HourName[g]], rate["primary"][s][HourName[g]] + 1}
      BY <2>4, <2>6 DEF TypeOK, Backends
    <3> QED BY <2>6, <3>1, <3>2
  <2> QED BY <2>7, <2>8
<1>2. CASE \E p \in Callers : ResendCount(p)
  <2>1. PICK p \in Callers : ResendCount(p)
    BY <1>2
  <2>2. PICK r \in Recipients, h \in Hours :
          /\ UNCHANGED <<asked, allowed, fellBack>>
          /\ recounted' = [recounted EXCEPT ![r][h] = @ + 1]
          /\ rate'["memory"] = rate["memory"]
          /\ rate'["primary"] = [rate["primary"] EXCEPT ![r][HourName[h]] = @ + 1]
    BY <2>1, ResendCountStep
  <2>3. /\ rate["primary"] \in [Recipients -> [Names -> Nat]] /\ HourName[g] \in Names
        /\ allowed[s][g] \in Nat
    BY DEF TypeOK, Backends, Names
  <2>4. /\ allowed[s][g] <= rate["primary"][s][HourName[g]]
        /\ MaxPerHour[s] > 0 => allowed[s][g] <= MaxPerHour[s]
    BY <2>2 DEF AllowedIsCounted, CapHolds
  <2>5. rate'["primary"][s][HourName[g]]
          \in {rate["primary"][s][HourName[g]], rate["primary"][s][HourName[g]] + 1}
    BY <2>2, <2>3
  <2> QED BY <2>2, <2>3, <2>4, <2>5
<1>3. CASE /\ UNCHANGED <<asked, allowed>>
           /\ HasPrimary => rate'["primary"] = rate["primary"]
           /\ fellBack => fellBack'
  BY <1>3 DEF AllowedIsCounted, CapHolds
<1> QED BY <1>1, <1>2, <1>3, OtherSteps

\* As long as every call on the primary succeeds, nobody gets more pushes in an
\* hour than their cap, whichever goroutines ask and however often the process
\* restarts.
THEOREM CapKept == Spec => []CapHolds
<1>1. Init => AllowedIsCounted /\ CapHolds
  BY PolicyAssumption DEF Init, AllowedIsCounted, CapHolds, Names, Backends
<1>2. TypeOK /\ AllowedIsCounted /\ CapHolds /\ [Next]_vars
        => AllowedIsCounted' /\ CapHolds'
  BY CapStep
<1> QED BY <1>1, <1>2, PolicyTypeCorrect, PTL DEF Spec

-----------------------------------------------------------------------------
(***************************************************************************)
(* The digest.  While no call fails on the usual backend, whoever is past  *)
(* its window is the only one for its key until the window runs out.       *)
(***************************************************************************)
\* The goroutines that took the window of a key and have not told of it yet.
Ready(k) == {p \in Callers : pc[p] \in {"clear", "tell"} /\ KeyOf(p) = k}

SpacedInv == ~fellBack => \A k \in Keys :
  /\ IsFiniteSet(Ready(k))
  /\ digests[k] + Cardinality(Ready(k)) + (IF k \in window[Usual] THEN 0 ELSE 1)
       <= 1 + Intervals

LEMMA UsualType == Usual \in Backends
  BY DEF Usual, Backends

\* As long as nothing fell back, every call takes effect on the usual backend
\* and is answered by it.
LEMMA UsualAnswers ==
  ASSUME NEW w, Calls(w), ~fellBack', TypeOK
  PROVE  w = {Usual} /\ Answer(w) = Usual /\ ~fellBack
<1>1. HasPrimary => w = {"primary"} /\ ~fellBack
  BY DEF Calls
<1>2. ~HasPrimary => w = {"memory"} /\ ~fellBack
  BY DEF Calls, Reach
<1> QED BY <1>1, <1>2 DEF Usual, Answer

LEMMA CallsIntervals ==
  ASSUME NEW w, Calls(w), TypeOK
  PROVE  budget'.expiries = budget.expiries /\ budget'.restarts = budget.restarts
         /\ budget'.lapses = budget.lapses /\ budget'.sends = budget.sends
  BY DEF Calls, TypeOK, Budget

LEMMA IntervalsType == TypeOK => Intervals \in Int
  BY PolicyAssumption DEF TypeOK, Budget, Intervals

\* A goroutine's step moves nobody else.
LEMMA ReadyMoves ==
  ASSUME TypeOK, NEW p \in Callers, NEW l, Goto(p, l),
         \A q \in Callers : q # p => job'[q] = job[q], NEW k
  PROVE  Ready(k)' = IF l \in {"clear", "tell"} /\ KeyOf(p)' = k
                     THEN Ready(k) \cup {p} ELSE Ready(k) \ {p}
<1>1. pc'[p] = l /\ \A q \in Callers : q # p => pc'[q] = pc[q]
  BY DEF Goto, TypeOK
<1>2. \A q \in Callers : q # p => KeyOf(q)' = KeyOf(q)
  BY DEF KeyOf
<1> QED BY <1>1, <1>2 DEF Ready

\* What SpacedInv needs of a step that neither opens a window nor tells.
LEMMA SpacedKept ==
  ASSUME TypeOK, SpacedInv, fellBack => fellBack', UNCHANGED <<window, digests>>,
         budget'.expiries = budget.expiries, budget'.restarts = budget.restarts,
         \A k \in Keys : Ready(k)' = Ready(k)
  PROVE  SpacedInv'
<1>1. Intervals' = Intervals /\ Usual' = Usual
  BY DEF Intervals, Usual
<1> QED BY <1>1 DEF SpacedInv

LEMMA SpacedRun ==
  ASSUME TypeOK, SpacedInv, NEW p \in Callers, Run(p)
  PROVE  SpacedInv'
<1>0. TypeOK' /\ pc[p] \in PcValues
  BY TypeStep DEF Next, TypeOK
<1>1. ASSUME NEW l \in PcValues, Goto(p, l), UNCHANGED <<window, digests>>, fellBack => fellBack',
             budget'.expiries = budget.expiries, budget'.restarts = budget.restarts,
             pc[p] \in {"clear", "tell"} <=> l \in {"clear", "tell"},
             \A q \in Callers : q # p => job'[q] = job[q],
             l \in {"clear", "tell"} => job' = job
      PROVE  SpacedInv'
  <2>1. ASSUME NEW k \in Keys PROVE Ready(k)' = Ready(k)
    <3>1. Ready(k)' = IF l \in {"clear", "tell"} /\ KeyOf(p)' = k
                      THEN Ready(k) \cup {p} ELSE Ready(k) \ {p}
      BY <1>1, ReadyMoves
    <3>2. l \in {"clear", "tell"} => KeyOf(p)' = KeyOf(p)
      BY <1>1 DEF KeyOf
    <3> QED BY <1>1, <3>1, <3>2 DEF Ready
  <2> QED BY <1>1, <2>1, SpacedKept
<1>2. ASSUME NEW b, Counted(p, b)
      PROVE  \A q \in Callers : q # p => job'[q] = job[q]
  BY <1>2 DEF Counted, TypeOK
<1>3. ASSUME NEW w, Count(p, w) \/ ReadDigest(p, w) \/ WriteDigest(p, w) \/ ClearDigest(p, w)
      PROVE  SpacedInv'
  <2>1. /\ budget'.expiries = budget.expiries /\ budget'.restarts = budget.restarts
        /\ fellBack => fellBack'
    BY <1>3, CallsIntervals DEF Count, ReadDigest, WriteDigest, ClearDigest, Calls
  <2>2. CASE Count(p, w)
    <3>1. PICK l \in {"read", "reread", "idle"} : Goto(p, l)
      BY <2>2 DEF Count
    <3> QED BY <1>1, <2>1, <2>2, <3>1 DEF Count, PcValues
  <2>3. CASE ReadDigest(p, w)
    <3>1. PICK l \in {"write", "reread"} : Goto(p, l)
      BY <2>3 DEF ReadDigest
    <3>2. \A q \in Callers : q # p => job'[q] = job[q]
      BY <1>2, <2>3 DEF ReadDigest
    <3> QED BY <1>1, <2>1, <2>3, <3>1, <3>2 DEF ReadDigest, PcValues, store, journal
  <2>4. CASE WriteDigest(p, w)
    <3>1. PICK l \in {"window", "reread"} : Goto(p, l)
      BY <2>4 DEF WriteDigest
    <3> QED BY <1>1, <2>1, <2>4, <3>1 DEF WriteDigest, PcValues, journal
  <2>5. CASE ClearDigest(p, w)
    BY <1>1, <2>1, <2>5 DEF ClearDigest, PcValues, journal
  <2> QED BY <1>3, <2>2, <2>3, <2>4, <2>5
<1>4. CASE RereadDigest(p)
  <2>1. \A q \in Callers : q # p => job'[q] = job[q]
    BY <1>2, <1>4 DEF RereadDigest
  <2> QED BY <1>1, <1>4, <2>1 DEF RereadDigest, PcValues, store, journal
<1>5. CASE RewriteDigest(p)
  BY <1>1, <1>5 DEF RewriteDigest, PcValues, journal
<1>6. ASSUME NEW w, TryWindow(p, w)
      PROVE  SpacedInv'
  <2> SUFFICES ASSUME ~fellBack', NEW k \in Keys
               PROVE  /\ IsFiniteSet(Ready(k)')
                      /\ digests'[k] + Cardinality(Ready(k)')
                           + (IF k \in window'[Usual] THEN 0 ELSE 1) <= 1 + Intervals'
    BY DEF SpacedInv, Usual
  <2>1. /\ w = {Usual} /\ Answer(w) = Usual /\ ~fellBack
        /\ Intervals' = Intervals /\ digests' = digests /\ job' = job
    BY <1>6, UsualAnswers, CallsIntervals DEF TryWindow, Intervals, journal
  <2>2. window'[Usual] = window[Usual] \cup {KeyOf(p)}
    BY <1>6, <2>1, UsualType DEF TryWindow, Opened, Applied, Started
  <2>3. /\ IsFiniteSet(Ready(k))
        /\ digests[k] + Cardinality(Ready(k)) + (IF k \in window[Usual] THEN 0 ELSE 1)
             <= 1 + Intervals
    BY <2>1 DEF SpacedInv
  <2>4. Cardinality(Ready(k)) \in Nat /\ digests[k] \in Nat /\ Intervals \in Int
    BY <2>3, FS_CardinalityType, IntervalsType DEF TypeOK
  <2>5. p \notin Ready(k) /\ KeyOf(p)' = KeyOf(p)
    BY <1>6, <2>1 DEF TryWindow, Ready, KeyOf
  <2>6. CASE KeyOf(p) \in window[Usual] \/ KeyOf(p) # k
    <3>1. PICK l \in {"idle", "clear"} : Goto(p, l) /\ (l = "clear" => KeyOf(p) # k)
      BY <1>6, <2>1, <2>6 DEF TryWindow
    <3>2. Ready(k)' = Ready(k)
      BY <2>1, <2>5, <3>1, ReadyMoves
    <3> QED BY <2>1, <2>2, <2>3, <2>4, <2>6, <3>2
  <2>7. CASE KeyOf(p) \notin window[Usual] /\ KeyOf(p) = k
    <3>1. Goto(p, "clear")
      BY <1>6, <2>1, <2>7 DEF TryWindow
    <3>2. Ready(k)' = Ready(k) \cup {p}
      BY <2>1, <2>5, <2>7, <3>1, ReadyMoves
    <3>3. IsFiniteSet(Ready(k)') /\ Cardinality(Ready(k)') = Cardinality(Ready(k)) + 1
      BY <2>3, <2>5, <3>2, FS_AddElement
    <3> QED BY <2>1, <2>2, <2>3, <2>4, <2>7, <3>3
  <2> QED BY <2>6, <2>7
<1>7. ASSUME NEW out \in BOOLEAN, Tell(p, out)
      PROVE  SpacedInv'
  <2> SUFFICES ASSUME ~fellBack', NEW k \in Keys
               PROVE  /\ IsFiniteSet(Ready(k)')
                      /\ digests'[k] + Cardinality(Ready(k)')
                           + (IF k \in window'[Usual] THEN 0 ELSE 1) <= 1 + Intervals'
    BY DEF SpacedInv, Usual
  <2>1. ~fellBack /\ window' = window /\ job' = job /\ Goto(p, "idle") /\ pc[p] = "tell"
    BY <1>7 DEF Tell, store
  <2>2. budget'.expiries = budget.expiries /\ budget'.restarts = budget.restarts
    BY <1>7 DEF Tell, TypeOK, Budget
  <2>3. Intervals' = Intervals
    BY <2>2 DEF Intervals
  <2>4. /\ IsFiniteSet(Ready(k))
        /\ digests[k] + Cardinality(Ready(k)) + (IF k \in window[Usual] THEN 0 ELSE 1)
             <= 1 + Intervals
    BY <2>1 DEF SpacedInv
  <2>5. Cardinality(Ready(k)) \in Nat /\ digests[k] \in Nat /\ Intervals \in Int
    BY <2>4, FS_CardinalityType, IntervalsType DEF TypeOK
  <2>6. Ready(k)' = Ready(k) \ {p} /\ (p \in Ready(k) <=> KeyOf(p) = k)
    BY <2>1, ReadyMoves DEF Ready
  <2>7. /\ IsFiniteSet(Ready(k)')
        /\ Cardinality(Ready(k)') =
             IF KeyOf(p) = k THEN Cardinality(Ready(k)) - 1 ELSE Cardinality(Ready(k))
    BY <2>4, <2>6, FS_RemoveElement
  <2>8. digests'[k] \in {digests[k], IF KeyOf(p) = k THEN digests[k] + 1 ELSE digests[k]}
    BY <1>7 DEF Tell, TypeOK
  <2> QED BY <2>1, <2>3, <2>4, <2>5, <2>7, <2>8
<1> QED BY <1>3, <1>4, <1>5, <1>6, <1>7 DEF Run

LEMMA SpacedStep ==
  ASSUME TypeOK, SpacedInv, [Next]_vars
  PROVE  SpacedInv'
<1>1. ASSUME NEW p \in Callers, NEW r \in Recipients, NEW c \in Cameras,
             NEW settled \in BOOLEAN, Ask(p, r, c, settled)
      PROVE  SpacedInv'
  <2>1. /\ UNCHANGED <<window, digests, fellBack>>
        /\ budget'.expiries = budget.expiries /\ budget'.restarts = budget.restarts
    BY <1>1 DEF Ask, store, journal, TypeOK, Budget
  <2>2. ASSUME NEW k \in Keys PROVE Ready(k)' = Ready(k)
    <3>1. CASE UNCHANGED <<pc, job>>
      BY <3>1 DEF Ready, KeyOf
    <3>2. CASE ~ UNCHANGED <<pc, job>>
      <4>1. Goto(p, "count") /\ \A q \in Callers : q # p => job'[q] = job[q]
        BY <1>1, <3>2 DEF Ask, TypeOK
      <4> QED BY <1>1, <4>1, ReadyMoves DEF Ask, Ready
    <3> QED BY <3>1, <3>2
  <2> QED BY <2>1, <2>2, SpacedKept
<1>2. ASSUME NEW p \in Callers, Run(p) PROVE SpacedInv'
  BY <1>2, SpacedRun
<1>3. CASE ExpireWindow
  <2>1. PICK b \in Backends : \E d \in window[b] :
          /\ budget.expiries > 0 /\ budget' = [budget EXCEPT !.expiries = @ - 1]
          /\ window' = [window EXCEPT ![b] = @ \ {d}]
    BY <1>3 DEF ExpireWindow
  <2>2. UNCHANGED <<fellBack, pc, job, digests>>
    BY <1>3 DEF ExpireWindow, journal
  <2>3. Intervals' = Intervals + 1
    BY <2>1, PolicyAssumption DEF Intervals, TypeOK, Budget
  <2>4. ASSUME NEW k \in Keys, ~fellBack
        PROVE  /\ IsFiniteSet(Ready(k)')
               /\ digests'[k] + Cardinality(Ready(k)')
                    + (IF k \in window'[Usual] THEN 0 ELSE 1) <= 1 + Intervals'
    <3>1. Ready(k)' = Ready(k)
      BY <2>2 DEF Ready, KeyOf
    <3>2. /\ IsFiniteSet(Ready(k))
          /\ digests[k] + Cardinality(Ready(k)) + (IF k \in window[Usual] THEN 0 ELSE 1)
               <= 1 + Intervals
      BY <2>4 DEF SpacedInv
    <3>3. Cardinality(Ready(k)) \in Nat /\ digests[k] \in Nat /\ Intervals \in Int
      BY <3>2, FS_CardinalityType, IntervalsType DEF TypeOK
    <3> QED BY <2>2, <2>3, <3>1, <3>2, <3>3
  <2> QED BY <2>2, <2>4 DEF SpacedInv, Usual
<1>4. CASE ExpireDigest
  <2>1. /\ UNCHANGED <<window, digests, fellBack, pc, job>>
        /\ budget'.expiries = budget.expiries /\ budget'.restarts = budget.restarts
    BY <1>4 DEF ExpireDigest, journal, TypeOK, Budget
  <2> QED BY <2>1, SpacedKept DEF Ready, KeyOf
<1>5. CASE Tick \/ Shutdown \/ UNCHANGED vars
  <2>1. UNCHANGED <<window, digests, fellBack, pc, job, budget>>
    BY <1>5 DEF Tick, Shutdown, vars, store, journal
  <2> QED BY <2>1, SpacedKept DEF Ready, KeyOf
<1>6. CASE Restart
  <2>1. /\ UNCHANGED <<fellBack, digests>> /\ pc' = [p \in Callers |-> "idle"]
        /\ budget.restarts > 0 /\ budget' = [budget EXCEPT !.restarts = @ - 1]
    BY <1>6 DEF Restart, journal
  <2>2. Intervals' = IF HasPrimary THEN Intervals ELSE Intervals + 1
    BY <2>1, PolicyAssumption DEF Intervals, TypeOK, Budget
  <2>3. HasPrimary => window'[Usual] = window[Usual]
    BY <1>6 DEF Restart, Survives, Usual, Backends
  <2>4. ASSUME NEW k \in Keys, ~fellBack
        PROVE  /\ IsFiniteSet(Ready(k)')
               /\ digests'[k] + Cardinality(Ready(k)')
                    + (IF k \in window'[Usual] THEN 0 ELSE 1) <= 1 + Intervals'
    <3>1. Ready(k)' = {}
      BY <2>1 DEF Ready
    <3>2. IsFiniteSet(Ready(k)') /\ Cardinality(Ready(k)') = 0
      BY <3>1, FS_EmptySet
    <3>3. /\ IsFiniteSet(Ready(k))
          /\ digests[k] + Cardinality(Ready(k)) + (IF k \in window[Usual] THEN 0 ELSE 1)
               <= 1 + Intervals
      BY <2>4 DEF SpacedInv
    <3>4. Cardinality(Ready(k)) \in Nat /\ digests[k] \in Nat /\ Intervals \in Int
      BY <3>3, FS_CardinalityType, IntervalsType DEF TypeOK
    <3> QED BY <2>1, <2>2, <2>3, <3>2, <3>3, <3>4
  <2> QED BY <2>1, <2>4 DEF SpacedInv, Usual
<1>7. ASSUME NEW p \in Callers, Resend(p) PROVE SpacedInv'
  <2>1. Unanswered
    BY <1>7 DEF Resend, ResendCount, ResendWrite, ResendWindow, ResendClear
  <2>2. /\ UNCHANGED <<digests, fellBack, pc, job>>
        /\ budget'.expiries = budget.expiries /\ budget'.restarts = budget.restarts
    BY <2>1 DEF Unanswered, TypeOK, Budget
  <2>3. Intervals' = Intervals
    BY <2>2 DEF Intervals
  <2>4. window[Usual] \subseteq window'[Usual]
    BY <1>7, UsualType DEF Resend, ResendCount, ResendWrite, ResendWindow, ResendClear,
                           Opened, Applied, Started
  <2>5. ASSUME NEW k \in Keys, ~fellBack
        PROVE  /\ IsFiniteSet(Ready(k)')
               /\ digests'[k] + Cardinality(Ready(k)')
                    + (IF k \in window'[Usual] THEN 0 ELSE 1) <= 1 + Intervals'
    <3>1. Ready(k)' = Ready(k)
      BY <2>2 DEF Ready, KeyOf
    <3>2. /\ IsFiniteSet(Ready(k))
          /\ digests[k] + Cardinality(Ready(k)) + (IF k \in window[Usual] THEN 0 ELSE 1)
               <= 1 + Intervals
      BY <2>5 DEF SpacedInv
    <3>3. Cardinality(Ready(k)) \in Nat /\ digests[k] \in Nat /\ Intervals \in Int
      BY <3>2, FS_CardinalityType, IntervalsType DEF TypeOK
    <3> QED BY <2>2, <2>3, <2>4, <3>1, <3>2, <3>3
  <2> QED BY <2>2, <2>5 DEF SpacedInv, Usual
<1> QED BY <1>1, <1>2, <1>3, <1>4, <1>5, <1>6, <1>7 DEF Next

LEMMA SpacedInit == Init => SpacedInv
<1> SUFFICES ASSUME Init, NEW k \in Keys
             PROVE  /\ IsFiniteSet(Ready(k))
                    /\ digests[k] + Cardinality(Ready(k)) + (IF k \in window[Usual] THEN 0 ELSE 1)
                         <= 1 + Intervals
  BY DEF SpacedInv
<1>1. Ready(k) = {}
  BY DEF Init, Ready
<1>2. IsFiniteSet(Ready(k)) /\ Cardinality(Ready(k)) = 0
  BY <1>1, FS_EmptySet
<1>3. Intervals = 0 /\ digests[k] = 0 /\ window[Usual] = {}
  BY PolicyAssumption, UsualType DEF Init, Intervals
<1> QED BY <1>2, <1>3

\* Whichever goroutines ask, a recipient and camera get one digest, and one more
\* for each interval that has passed or that a restart forgot, until a call
\* fails on the primary.
THEOREM DigestsSpaced == Spec => []DigestsAreSpaced
<1>1. TypeOK /\ SpacedInv => DigestsAreSpaced
  <2> SUFFICES ASSUME TypeOK, SpacedInv, ~fellBack, NEW k \in Keys
               PROVE  digests[k] <= 1 + Intervals
    BY DEF DigestsAreSpaced
  <2>1. /\ IsFiniteSet(Ready(k))
        /\ digests[k] + Cardinality(Ready(k)) + (IF k \in window[Usual] THEN 0 ELSE 1)
             <= 1 + Intervals
    BY DEF SpacedInv
  <2>2. Cardinality(Ready(k)) \in Nat /\ digests[k] \in Nat /\ Intervals \in Int
    BY <2>1, FS_CardinalityType, IntervalsType DEF TypeOK
  <2> QED BY <2>1, <2>2
<1>2. TypeOK /\ SpacedInv /\ [Next]_vars => SpacedInv'
  BY SpacedStep
<1> QED BY <1>1, <1>2, SpacedInit, PolicyTypeCorrect, PTL DEF Spec

-----------------------------------------------------------------------------
(***************************************************************************)
(* What the digests tell.  While nothing fails and goroutines take turns   *)
(* past the cap, what was held back for a key is told, or in the entry of  *)
(* the usual backend, or in the hand of the goroutine whose turn it is.    *)
(***************************************************************************)
\* Where a goroutine stands with the key of its verdict.  Its write and its clear
\* may be done already and be sent again.
Holding(p) ==
  LET k == KeyOf(p)
      d == digest[Usual][k]
      e == job[p].entry IN
  \/ pc[p] = "idle"
  \/ pc[p] = "count" /\ e = 0 /\ told[k] + d = held[k]
  \/ pc[p] = (IF HasPrimary THEN "read" ELSE "reread") /\ e = 0 /\ told[k] + d + 1 = held[k]
  \/ pc[p] = (IF HasPrimary THEN "write" ELSE "rewrite") /\ e \in {d, d + 1} /\ told[k] + e = held[k]
  \/ pc[p] = "window" /\ e = d /\ told[k] + e = held[k]
  \/ pc[p] = "clear" /\ d \in {0, e} /\ told[k] + e = held[k]
  \/ pc[p] = "tell" /\ d = 0 /\ told[k] + e = held[k]

Untouched(k) == \A p \in Callers : pc[p] = "idle" \/ KeyOf(p) # k

TurnInv ==
  /\ \A p \in Callers : Holding(p)
  /\ \A k \in Keys : Untouched(k) => told[k] + digest[Usual][k] = held[k]

\* A goroutine's turn is over its own key, and nobody else's.
LEMMA TurnMoves ==
  ASSUME TypeOK, TurnInv, NEW p \in Callers, NEW l, Goto(p, l),
         \A q \in Callers : q # p => pc[q] = "idle",
         pc[p] # "idle", KeyOf(p)' = KeyOf(p),
         \A k \in Keys : k # KeyOf(p) =>
           told'[k] = told[k] /\ held'[k] = held[k] /\ digest'[Usual][k] = digest[Usual][k],
         Holding(p)',
         l = "idle" => told'[KeyOf(p)] + digest'[Usual][KeyOf(p)] = held'[KeyOf(p)]
  PROVE  TurnInv'
<1>1. pc'[p] = l /\ \A q \in Callers : q # p => pc'[q] = "idle"
  BY DEF Goto, TypeOK
<1>2. \A q \in Callers : Holding(q)'
  BY <1>1 DEF Holding
<1>3. ASSUME NEW k \in Keys, Untouched(k)'
      PROVE  told'[k] + digest'[Usual][k] = held'[k]
  <2>1. CASE k = KeyOf(p)
    BY <1>1, <1>3, <2>1 DEF Untouched
  <2>2. CASE k # KeyOf(p)
    <3>1. Untouched(k)
      BY <2>2 DEF Untouched
    <3> QED BY <2>2, <3>1 DEF TurnInv
  <2> QED BY <2>1, <2>2
<1> QED BY <1>2, <1>3 DEF TurnInv, Usual

LEMMA TurnRun ==
  ASSUME TypeOK, TurnInv, Undisturbed, Undisturbed', NEW p \in Callers, Run(p)
  PROVE  TurnInv'
<1> DEFINE k == KeyOf(p)  d == digest[Usual][k]  e == job[p].entry
<1>0. /\ k \in Keys /\ Usual \in Backends /\ Usual' = Usual
      /\ told[k] \in Nat /\ held[k] \in Nat /\ d \in Nat /\ e \in Nat
      /\ ~fellBack /\ ~fellBack' /\ TypeOK'
  BY KeyType, UsualType, TypeStep DEF TypeOK, Undisturbed, Usual, Next
<1>1. pc[p] # "idle" /\ \A q \in Callers : q # p => pc[q] = "idle"
  BY DEF Run, Count, ReadDigest, WriteDigest, RereadDigest, RewriteDigest, TryWindow,
         ClearDigest, Tell, Undisturbed
<1>2. Holding(p)
  BY DEF TurnInv
<1>3. ASSUME NEW w, Count(p, w) PROVE TurnInv'
  <2>1. pc[p] = "count" /\ e = 0 /\ told[k] + d = held[k]
    BY <1>2, <1>3 DEF Holding, Count
  <2>2. UNCHANGED <<told, digest, job>> /\ KeyOf(p)' = k
    BY <1>3 DEF Count, KeyOf
  <2>3. CASE Goto(p, "idle") /\ UNCHANGED held
    <3>1. Holding(p)'
      BY <2>3 DEF Holding, Goto, TypeOK
    <3> QED BY <1>0, <1>1, <2>1, <2>2, <2>3, <3>1, TurnMoves
  <2>4. CASE /\ Goto(p, IF HasPrimary THEN "read" ELSE "reread")
             /\ held' = [held EXCEPT ![k] = @ + 1]
    <3>1. held'[k] = held[k] + 1 /\ \A j \in Keys : j # k => held'[j] = held[j]
      BY <1>0, <2>4 DEF TypeOK
    <3>2. pc'[p] = IF HasPrimary THEN "read" ELSE "reread"
      BY <2>4 DEF Goto, TypeOK
    <3>3. Holding(p)'
      BY <1>0, <2>1, <2>2, <3>1, <3>2 DEF Holding
    <3> QED BY <1>0, <1>1, <2>2, <2>4, <3>1, <3>3, TurnMoves
  <2> QED BY <1>3, <2>3, <2>4 DEF Count
<1>4. ASSUME NEW b, b = Usual, Counted(p, b), UNCHANGED <<told, held, digest>>,
             Goto(p, IF HasPrimary THEN "write" ELSE "rewrite"),
             pc[p] = IF HasPrimary THEN "read" ELSE "reread"
      PROVE  TurnInv'
  <2>1. e = 0 /\ told[k] + d + 1 = held[k]
    BY <1>2, <1>4 DEF Holding
  <2>2. Found(p, b) = d
    BY <1>0, <1>4, <2>1 DEF Found
  <2>3. job'[p] = [job[p] EXCEPT !.entry = d + 1]
    BY <1>4, <2>2 DEF Counted, TypeOK
  <2>4. job'[p].entry = d + 1 /\ KeyOf(p)' = k
    BY <2>3 DEF KeyOf, TypeOK, Job
  <2>5. pc'[p] = IF HasPrimary THEN "write" ELSE "rewrite"
    BY <1>4 DEF Goto, TypeOK
  <2>6. Holding(p)'
    BY <1>0, <1>4, <2>1, <2>4, <2>5 DEF Holding
  <2> QED BY <1>0, <1>1, <1>4, <2>4, <2>6, TurnMoves
<1>5. ASSUME NEW w, ReadDigest(p, w) PROVE TurnInv'
  <2>1. HasPrimary
    BY <1>2, <1>5 DEF Holding, ReadDigest
  <2>2. w = {"primary"}
    BY <1>0, <1>5, <2>1, UsualAnswers DEF ReadDigest, Usual
  <2> QED BY <1>4, <1>5, <2>1, <2>2 DEF ReadDigest, Usual, store, journal
<1>6. CASE RereadDigest(p)
  <2>1. ~HasPrimary
    BY <1>2, <1>6 DEF Holding, RereadDigest
  <2> QED BY <1>4, <1>6, <2>1 DEF RereadDigest, Usual, store, journal
<1>7. ASSUME digest' = [digest EXCEPT ![Usual][k] = e], UNCHANGED <<told, held, job>>,
             Goto(p, "window"), pc[p] = IF HasPrimary THEN "write" ELSE "rewrite"
      PROVE  TurnInv'
  <2>1. told[k] + e = held[k]
    BY <1>2, <1>7 DEF Holding
  <2>2. /\ digest'[Usual][k] = e /\ KeyOf(p)' = k
        /\ \A j \in Keys : j # k => digest'[Usual][j] = digest[Usual][j]
    BY <1>0, <1>7 DEF TypeOK, KeyOf
  <2>3. pc'[p] = "window"
    BY <1>7 DEF Goto, TypeOK
  <2>4. Holding(p)'
    BY <1>0, <1>7, <2>1, <2>2, <2>3 DEF Holding
  <2> QED BY <1>0, <1>1, <1>7, <2>2, <2>4, TurnMoves
<1>8. ASSUME NEW w, WriteDigest(p, w) PROVE TurnInv'
  <2>1. HasPrimary
    BY <1>2, <1>8 DEF Holding, WriteDigest
  <2>2. w = {"primary"}
    BY <1>0, <1>8, <2>1, UsualAnswers DEF WriteDigest, Usual
  <2> QED BY <1>7, <1>8, <2>1, <2>2 DEF WriteDigest, Rewritten, Usual, journal
<1>9. CASE RewriteDigest(p)
  <2>1. ~HasPrimary
    BY <1>2, <1>9 DEF Holding, RewriteDigest
  <2> QED BY <1>7, <1>9, <2>1 DEF RewriteDigest, Rewritten, Usual, journal
<1>10. ASSUME NEW w, TryWindow(p, w) PROVE TurnInv'
  <2>1. e = d /\ told[k] + e = held[k]
    BY <1>2, <1>10 DEF Holding, TryWindow
  <2>2. UNCHANGED <<told, held, digest, job>> /\ KeyOf(p)' = k
    BY <1>10 DEF TryWindow, KeyOf, journal
  <2>3. PICK l \in {"idle", "clear"} : Goto(p, l) /\ pc'[p] = l
    BY <1>10 DEF TryWindow, Goto, TypeOK
  <2>4. Holding(p)'
    BY <1>0, <2>1, <2>2, <2>3 DEF Holding
  <2> QED BY <1>0, <1>1, <2>1, <2>2, <2>3, <2>4, TurnMoves
<1>11. ASSUME NEW w, ClearDigest(p, w) PROVE TurnInv'
  <2>1. told[k] + e = held[k]
    BY <1>2, <1>11 DEF Holding, ClearDigest
  <2>2. UNCHANGED <<told, held, job>> /\ KeyOf(p)' = k
    BY <1>11 DEF ClearDigest, KeyOf, journal
  <2>3. Usual \in w
    BY <1>0, <1>11, UsualAnswers DEF ClearDigest
  <2>4. /\ digest'[Usual][k] = 0
        /\ \A j \in Keys : j # k => digest'[Usual][j] = digest[Usual][j]
    BY <1>0, <1>11, <2>3 DEF ClearDigest, Written, Applied, TypeOK
  <2>5. Goto(p, "tell") /\ pc'[p] = "tell"
    BY <1>11 DEF ClearDigest, Goto, TypeOK
  <2>6. Holding(p)'
    BY <1>0, <2>1, <2>2, <2>4, <2>5 DEF Holding
  <2> QED BY <1>0, <1>1, <2>2, <2>4, <2>5, <2>6, TurnMoves
<1>12. ASSUME NEW out \in BOOLEAN, Tell(p, out) PROVE TurnInv'
  <2>1. d = 0 /\ told[k] + e = held[k]
    BY <1>2, <1>12 DEF Holding, Tell
  <2>2. out
    BY <1>12, PolicyAssumption DEF Tell, Undisturbed, TypeOK, Budget
  <2>3. UNCHANGED <<held, digest, job>> /\ KeyOf(p)' = k
    BY <1>12 DEF Tell, KeyOf, store
  <2>4. told'[k] = told[k] + e /\ \A j \in Keys : j # k => told'[j] = told[j]
    BY <1>0, <1>12, <2>2 DEF Tell, TypeOK
  <2>5. Goto(p, "idle") /\ pc'[p] = "idle"
    BY <1>12 DEF Tell, Goto, TypeOK
  <2>6. Holding(p)'
    BY <2>5 DEF Holding
  <2> QED BY <1>0, <1>1, <2>1, <2>3, <2>4, <2>5, <2>6, TurnMoves
<1> QED BY <1>3, <1>5, <1>6, <1>8, <1>9, <1>10, <1>11, <1>12 DEF Run

LEMMA TurnResend ==
  ASSUME TypeOK, TurnInv, Undisturbed, NEW p \in Callers, Resend(p)
  PROVE  TurnInv'
<1> DEFINE k == KeyOf(p)  d == digest[Usual][k]  e == job[p].entry
<1>1. Unanswered /\ HasPrimary /\ pc[p] # "idle"
  BY ResendsAssumption DEF Resend, ResendCount, ResendWrite, ResendWindow, ResendClear,
                           Unanswered, Resendable
<1>2. /\ UNCHANGED <<pc, job, told, held>> /\ KeyOf(p)' = k
      /\ k \in Keys /\ d \in Nat /\ e \in Nat /\ Usual = "primary" /\ Usual' = Usual
  BY <1>1, KeyType, UsualType DEF Unanswered, KeyOf, TypeOK, Usual
<1>3. \A q \in Callers : q # p => pc[q] = "idle"
  BY <1>1 DEF Undisturbed
<1>4. Holding(p) /\ \A j \in Keys : Untouched(j) => told[j] + digest[Usual][j] = held[j]
  BY DEF TurnInv
<1>5. CASE UNCHANGED digest
  BY <1>2, <1>5 DEF TurnInv, Holding, Untouched, KeyOf, Usual
<1>6. ASSUME \A j \in Keys : j # k => digest'[Usual][j] = digest[Usual][j],
             Holding(p)'
      PROVE  TurnInv'
  <2>1. \A q \in Callers : Holding(q)'
    BY <1>2, <1>3, <1>6 DEF Holding
  <2>2. ASSUME NEW j \in Keys, Untouched(j)'
        PROVE  told'[j] + digest'[Usual][j] = held'[j]
    <3>1. Untouched(j) /\ j # k
      BY <1>1, <1>2, <2>2 DEF Untouched, KeyOf
    <3> QED BY <1>2, <1>4, <1>6, <3>1
  <2> QED BY <1>2, <2>1, <2>2 DEF TurnInv
<1>7. CASE ResendWrite(p)
  <2>1. digest' = [digest EXCEPT !["primary"][k] = e] /\ pc[p] = "write"
    BY <1>7 DEF ResendWrite, Rewritten
  <2>2. digest'[Usual][k] = e /\ \A j \in Keys : j # k => digest'[Usual][j] = digest[Usual][j]
    BY <1>2, <2>1, UsualType DEF TypeOK
  <2>3. told[k] + e = held[k]
    BY <1>4, <2>1 DEF Holding
  <2>4. Holding(p)'
    BY <1>1, <1>2, <2>1, <2>2, <2>3 DEF Holding
  <2> QED BY <1>6, <2>2, <2>4
<1>8. CASE ResendClear(p)
  <2>1. digest' = Written(digest, {"primary"}, k, 0) /\ pc[p] = "clear"
    BY <1>8 DEF ResendClear
  <2>2. digest'[Usual][k] = 0 /\ \A j \in Keys : j # k => digest'[Usual][j] = digest[Usual][j]
    BY <1>2, <2>1, UsualType DEF TypeOK, Written, Applied
  <2>3. told[k] + e = held[k]
    BY <1>4, <2>1 DEF Holding
  <2>4. Holding(p)'
    BY <1>2, <2>1, <2>2, <2>3 DEF Holding
  <2> QED BY <1>6, <2>2, <2>4
<1> QED BY <1>5, <1>7, <1>8 DEF Resend, ResendCount, ResendWindow

LEMMA TurnStep ==
  ASSUME TypeOK, TurnInv, Undisturbed, Undisturbed', [Next]_vars
  PROVE  TurnInv'
<1>1. ASSUME UNCHANGED <<told, held, digest>>, UNCHANGED <<pc, job>> PROVE TurnInv'
  BY <1>1 DEF TurnInv, Holding, Untouched, KeyOf, Usual
<1>2. ASSUME NEW p \in Callers, NEW r \in Recipients, NEW c \in Cameras,
             NEW settled \in BOOLEAN, Ask(p, r, c, settled)
      PROVE  TurnInv'
  <2>1. UNCHANGED <<told, held, digest>> /\ pc[p] = "idle"
    BY <1>2 DEF Ask, store, journal
  <2>2. CASE UNCHANGED <<pc, job>>
    BY <1>1, <2>1, <2>2
  <2>3. CASE ~ UNCHANGED <<pc, job>>
    <3>1. /\ Goto(p, "count")
          /\ job' = [job EXCEPT ![p] = [to |-> r, camera |-> c, hour |-> hour, entry |-> 0]]
      BY <1>2, <2>3 DEF Ask
    <3>2. /\ pc'[p] = "count" /\ \A q \in Callers : q # p => pc'[q] = pc[q]
          /\ job'[p].entry = 0 /\ KeyOf(p)' = <<r, c>> /\ <<r, c>> \in Keys
      BY <3>1 DEF Goto, TypeOK, KeyOf, Keys
    <3>3. \A q \in Callers : q # p => pc'[q] = "idle"
      BY <3>2 DEF Undisturbed
    <3>4. \A k \in Keys : Untouched(k)
      BY <2>1, <3>2, <3>3 DEF Untouched
    <3>5. \A k \in Keys : told[k] + digest[Usual][k] = held[k]
      BY <3>4 DEF TurnInv
    <3>6. Holding(p)'
      BY <2>1, <3>2, <3>5 DEF Holding, Usual
    <3>7. \A q \in Callers : Holding(q)'
      BY <3>3, <3>6 DEF Holding
    <3> QED BY <2>1, <3>5, <3>7 DEF TurnInv, Usual
  <2> QED BY <2>2, <2>3
<1>3. ASSUME NEW p \in Callers, Run(p) PROVE TurnInv'
  BY <1>3, TurnRun
<1>4. CASE ExpireWindow \/ Tick \/ Shutdown \/ UNCHANGED vars
  BY <1>1, <1>4 DEF ExpireWindow, Tick, Shutdown, vars, store, journal
<1>5. ~ExpireDigest /\ ~Restart
  BY PolicyAssumption DEF ExpireDigest, Restart, Undisturbed, TypeOK, Budget
<1>6. ASSUME NEW p \in Callers, Resend(p) PROVE TurnInv'
  BY <1>6, TurnResend
<1> QED BY <1>2, <1>3, <1>4, <1>5, <1>6 DEF Next

LEMMA TurnInit == Init => TurnInv
<1> SUFFICES ASSUME Init PROVE TurnInv
  OBVIOUS
<1>1. \A p \in Callers : Holding(p)
  BY DEF Init, Holding
<1>2. \A k \in Keys : told[k] + digest[Usual][k] = held[k]
  BY UsualType DEF Init
<1> QED BY <1>1, <1>2 DEF TurnInv

\* As long as nothing fails, stops or expires and goroutines take turns past the
\* cap, what was held back was told in a digest or waits for the next one.
THEOREM HeldTold == Spec => UndisturbedHeldIsTold
<1>1. TurnInv => HeldIsTold
  BY DEF TurnInv, HeldIsTold, Quiet, Untouched
<1>2. TypeOK /\ TurnInv /\ Undisturbed /\ Undisturbed' /\ [Next]_vars => TurnInv'
  BY TurnStep
<1> QED BY <1>1, <1>2, TurnInit, PolicyTypeCorrect, PTL DEF Spec, UndisturbedHeldIsTold
=============================================================================
