----------------------------- MODULE MCNotifier -----------------------------
(* Small configurations of the notifier for TLC. *)
EXTENDS NotifierProperties, TLC

CONSTANTS r1, r2, alice, bob, phone1, phone2, driveway, porch

Rule(to, critical, holdoff, cooldown, scope) ==
  [to |-> to, critical |-> critical, holdoff |-> holdoff,
   cooldown |-> cooldown, scope |-> scope]

\* alice has one target and allows critical; bob has the other.
MCOwnerOf == phone1 :> alice @@ phone2 :> bob
MCCameraOf == r1 :> driveway @@ r2 :> porch
MCOneCamera == [r \in {r1, r2} |-> driveway]

\* A critical rule for alice above a quiet, held, cooled-down one for both.
MCHeldRules == <<Rule({alice}, TRUE, FALSE, FALSE, "rule"),
                 Rule({alice, bob}, FALSE, TRUE, TRUE, "camera")>>
\* The same without holdoffs, the critical one for both.
MCPlainRules == <<Rule({alice, bob}, TRUE, FALSE, FALSE, "rule"),
                  Rule({alice, bob}, FALSE, FALSE, TRUE, "camera")>>
\* Two critical rules above a quiet one.
MCCriticalRules == <<Rule({alice}, TRUE, FALSE, FALSE, "rule"),
                     Rule({alice, bob}, TRUE, FALSE, FALSE, "rule"),
                     Rule({alice, bob}, FALSE, FALSE, TRUE, "camera")>>
\* Three quiet rules, each of which may refine the one below.
MCQuietRules == <<Rule({alice}, FALSE, FALSE, TRUE, "camera"),
                  Rule({alice, bob}, FALSE, FALSE, TRUE, "rule"),
                  Rule({bob}, FALSE, FALSE, TRUE, "camera")>>
\* Every rule under one global cooldown.
MCGlobalRules == <<Rule({alice}, FALSE, FALSE, TRUE, "global"),
                   Rule({alice, bob}, FALSE, TRUE, TRUE, "global")>>

\* What a payload may match: its first content only the last rule, a grown one
\* any rule, and either of them none.
MCMayMatch == [c \in 1..MaxContent |->
                IF c = 1 THEN {0, NumRules} ELSE 0..NumRules]
\* The same, with a last rule that matches whatever the others leave.
MCAlwaysMatch == [c \in 1..MaxContent |-> MCMayMatch[c] \ {0}]
=============================================================================
