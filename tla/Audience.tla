------------------------------ MODULE Audience ------------------------------
(***************************************************************************)
(* What the notifier promises the people it notifies, with no store, no    *)
(* goroutines and no failures in sight: which notifications may appear on  *)
(* whose targets, and who may be rung.  Module Notifier implements it.     *)
(*                                                                         *)
(* The two steps are a push, which rings, and an amendment, which is quiet *)
(* and only rewrites a notification that is already there.                 *)
(***************************************************************************)
EXTENDS Naturals

CONSTANTS Reviews, Recipients, Targets, OwnerOf, AllowCritical,
          RuleIds, Rules, Tags, Shown, None

VARIABLES phone, rings

Init ==
  /\ phone = [r \in Reviews |-> [t \in Targets |-> [g \in Tags |-> None]]]
  /\ rings = [r \in Reviews |-> [t \in Targets |-> 0]]

\* The form a recipient gets: critical only under a critical rule, and only
\* for someone who allows it.
Styled(t, n) == n.critical = (Rules[n.rule].critical /\ OwnerOf[t] \in AllowCritical)

\* A push goes to a target of someone the rule is addressed to; the second one
\* a review may cause (an escalation) only to someone it can wake.
Notify(r, t, g, n) ==
  /\ OwnerOf[t] \in Rules[n.rule].to
  /\ Styled(t, n)
  /\ g = "fn-esc" => n.critical
  /\ phone' = [phone EXCEPT ![r][t][g] = n]
  /\ rings' = [rings EXCEPT ![r][t] = @ + 1]

\* An update edits what the target already shows.
Amend(r, t, g, n) ==
  /\ phone[r][t][g] # None
  /\ Styled(t, n)
  /\ phone' = [phone EXCEPT ![r][t][g] = n]
  /\ UNCHANGED rings

Next == \E r \in Reviews, t \in Targets, g \in Tags, n \in Shown :
          Notify(r, t, g, n) \/ Amend(r, t, g, n)

Spec == Init /\ [][Next]_<<phone, rings>>
=============================================================================
