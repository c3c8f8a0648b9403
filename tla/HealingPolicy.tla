----------------------------- MODULE HealingPolicy -----------------------------
(***************************************************************************)
(* decide_actions of the healing controller: from the metrics and the      *)
(* replica count of one pass to the list of actions of that pass, in the   *)
(* order in which the controller applies them.                             *)
(***************************************************************************)
EXTENDS Integers, Sequences

CONSTANTS QueuedThreshold, FailedThreshold,  \* HealingConfig
          MinReplicas, MaxReplicas, ScaleStep,
          NoCount                            \* None in last_restart_failed_count

ASSUME PolicyAssumption ==
  /\ QueuedThreshold \in Nat
  /\ FailedThreshold \in Nat
  /\ MinReplicas \in Nat \ {0}
  /\ MaxReplicas \in Nat
  /\ MinReplicas <= MaxReplicas
  /\ ScaleStep \in Nat \ {0}
  /\ NoCount \notin Nat

\* SystemSnapshot; queued and running are only ever used as their sum.
Snapshots == [backlog : Nat, failed : Nat, current : Nat]

Least(a, b)    == IF a <= b THEN a ELSE b
Greatest(a, b) == IF a >= b THEN a ELSE b

ScaleTo(n) == [action |-> "scale", target |-> n]

\* Mutated form: an action that _apply_action does not know.
Restart_Renamed == [action |-> "rollout", target |-> 0]

Restart    == [action |-> "restart", target |-> 0]
Actions    == [action : {"scale", "restart"}, target : Nat]

ExtraBatches(s) == Greatest(1, s.backlog \div Greatest(QueuedThreshold, 1))

\* Mutated form: the upper bound is left out.
OutTarget_Unbounded(s) ==
  Greatest(s.current + ScaleStep, ExtraBatches(s) + MinReplicas)

OutTarget(s) ==
  Least(MaxReplicas, Greatest(s.current + ScaleStep, ExtraBatches(s) + MinReplicas))

\* Mutated form: the last step to the maximum is not taken.
WantsScaleOut_BelowMax(s) ==
  s.backlog > QueuedThreshold /\ s.current + ScaleStep < MaxReplicas

WantsScaleOut(s) == s.backlog > QueuedThreshold /\ OutTarget(s) > s.current

\* Mutated forms: the previous restart is not looked at; the threshold has to
\* be exceeded.
WantsRestart_Always(s, lastFailed) == s.failed >= FailedThreshold

WantsRestart_Above(s, lastFailed) ==
  /\ s.failed > FailedThreshold
  /\ lastFailed = NoCount \/ s.failed > lastFailed

WantsRestart(s, lastFailed) ==
  /\ s.failed >= FailedThreshold
  /\ lastFailed = NoCount \/ s.failed > lastFailed

\* Mutated forms: the backlog only has to be back at the threshold; one pod
\* above the minimum is tolerated.
WantsScaleIn_AtThreshold(s) == s.backlog <= QueuedThreshold /\ s.current > MinReplicas
WantsScaleIn_KeepsOne(s)    == s.backlog = 0 /\ s.current > MinReplicas + 1

WantsScaleIn(s) == s.backlog = 0 /\ s.current > MinReplicas

decide_actions(s, lastFailed) ==
  (IF WantsScaleOut(s) THEN <<ScaleTo(OutTarget(s))>> ELSE <<>>)
    \o (IF WantsRestart(s, lastFailed) THEN <<Restart>> ELSE <<>>)
    \o (IF WantsScaleIn(s) THEN <<ScaleTo(MinReplicas)>> ELSE <<>>)
===============================================================================
