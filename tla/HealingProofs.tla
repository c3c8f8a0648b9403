------------------------------ MODULE HealingProofs ------------------------------
(***************************************************************************)
(* The healing controller's safety properties for every threshold, limit,  *)
(* step, cooldown and range of metrics.                                    *)
(***************************************************************************)
EXTENDS HealingController, SequenceTheorems, TLAPS

(***************************************************************************)
(* The plan of a pass has one of few shapes, closed under Tail.            *)
(***************************************************************************)
Shapes(a) == {<<>>, <<a>>, <<Restart>>, <<a, Restart>>, <<Restart, a>>}

\* n is a target the policy may choose after reading s.
Chosen(s, n) ==
  /\ n \in MinReplicas..MaxReplicas
  /\ IF s.backlog = 0 THEN n = MinReplicas ELSE n > s.current

PlanShaped(s, p) == p = <<>> \/ p = <<Restart>> \/ \E n \in Nat : Chosen(s, n) /\ p \in Shapes(ScaleTo(n))

LEMMA Pair ==
  ASSUME NEW a \in Actions, NEW b \in Actions
  PROVE  <<a>> \o <<b>> = <<a, b>>
<1>1. <<a>> \in Seq(Actions) /\ <<b>> \in Seq(Actions) /\ <<a, b>> \in Seq(Actions)
  OBVIOUS
<1>2. /\ <<a>> \o <<b>> \in Seq(Actions)
      /\ Len(<<a>> \o <<b>>) = 2
      /\ (<<a>> \o <<b>>)[1] = a
      /\ (<<a>> \o <<b>>)[2] = b
  BY <1>1, ConcatProperties
<1>3. Len(<<a, b>>) = 2 /\ <<a, b>>[1] = a /\ <<a, b>>[2] = b
  OBVIOUS
<1>4. Len(<<a>> \o <<b>>) = Len(<<a, b>>)
  BY <1>2, <1>3
<1>5. \A i \in 1..Len(<<a>> \o <<b>>) : (<<a>> \o <<b>>)[i] = <<a, b>>[i]
  BY <1>2, <1>3
<1> QED BY <1>1, <1>2, <1>4, <1>5, SeqEqual

\* Concatenations with at most one scale action a, before or after a restart.
LEMMA Concatenations ==
  ASSUME NEW a \in Actions
  PROVE  /\ Restart \in Actions
         /\ (<<a>> \o <<>>) \o <<>> = <<a>>
         /\ (<<a>> \o <<Restart>>) \o <<>> = <<a, Restart>>
         /\ (<<>> \o <<>>) \o <<a>> = <<a>>
         /\ (<<>> \o <<Restart>>) \o <<a>> = <<Restart, a>>
         /\ (<<>> \o <<Restart>>) \o <<>> = <<Restart>>
         /\ (<<>> \o <<>>) \o <<>> = <<>>
<1>1. Restart \in Actions
  BY DEF Restart, Actions
<1>2. /\ <<>> \in Seq(Actions) /\ <<a>> \in Seq(Actions) /\ <<Restart>> \in Seq(Actions)
      /\ <<a, Restart>> \in Seq(Actions)
  BY <1>1
<1>3. <<a>> \o <<Restart>> = <<a, Restart>> /\ <<Restart>> \o <<a>> = <<Restart, a>>
  BY <1>1, Pair
<1> QED BY <1>1, <1>2, <1>3, ConcatEmptySeq

\* decide_actions only chooses targets between the limits and only in the
\* direction the backlog calls for, whatever it read.
LEMMA PlanOfDecision ==
  ASSUME NEW s \in Snapshots, NEW l \in Nat \cup {NoCount}
  PROVE  PlanShaped(s, decide_actions(s, l))
<1>1. CASE WantsScaleOut(s)
  <2>1. OutTarget(s) \in Nat /\ Chosen(s, OutTarget(s))
    BY <1>1, PolicyAssumption DEF Snapshots, WantsScaleOut, OutTarget, ExtraBatches, Least, Greatest, Chosen
  <2>2. ~WantsScaleIn(s)
    BY <1>1, PolicyAssumption DEF Snapshots, WantsScaleOut, WantsScaleIn
  <2>3. ScaleTo(OutTarget(s)) \in Actions
    BY <2>1 DEF ScaleTo, Actions
  <2>4. decide_actions(s, l) \in {<<ScaleTo(OutTarget(s))>>, <<ScaleTo(OutTarget(s)), Restart>>}
    BY <1>1, <2>2, <2>3, Concatenations, Zenon DEF decide_actions
  <2> QED BY <2>1, <2>4 DEF PlanShaped, Shapes
<1>2. CASE ~WantsScaleOut(s) /\ WantsScaleIn(s)
  <2>1. Chosen(s, MinReplicas)
    BY <1>2, PolicyAssumption DEF WantsScaleIn, Chosen
  <2>2. ScaleTo(MinReplicas) \in Actions
    BY PolicyAssumption DEF ScaleTo, Actions
  <2>3. decide_actions(s, l) \in {<<ScaleTo(MinReplicas)>>, <<Restart, ScaleTo(MinReplicas)>>}
    BY <1>2, <2>2, Concatenations, Zenon DEF decide_actions
  <2> QED BY <2>1, <2>3, PolicyAssumption DEF PlanShaped, Shapes
<1>3. CASE ~WantsScaleOut(s) /\ ~WantsScaleIn(s)
  <2>1. Restart \in Actions
    BY DEF Restart, Actions
  <2>2. decide_actions(s, l) \in {<<>>, <<Restart>>}
    BY <1>3, <2>1, Concatenations, Zenon DEF decide_actions
  <2> QED BY <2>2 DEF PlanShaped
<1> QED BY <1>1, <1>2, <1>3

LEMMA TailOfPlan ==
  ASSUME NEW s \in Snapshots, NEW p, PlanShaped(s, p), p # <<>>
  PROVE  PlanShaped(s, Tail(p))
<1>1. Restart \in Actions
  BY DEF Restart, Actions
<1>2. CASE p = <<Restart>>
  BY <1>1, <1>2 DEF PlanShaped
<1>3. ASSUME NEW n \in Nat, Chosen(s, n), p \in Shapes(ScaleTo(n))
      PROVE  PlanShaped(s, Tail(p))
  <2>1. ScaleTo(n) \in Actions
    BY DEF ScaleTo, Actions
  <2> DEFINE a == ScaleTo(n)
  <2>2. /\ Tail(<<a>>) = <<>> /\ Tail(<<Restart>>) = <<>>
        /\ Tail(<<a, Restart>>) = <<Restart>>
        /\ Tail(<<Restart, a>>) = <<a>>
    <3> HIDE DEF a
    <3> QED BY <1>1, <2>1
  <2>3. Tail(p) \in {<<>>, <<Restart>>, <<a>>}
    BY <1>3, <2>2, Zenon DEF Shapes
  <2> QED BY <2>3, <1>3 DEF PlanShaped, Shapes
<1> QED BY <1>2, <1>3 DEF PlanShaped

HasRestart(p) == \E i \in 1..Len(p) : p[i] = Restart

\* What a shaped plan means for its head, its tail and its scale actions.
SoundPlan(s, p) ==
  /\ p \in Seq(Actions)
  /\ p # <<>> =>
       /\ Head(p).action = "scale" => Head(p).target \in MinReplicas..MaxReplicas
       /\ Head(p).action = "restart" => HasRestart(p) /\ ~HasRestart(Tail(p))
       /\ HasRestart(Tail(p)) => HasRestart(p)
  /\ \A i, k \in 1..Len(p) :
       p[i].action = "scale" /\ p[k].action = "scale" => i = k
  /\ \A i \in 1..Len(p) : p[i].action = "scale" =>
       IF s.backlog = 0 THEN p[i].target = MinReplicas ELSE p[i].target > s.current

LEMMA ShapedPlan ==
  ASSUME NEW s \in Snapshots, NEW p, PlanShaped(s, p)
  PROVE  SoundPlan(s, p)
<1>1. Restart \in Actions /\ Restart.action = "restart"
  BY DEF Restart, Actions
<1>2. CASE p = <<>>
  BY <1>2 DEF SoundPlan
<1>3. CASE p = <<Restart>>
  BY <1>1, <1>3 DEF HasRestart, SoundPlan
<1>4. ASSUME NEW n \in Nat, Chosen(s, n), p \in Shapes(ScaleTo(n))
      PROVE  SoundPlan(s, p)
  <2> DEFINE a == ScaleTo(n)
  <2>1. /\ a \in Actions /\ a.action = "scale" /\ a.target = n /\ a # Restart
        /\ n \in MinReplicas..MaxReplicas
        /\ IF s.backlog = 0 THEN n = MinReplicas ELSE n > s.current
    BY <1>1, <1>4 DEF ScaleTo, Actions, Restart, Chosen
  <2>2. p \in Shapes(a)
    BY <1>4
  <2> HIDE DEF a
  <2>3. CASE p = <<a>>
    BY <1>1, <2>1, <2>3 DEF HasRestart, SoundPlan
  <2>4. CASE p = <<a, Restart>>
    <3>1. /\ p \in Seq(Actions) /\ Len(p) = 2 /\ p[1] = a /\ p[2] = Restart
          /\ Head(p) = a /\ Tail(p) = <<Restart>>
      BY <1>1, <2>1, <2>4
    <3> QED BY <1>1, <2>1, <3>1 DEF HasRestart, SoundPlan
  <2>5. CASE p = <<Restart, a>>
    <3>1. /\ p \in Seq(Actions) /\ Len(p) = 2 /\ p[1] = Restart /\ p[2] = a
          /\ Head(p) = Restart /\ Tail(p) = <<a>>
          /\ Len(Tail(p)) = 1 /\ Tail(p)[1] = a
      BY <1>1, <2>1, <2>5
    <3>2. HasRestart(p) /\ ~HasRestart(Tail(p))
      BY <2>1, <3>1 DEF HasRestart
    <3> QED BY <1>1, <2>1, <3>1, <3>2 DEF SoundPlan
  <2>6. \/ p = <<>> \/ p = <<a>> \/ p = <<Restart>>
        \/ p = <<a, Restart>> \/ p = <<Restart, a>>
    BY <2>2, Zenon DEF Shapes
  <2> QED BY ONLY <1>2, <1>3, <2>3, <2>4, <2>5, <2>6
<1> QED BY <1>2, <1>3, <1>4 DEF PlanShaped

\* A decision contains a restart only if the policy wants one.
LEMMA RestartOfDecision ==
  ASSUME NEW s \in Snapshots, NEW l \in Nat \cup {NoCount}, ~WantsRestart(s, l)
  PROVE  ~HasRestart(decide_actions(s, l))
<1>1. \A n \in Nat : ScaleTo(n) \in Actions /\ ScaleTo(n) # Restart
  BY DEF ScaleTo, Actions, Restart
<1>2. WantsScaleOut(s) => OutTarget(s) \in Nat
  BY PolicyAssumption DEF Snapshots, WantsScaleOut, OutTarget, ExtraBatches, Least, Greatest
<1>3. ~(WantsScaleOut(s) /\ WantsScaleIn(s))
  BY PolicyAssumption DEF Snapshots, WantsScaleOut, WantsScaleIn
<1>4. ASSUME NEW n \in Nat PROVE ~HasRestart(<<ScaleTo(n)>>)
  BY <1>1 DEF HasRestart
<1>5. ~HasRestart(<<>>)
  BY DEF HasRestart
<1>6. MinReplicas \in Nat
  BY PolicyAssumption
<1>7. decide_actions(s, l) \in {<<>>, <<ScaleTo(OutTarget(s))>>, <<ScaleTo(MinReplicas)>>}
  <2>1. CASE WantsScaleOut(s)
    BY <1>1, <1>2, <1>3, <2>1, Concatenations, Zenon DEF decide_actions
  <2>2. CASE WantsScaleIn(s)
    BY <1>1, <1>3, <1>6, <2>2, Concatenations, Zenon DEF decide_actions
  <2>3. CASE ~WantsScaleOut(s) /\ ~WantsScaleIn(s)
    BY <1>1, <1>6, <2>3, Concatenations, Zenon DEF decide_actions
  <2> QED BY <2>1, <2>2, <2>3
<1>8. CASE WantsScaleOut(s)
  BY <1>2, <1>4, <1>5, <1>6, <1>7, <1>8
<1>9. CASE ~WantsScaleOut(s)
  <2>1. decide_actions(s, l) \in {<<>>, <<ScaleTo(MinReplicas)>>}
    BY <1>1, <1>6, <1>9, Concatenations, Zenon DEF decide_actions
  <2> QED BY <1>4, <1>5, <1>6, <2>1
<1> QED BY <1>8, <1>9

(***************************************************************************)
(* The inductive invariant.                                                *)
(***************************************************************************)
PlanInv ==
  /\ PlanShaped(snap, plan)
  /\ pc \in {"metrics", "replicas"} => plan = <<>>
  /\ pc \in {"patch", "book"} => plan # <<>> /\ Head(plan).action = "restart"
  /\ HasRestart(plan) /\ pc # "book" => WantsRestart(snap, lastFailed)

\* The age the cooldown test looks at never runs ahead of the true one, except
\* between the patch and the note that is taken of it.
TimeInv ==
  /\ pc # "book" => age <= sincePatch
  /\ pc = "patch" => age = Cooldown

\* What the process remembers of its last restart: its count, or nothing if it
\* has seen the count drop since.
CountInv ==
  /\ pc = "book" => patchFailed = snap.failed
  /\ pc # "book" => \/ lastFailed = patchFailed
                    \/ lastFailed = NoCount /\ dipped

IInv == TypeOK /\ ReplicasInRange /\ PlanInv /\ TimeInv /\ CountInv

LEMMA InitIInv == Init => IInv
<1> SUFFICES ASSUME Init PROVE IInv
  OBVIOUS
<1> USE PolicyAssumption, ControllerAssumption DEF Init
<1>1. TypeOK
  <2>1. snap \in Snapshots /\ plan \in Seq(Actions)
    BY DEF Snapshots
  <2>2. backlog \in Nat /\ failed \in Nat /\ spec \in Nat /\ status \in Nat
    OBVIOUS
  <2>3. rolling \in BOOLEAN /\ dipped \in BOOLEAN /\ restarted \in BOOLEAN
    BY Zenon
  <2> QED BY <2>1, <2>2, <2>3 DEF TypeOK, Pcs
<1>2. ReplicasInRange
  BY DEF ReplicasInRange
<1>3. PlanInv
  BY DEF PlanInv, PlanShaped, HasRestart
<1>4. TimeInv
  BY DEF TimeInv
<1>5. CountInv
  BY DEF CountInv
<1> QED BY <1>1, <1>2, <1>3, <1>4, <1>5 DEF IInv

LEMMA NextIInv == IInv /\ [Next]_vars => IInv'
<1> SUFFICES ASSUME IInv, [Next]_vars PROVE IInv'
  OBVIOUS
<1> USE PolicyAssumption, ControllerAssumption DEF IInv, environment, controller, auxiliary, Pcs
<1>0. snap \in Snapshots /\ plan \in Seq(Actions)
  BY DEF TypeOK
<1>1. CASE ReadMetrics
  <2> USE <1>1 DEF ReadMetrics
  <2>1. plan = <<>> /\ plan' = <<>>
    BY DEF PlanInv
  <2>2. TypeOK'
    BY DEF TypeOK, Snapshots
  <2>3. ReplicasInRange'
    BY DEF ReplicasInRange
  <2>4. PlanInv'
    BY <2>1 DEF PlanInv, PlanShaped, HasRestart
  <2>5. TimeInv' /\ CountInv'
    BY DEF TimeInv, CountInv
  <2> QED BY <2>2, <2>3, <2>4, <2>5
<1>2. CASE ReadReplicas
  <2> DEFINE s == [snap EXCEPT !.current = CurrentReplicas]
             l == Remembered(s)
  <2>1. s \in Snapshots /\ s.failed = snap.failed
    BY DEF TypeOK, Snapshots, CurrentReplicas
  <2>2. l \in Nat \cup {NoCount}
    BY DEF TypeOK, Remembered
  <2>3. /\ snap' = s /\ lastFailed' = l /\ plan' = decide_actions(s, l)
        /\ dipped' = (dipped \/ s.failed < FailedThreshold)
        /\ pc = "replicas" /\ pc' = "act"
        /\ UNCHANGED <<environment, age, sincePatch, patchFailed, restarted, crashes>>
    BY <1>2 DEF ReadReplicas
  <2>4. l = IF s.failed < FailedThreshold THEN NoCount ELSE lastFailed
    BY DEF Remembered
  <2> HIDE DEF s, l
  <2>5. PlanShaped(s, decide_actions(s, l))
    BY <2>1, <2>2, PlanOfDecision
  <2>6. decide_actions(s, l) \in Seq(Actions)
    BY <2>1, <2>5, ShapedPlan DEF SoundPlan
  <2>7. HasRestart(decide_actions(s, l)) => WantsRestart(s, l)
    BY <2>1, <2>2, RestartOfDecision
  <2>8. TypeOK'
    BY <2>1, <2>2, <2>3, <2>6 DEF TypeOK
  <2>9. ReplicasInRange'
    BY <2>3 DEF ReplicasInRange
  <2>10. PlanInv'
    BY <2>3, <2>5, <2>7 DEF PlanInv
  <2>11. TimeInv'
    BY <2>3 DEF TimeInv
  <2>12. CountInv'
    BY <2>1, <2>3, <2>4 DEF CountInv, TypeOK
  <2> QED BY <2>8, <2>9, <2>10, <2>11, <2>12
<1>3. CASE ApplyScale
  <2> USE <1>3 DEF ApplyScale, NextIs
  <2>1. PlanShaped(snap, Tail(plan)) /\ Tail(plan) \in Seq(Actions)
    BY <1>0, TailOfPlan, ShapedPlan DEF SoundPlan, PlanInv
  <2>2. Head(plan).target \in MinReplicas..MaxReplicas /\ (HasRestart(Tail(plan)) => HasRestart(plan))
    BY <1>0, ShapedPlan DEF SoundPlan, PlanInv
  <2>3. TypeOK'
    BY <2>1, <2>2 DEF TypeOK
  <2>4. ReplicasInRange'
    BY <2>2 DEF ReplicasInRange
  <2>5. PlanInv'
    BY <2>1, <2>2 DEF PlanInv
  <2>6. TimeInv' /\ CountInv'
    BY DEF TimeInv, CountInv
  <2> QED BY <2>3, <2>4, <2>5, <2>6
<1>4. CASE SuppressRestart
  <2> USE <1>4 DEF SuppressRestart, NextIs
  <2>1. PlanShaped(snap, Tail(plan)) /\ Tail(plan) \in Seq(Actions)
    BY <1>0, TailOfPlan, ShapedPlan DEF SoundPlan, PlanInv
  <2>2. HasRestart(Tail(plan)) => HasRestart(plan)
    BY <1>0, ShapedPlan DEF SoundPlan, PlanInv
  <2>3. TypeOK'
    BY <2>1 DEF TypeOK
  <2>4. PlanInv'
    BY <2>1, <2>2 DEF PlanInv
  <2>5. ReplicasInRange' /\ TimeInv' /\ CountInv'
    BY DEF ReplicasInRange, TimeInv, CountInv
  <2> QED BY <2>3, <2>4, <2>5
<1>5. CASE BeginRestart
  <2> USE <1>5 DEF BeginRestart, NextIs
  <2>1. TypeOK' /\ ReplicasInRange'
    BY DEF TypeOK, ReplicasInRange
  <2>2. PlanInv'
    BY DEF PlanInv
  <2>3. TimeInv' /\ CountInv'
    BY DEF TimeInv, CountInv, CoolingDown, TypeOK
  <2> QED BY <2>1, <2>2, <2>3
<1>6. CASE ApplyRestart
  <2> USE <1>6 DEF ApplyRestart
  <2>0. rolling' \in BOOLEAN /\ dipped' \in BOOLEAN /\ restarted' \in BOOLEAN
    BY Zenon DEF TypeOK
  <2>1. TypeOK' /\ ReplicasInRange'
    BY <1>0, <2>0 DEF TypeOK, ReplicasInRange, Snapshots
  <2>2. PlanInv'
    BY DEF PlanInv
  <2>3. TimeInv' /\ CountInv'
    BY DEF TimeInv, CountInv
  <2> QED BY <2>1, <2>2, <2>3
<1>7. CASE NoteRestart
  <2> USE <1>7 DEF NoteRestart
  <2>1. plan # <<>> /\ Head(plan).action = "restart"
    BY DEF PlanInv
  <2>2. PlanShaped(snap, Tail(plan)) /\ Tail(plan) \in Seq(Actions)
    BY <1>0, <2>1, TailOfPlan, ShapedPlan DEF SoundPlan, PlanInv
  <2>3. ~HasRestart(Tail(plan))
    BY <1>0, <2>1, ShapedPlan DEF SoundPlan, PlanInv
  <2>4. TypeOK' /\ ReplicasInRange'
    BY <1>0, <2>2 DEF TypeOK, ReplicasInRange, Snapshots
  <2>5. PlanInv'
    BY <2>2, <2>3 DEF PlanInv
  <2>6. TimeInv' /\ CountInv'
    BY DEF TimeInv, CountInv, TypeOK
  <2> QED BY <2>4, <2>5, <2>6
<1>8. CASE Sleep
  <2> USE <1>8 DEF Sleep
  <2>1. TypeOK' /\ ReplicasInRange' /\ TimeInv' /\ CountInv'
    BY DEF TypeOK, ReplicasInRange, TimeInv, CountInv
  <2>2. PlanInv'
    BY DEF PlanInv
  <2> QED BY <2>1, <2>2
<1>9. CASE Crash
  <2> USE <1>9 DEF Crash
  <2>0. rolling' \in BOOLEAN /\ dipped' \in BOOLEAN /\ restarted' \in BOOLEAN
    BY Zenon DEF TypeOK
  <2>1. TypeOK' /\ ReplicasInRange'
    BY <2>0 DEF TypeOK, ReplicasInRange, Snapshots
  <2>2. PlanInv'
    BY DEF PlanInv, PlanShaped, HasRestart
  <2>3. TimeInv' /\ CountInv'
    BY DEF TimeInv, CountInv, TypeOK
  <2> QED BY <2>1, <2>2, <2>3
<1>10. CASE Tick
  <2> USE <1>10 DEF Tick, Older, Least
  <2>1. TypeOK' /\ ReplicasInRange'
    BY DEF TypeOK, ReplicasInRange
  <2>2. PlanInv'
    BY DEF PlanInv
  <2>3. TimeInv' /\ CountInv'
    BY DEF TimeInv, CountInv, TypeOK
  <2> QED BY <2>1, <2>2, <2>3
<1>11. CASE MetricsChange \/ PodsFollow \/ Surge \/ HpaScales
  <2> USE <1>11 DEF MetricsChange, PodsFollow, Surge, HpaScales
  <2>1. UNCHANGED <<pc, snap, plan, lastFailed, age, sincePatch, patchFailed, dipped, uptime>>
    OBVIOUS
  <2>0. rolling' \in BOOLEAN /\ dipped' \in BOOLEAN /\ restarted' \in BOOLEAN
    BY Zenon DEF TypeOK
  <2>2. TypeOK'
    <3>1. backlog' \in Nat /\ failed' \in Nat
      BY DEF TypeOK
    <3>2. spec' \in Nat /\ status' \in Nat
      <4>1. spec \in Nat /\ status \in Nat /\ MinReplicas..MaxReplicas \subseteq Nat
        BY DEF TypeOK
      <4>2. CASE MetricsChange
        BY ONLY <4>1, <4>2 DEF MetricsChange
      <4>3. CASE PodsFollow
        BY ONLY <4>1, <4>3 DEF PodsFollow
      <4>4. CASE Surge
        BY ONLY <4>1, <4>4 DEF Surge
      <4>5. CASE HpaScales
        BY ONLY <4>1, <4>5 DEF HpaScales
      <4> QED BY ONLY <1>11, <4>2, <4>3, <4>4, <4>5
    <3>3. crashes' \in Nat
      <4>1. crashes \in Nat
        BY DEF TypeOK
      <4> QED BY ONLY <1>11, <4>1 DEF MetricsChange, PodsFollow, Surge, HpaScales, auxiliary
    <3> QED BY ONLY TypeOK, <2>0, <2>1, <3>1, <3>2, <3>3 DEF TypeOK
  <2>3. ReplicasInRange'
    BY DEF ReplicasInRange
  <2>4. PlanInv'
    BY <2>1 DEF PlanInv
  <2>5. TimeInv' /\ CountInv'
    BY <2>1 DEF TimeInv, CountInv
  <2> QED BY <2>2, <2>3, <2>4, <2>5
<1>12. CASE UNCHANGED vars
  BY <1>12 DEF vars, TypeOK, ReplicasInRange, PlanInv, TimeInv, CountInv
<1> QED
  BY <1>1, <1>2, <1>3, <1>4, <1>5, <1>6, <1>7, <1>8, <1>9, <1>10, <1>11, <1>12
     DEF Next, ControllerStep

LEMMA Invariance == Spec => []IInv
<1> QED BY InitIInv, NextIInv, PTL DEF Spec

(***************************************************************************)
(* The theorems.                                                           *)
(***************************************************************************)
\* Every variable of the controller and its environment keeps its type.
THEOREM TypeCorrect == Spec => []TypeOK
<1>1. IInv => TypeOK
  BY DEF IInv
<1> QED BY <1>1, Invariance, PTL

\* No policy setting, stale reading, crash or competing HPA takes the replica
\* count the controller asks for out of its limits.
THEOREM ReplicasStayInRange == Spec => []ReplicasInRange
<1>1. IInv => ReplicasInRange
  BY DEF IInv
<1> QED BY <1>1, Invariance, PTL

\* decide_actions never asks one pass to scale both out and in.
THEOREM PassHasOneDirection == Spec => []OneDirection
<1>1. IInv => OneDirection
  <2> SUFFICES ASSUME IInv PROVE OneDirection
    OBVIOUS
  <2>1. snap \in Snapshots /\ PlanShaped(snap, plan)
    BY DEF IInv, TypeOK, PlanInv
  <2> QED BY <2>1, ShapedPlan DEF SoundPlan, OneDirection
<1> QED BY <1>1, Invariance, PTL

\* The restart patches of one controller process are at least the cooldown
\* apart, whatever time passes between its two readings of the clock.
THEOREM RestartsAreSpaced == Spec => []RestartsSpaced
<1>1. IInv => RestartsSpaced
  BY ControllerAssumption DEF IInv, TypeOK, TimeInv, RestartsSpaced
<1> QED BY <1>1, Invariance, PTL

\* One controller process never restarts twice for the same failures.
THEOREM RestartsFollowNews == Spec => []RestartsNeedNews
<1>1. IInv => RestartsNeedNews
  <2> SUFFICES ASSUME IInv, pc = "patch", patchFailed # NoCount
               PROVE  dipped \/ snap.failed > patchFailed
    BY DEF RestartsNeedNews
  <2>1. HasRestart(plan)
    BY ShapedPlan DEF SoundPlan, IInv, PlanInv, TypeOK
  <2>2. WantsRestart(snap, lastFailed)
    BY <2>1 DEF IInv, PlanInv
  <2> QED BY <2>2 DEF IInv, CountInv, WantsRestart
<1> QED BY <1>1, Invariance, PTL
===============================================================================
