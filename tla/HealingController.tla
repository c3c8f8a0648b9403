--------------------------- MODULE HealingController ---------------------------
(***************************************************************************)
(* The healing controller's loop against a Deployment that Kubernetes, the *)
(* HPA and rollouts change at the same time, and against metrics that      *)
(* change while a pass is under way.                                       *)
(*                                                                         *)
(* Time: the code compares time.monotonic() readings.  Only differences    *)
(* up to the cooldown matter, so each clock reading that is kept is        *)
(* modelled by its age, which Tick increases up to Cooldown.               *)
(***************************************************************************)
EXTENDS HealingPolicy

CONSTANTS Cooldown,     \* restart_cooldown_seconds, in ticks
          BacklogRange, FailedRange,  \* values the metrics take
          MaxCrashes    \* how often the controller's process dies

ASSUME ControllerAssumption ==
  /\ Cooldown \in Nat
  /\ BacklogRange \subseteq Nat
  /\ FailedRange \subseteq Nat
  /\ MaxCrashes \in Nat

VARIABLES
  \* environment
  backlog, failed,  \* what repo.metrics() would return now
  spec, status,     \* spec.replicas and status.replicas of the deployment
  rolling,          \* a rollout is under way: one pod above spec is allowed
  uptime,           \* value of time.monotonic(), up to Cooldown
  \* controller
  pc, snap, plan,
  lastFailed,       \* last_restart_failed_count
  age,              \* time.monotonic() - last_restart_time, up to Cooldown
  \* auxiliary
  sincePatch,       \* age of this process's last restart patch
  patchFailed,      \* failure count this process's last restart patch acted on
  dipped,           \* this process has since seen fewer failures than the threshold
  restarted,        \* some process has patched a restart
  crashes           \* crashes so far

environment == <<backlog, failed, spec, status, rolling, uptime>>
controller  == <<pc, snap, plan, lastFailed, age>>
auxiliary   == <<sincePatch, patchFailed, dipped, restarted, crashes>>
vars        == <<environment, controller, auxiliary>>

Pcs == {"metrics", "replicas", "act", "patch", "book"}

-------------------------------------------------------------------------------
(***************************************************************************)
(* One pass of the loop                                                    *)
(***************************************************************************)
\* repo.metrics()
ReadMetrics ==
  /\ pc = "metrics"
  /\ snap' = [snap EXCEPT !.backlog = backlog, !.failed = failed]
  /\ pc' = "replicas"
  /\ UNCHANGED <<environment, plan, lastFailed, age, auxiliary>>

\* _current_replicas: status.replicas, or the default when that is 0 or None.
CurrentReplicas == IF status = 0 THEN MinReplicas ELSE status

\* last_restart_failed_count is forgotten below the threshold.
Remembered(s) == IF s.failed < FailedThreshold THEN NoCount ELSE lastFailed

ReadReplicas ==
  /\ pc = "replicas"
  /\ LET s == [snap EXCEPT !.current = CurrentReplicas] IN
       /\ snap' = s
       /\ lastFailed' = Remembered(s)
       /\ plan' = decide_actions(s, Remembered(s))
       /\ dipped' = (dipped \/ s.failed < FailedThreshold)
  /\ pc' = "act"
  /\ UNCHANGED <<environment, age, sincePatch, patchFailed, restarted, crashes>>

NextIs(action) == pc = "act" /\ plan # <<>> /\ Head(plan).action = action

\* patch_namespaced_deployment_scale
ApplyScale ==
  /\ NextIs("scale")
  /\ spec' = Head(plan).target
  /\ plan' = Tail(plan)
  /\ UNCHANGED <<backlog, failed, status, rolling, uptime, pc, snap, lastFailed, age,
                 auxiliary>>

\* Mutated form: the cooldown is a tick short.
CoolingDown_Short == age < Cooldown - 1

\* now - last_restart_time < restart_cooldown_seconds
CoolingDown == age < Cooldown

SuppressRestart ==
  /\ NextIs("restart")
  /\ CoolingDown
  /\ plan' = Tail(plan)
  /\ UNCHANGED <<environment, pc, snap, lastFailed, age, auxiliary>>

BeginRestart ==
  /\ NextIs("restart")
  /\ ~CoolingDown
  /\ pc' = "patch"
  /\ UNCHANGED <<environment, snap, plan, lastFailed, age, auxiliary>>

\* patch_namespaced_deployment with a new annotation: a rollout begins.
ApplyRestart ==
  /\ pc = "patch"
  /\ rolling' = TRUE
  /\ sincePatch' = 0
  /\ patchFailed' = snap.failed
  /\ dipped' = FALSE
  /\ restarted' = TRUE
  /\ pc' = "book"
  /\ UNCHANGED <<backlog, failed, spec, status, uptime, snap, plan, lastFailed, age,
                 crashes>>

\* last_restart_failed_count = failed; last_restart_time = monotonic()
NoteRestart ==
  /\ pc = "book"
  /\ lastFailed' = snap.failed
  /\ age' = 0
  /\ plan' = Tail(plan)
  /\ pc' = "act"
  /\ UNCHANGED <<environment, snap, auxiliary>>

\* time.sleep(interval), then the next pass.
Sleep ==
  /\ pc = "act" /\ plan = <<>>
  /\ pc' = "metrics"
  /\ UNCHANGED <<environment, snap, plan, lastFailed, age, auxiliary>>

ControllerStep ==
  \/ ReadMetrics \/ ReadReplicas
  \/ ApplyScale \/ SuppressRestart \/ BeginRestart \/ ApplyRestart \/ NoteRestart
  \/ Sleep

\* The process dies anywhere: its pod is deleted, or an ApiException or a Redis
\* error leaves main.  The new process starts with last_restart_time = 0.0, so
\* the age of its "last restart" is the uptime of the host.
Crash ==
  /\ crashes < MaxCrashes
  /\ crashes' = crashes + 1
  /\ pc' = "metrics"
  /\ snap' = [backlog |-> 0, failed |-> 0, current |-> 0]
  /\ plan' = <<>>
  /\ lastFailed' = NoCount
  /\ age' = uptime
  /\ sincePatch' = Cooldown
  /\ patchFailed' = NoCount
  /\ dipped' = FALSE
  /\ UNCHANGED <<environment, restarted>>

-------------------------------------------------------------------------------
(***************************************************************************)
(* Environment                                                             *)
(***************************************************************************)
Older(a) == Least(Cooldown, a + 1)

Tick ==
  /\ uptime' = Older(uptime)
  /\ age' = Older(age)
  /\ sincePatch' = Older(sincePatch)
  /\ UNCHANGED <<backlog, failed, spec, status, rolling, pc, snap, plan, lastFailed,
                 patchFailed, dipped, restarted, crashes>>

\* Orders are placed, processed, fail and recover.
MetricsChange ==
  /\ backlog' \in BacklogRange
  /\ failed' \in FailedRange
  /\ UNCHANGED <<spec, status, rolling, uptime, controller, auxiliary>>

\* The ReplicaSets follow the deployment.
PodsFollow ==
  /\ status # spec
  /\ status' = IF status < spec THEN status + 1 ELSE status - 1
  /\ UNCHANGED <<backlog, failed, spec, rolling, uptime, controller, auxiliary>>

\* maxSurge 1, maxUnavailable 0: a rollout keeps a pod too many for a while.
Surge ==
  /\ rolling /\ status = spec
  /\ status' = spec + 1
  /\ rolling' = FALSE
  /\ UNCHANGED <<backlog, failed, spec, uptime, controller, auxiliary>>

\* The HorizontalPodAutoscaler writes the same field, by the CPU load, as often as
\* it likes.
HpaScales ==
  /\ spec' \in (MinReplicas..MaxReplicas) \ {spec}
  /\ UNCHANGED <<backlog, failed, status, rolling, uptime, controller, auxiliary>>

Init ==
  /\ backlog \in BacklogRange
  /\ failed \in FailedRange
  /\ spec \in MinReplicas..MaxReplicas
  /\ status = spec
  /\ rolling = FALSE
  /\ uptime \in 0..Cooldown
  /\ pc = "metrics"
  /\ snap = [backlog |-> 0, failed |-> 0, current |-> 0]
  /\ plan = <<>>
  /\ lastFailed = NoCount
  /\ age = uptime
  /\ sincePatch = Cooldown
  /\ patchFailed = NoCount
  /\ dipped = FALSE
  /\ restarted = FALSE
  /\ crashes = 0

Next ==
  \/ ControllerStep
  \/ Crash
  \/ Tick \/ MetricsChange \/ PodsFollow \/ Surge \/ HpaScales

Spec == Init /\ [][Next]_vars

\* The loop goes on, time passes and the ReplicaSets follow; crashes are finitely
\* many, and the HPA may write for ever and never has to.
Fairness == WF_vars(ControllerStep) /\ WF_vars(Tick) /\ WF_vars(PodsFollow)

FairSpec == Spec /\ Fairness

-------------------------------------------------------------------------------
(***************************************************************************)
(* Properties                                                              *)
(***************************************************************************)
\* Every variable keeps its type.
TypeOK ==
  /\ backlog \in Nat /\ failed \in Nat
  /\ spec \in Nat /\ status \in Nat
  /\ rolling \in BOOLEAN
  /\ uptime \in 0..Cooldown
  /\ pc \in Pcs
  /\ snap \in Snapshots
  /\ plan \in Seq(Actions)
  /\ lastFailed \in Nat \cup {NoCount}
  /\ age \in 0..Cooldown
  /\ sincePatch \in 0..Cooldown
  /\ patchFailed \in Nat \cup {NoCount}
  /\ dipped \in BOOLEAN /\ restarted \in BOOLEAN
  /\ crashes \in Nat

\* Whoever writes it, the replica count asked for stays between the limits.
ReplicasInRange == spec \in MinReplicas..MaxReplicas

\* One pass never scales both ways, whatever it read: what is left of its plan
\* holds at most one scale action, outwards of what was read if there is
\* backlog, and to the minimum if there is none.
OneDirection ==
  /\ \A i, k \in 1..Len(plan) :
       plan[i].action = "scale" /\ plan[k].action = "scale" => i = k
  /\ \A i \in 1..Len(plan) : plan[i].action = "scale" =>
       IF snap.backlog = 0 THEN plan[i].target = MinReplicas
                           ELSE plan[i].target > snap.current

\* A controller process that is about to patch a restart patched its previous
\* one at least the cooldown ago, although it reads the clock once before and
\* once after the patch.
RestartsSpaced == pc = "patch" => sincePatch >= Cooldown

\* The same failures do not restart the workers twice: since this process's
\* previous restart the count has grown, or was seen below the threshold.
RestartsNeedNews ==
  pc = "patch" /\ patchFailed # NoCount => dipped \/ snap.failed > patchFailed

\* The HPA leaves the replica count alone from some point on.
HpaSilent == <>[][~HpaScales]_vars

\* Backlog that stays above the threshold brings the workers to the maximum, where
\* they stay, once failures no longer cause rollouts (with a restart in every pass
\* the surge pod can make each reading look like the maximum) and if the HPA falls
\* silent.  An HPA that goes on scaling down workers which mostly sleep undoes each
\* step, and the controller promises nothing against it.
BacklogScalesOut ==
  HpaSilent /\ <>[](backlog > QueuedThreshold /\ failed < FailedThreshold)
    => <>[](spec = MaxReplicas)

\* Backlog that stays away brings them back to the minimum again and again,
\* whatever the HPA does, and for good if it falls silent.
NoBacklogScalesIn ==
  <>[](backlog = 0) =>
    []<>(spec = MinReplicas) /\ (HpaSilent => <>[](spec = MinReplicas))

\* Failures that stay at or above the threshold lead to a restart, in spite of
\* the cooldown a fresh process may begin with.
FailuresRestart == <>[](failed >= FailedThreshold) => <>restarted

\* "Backlog above HEALING_QUEUED_THRESHOLD: scale worker replicas upward"
\* (ARCHITECTURE): what the controller patches because of backlog is never
\* less than what the deployment is already asked to run.
ScaleOutRaises ==
  [][ApplyScale /\ snap.backlog > QueuedThreshold => spec' >= spec]_vars
===============================================================================
