------------------------------ MODULE DeployProofs ------------------------------
(***************************************************************************)
(* The deployment for any number of pods, controllers, builds and faults.  *)
(***************************************************************************)
EXTENDS Deploy, TLAPS

(***************************************************************************)
(* The inductive invariant.  Paused: the controller is on where the script *)
(* has just switched it on.  Ordered: templates are numbered upwards and   *)
(* every worker that was not told to stop has this build's image once the  *)
(* rollout is over.  Known: what the topic job found or did is true unless *)
(* the broker was lost since.                                              *)
(***************************************************************************)
Paused ==
  /\ script \in {"pause", "healer"} => wanted = 1
  /\ OffOnlyWhilePaused

Ordered ==
  /\ applied <= generation
  /\ RolloutIsTheBuilds

Known ==
  /\ ~lost /\ (job.phase = "complete" \/ (job.phase = "ensure" /\ job.found = "enough")) =>
       topic = "enough"
  /\ script \in {"rollouts", "resume", "healer", "done"} => job.phase = "complete"

Inv == TypeOK /\ Paused /\ Ordered /\ Known

LEMMA InitInv == Init => Inv
<1> SUFFICES ASSUME Init PROVE Inv
  OBVIOUS
<1> USE DEF Init, NoPod, NoTopicJob
<1>1. TypeOK
  <2>1. /\ pods \in [Pods -> [phase : {"none", "starting", "connecting", "consuming", "stopping"},
                             generation : Nat]]
        /\ job \in [phase : {"none", "waiting", "describe", "ensure", "complete", "failed"},
                    found : {"none", "short", "enough"}]
    OBVIOUS
  <2>2. script \in Positions /\ build \in 0..Builds
    BY DeployAssumption DEF Positions, Waits
  <2>3. lastFailed \in BOOLEAN /\ lost \in BOOLEAN
    BY ZenonT(20)
  <2>4. budget \in [{"fault", "restart"} -> Nat]
    BY DeployAssumption
  <2>5. /\ wanted \in 0..1 /\ generation \in Nat /\ applied \in Nat
        /\ healer \in [Controllers -> {"none", "new", "old", "stopping"}]
        /\ broker \in {"absent", "down", "up"} /\ topic \in {"none", "short", "enough"}
    OBVIOUS
  <2> QED BY <2>1, <2>2, <2>3, <2>4, <2>5 DEF TypeOK
<1>2. Paused
  BY DEF Paused, OffOnlyWhilePaused
<1>3. Ordered
  BY DEF Ordered, RolloutIsTheBuilds
<1>4. Known
  BY DEF Known
<1> QED BY <1>1, <1>2, <1>3, <1>4 DEF Inv

LEMMA SpendType ==
  ASSUME budget \in [{"fault", "restart"} -> Nat], NEW kind \in {"fault", "restart"}, Spend(kind)
  PROVE  budget' \in [{"fault", "restart"} -> Nat]
BY DEF Spend

(***************************************************************************)
(* Types.                                                                  *)
(***************************************************************************)
TopicJobs == [phase : {"none", "waiting", "describe", "ensure", "complete", "failed"},
              found : {"none", "short", "enough"}]

LEMMA JobTypes ==
  /\ NoTopicJob \in TopicJobs
  /\ [NoTopicJob EXCEPT !.phase = "waiting"] \in TopicJobs
  /\ \A j \in TopicJobs, ph \in {"waiting", "describe", "ensure", "complete", "failed"} :
       [j EXCEPT !.phase = ph] \in TopicJobs
  /\ \A j \in TopicJobs, found \in {"none", "short", "enough"} :
       [j EXCEPT !.phase = "ensure", !.found = found] \in TopicJobs
BY DEF TopicJobs, NoTopicJob

LEMMA ScriptTypes ==
  ASSUME TypeOK, Begin \/ ScriptProceeds \/ ApplyFails \/ ScriptFails
  PROVE  TypeOK'
<1> USE DEF Positions, Waits, cluster, Goto
<1>j. job \in TopicJobs
  BY DEF TypeOK, TopicJobs
<1>e. Exit => budget' \in [{"fault", "restart"} -> Nat] /\ script' \in Positions
              /\ lastFailed' \in BOOLEAN /\ UNCHANGED <<build, lost>>
  BY SpendType DEF TypeOK, Exit
<1>a. /\ ApplyHealer => wanted' \in 0..1
                        /\ healer' \in [Controllers -> {"none", "new", "old", "stopping"}]
      /\ ApplyBroker => broker' \in {"absent", "down", "up"}
      /\ ApplyJob => job' \in TopicJobs
  <2>1. ApplyJob => job' \in TopicJobs
    BY ONLY <1>j, JobTypes DEF ApplyJob
  <2> QED BY <2>1 DEF TypeOK, ApplyHealer, ApplyBroker
<1>1. CASE Begin
  BY <1>1, DeployAssumption DEF TypeOK, Begin
<1>2. CASE DeleteJob
  <2>1. job' \in TopicJobs /\ budget' \in [{"fault", "restart"} -> Nat]
    BY <1>2, <1>j, SpendType, JobTypes DEF TypeOK, DeleteJob
  <2> QED BY <1>2, <2>1 DEF TypeOK, DeleteJob, TopicJobs
<1>3. CASE Apply
  BY <1>3, <1>a DEF TypeOK, Apply, ApplyWorkers, TopicJobs
<1>4. CASE Pause
  BY <1>4, SpendType DEF TypeOK, Pause
<1>5. CASE InfraReady \/ TopicInitialised \/ RolloutsStable
  BY <1>5 DEF TypeOK, InfraReady, TopicInitialised, RolloutsStable, Pass
<1>6. CASE TopicFailed \/ Resume \/ HealerRolledOut
  <2>1. lastFailed' \in BOOLEAN
    <3>1. lastFailed' = TRUE \/ lastFailed' = FALSE \/ lastFailed' = lastFailed
      BY <1>6, Zenon DEF TopicFailed, Resume, HealerRolledOut
    <3> QED BY <3>1, Zenon DEF TypeOK
  <2>2. script' \in Positions
    BY <1>6 DEF TopicFailed, Resume, HealerRolledOut
  <2>3. /\ UNCHANGED <<build, applied, lost, healer, generation, pods, broker, topic, job, budget>>
        /\ wanted' \in {wanted, 1}
    BY <1>6 DEF TopicFailed, Resume, HealerRolledOut
  <2> QED BY <2>1, <2>2, <2>3 DEF TypeOK
<1>7. CASE ApplyFails
  <2>1. generation' \in Nat /\ applied' \in Nat
    BY <1>7 DEF TypeOK, ApplyFails, ApplyWorkers
  <2> QED BY <1>7, <1>a, <1>e, <2>1 DEF TypeOK, ApplyFails, TopicJobs
<1>8. CASE ScriptFails
  BY <1>8, <1>e DEF TypeOK, ScriptFails
<1> QED BY <1>1, <1>2, <1>3, <1>4, <1>5, <1>6, <1>7, <1>8 DEF ScriptProceeds

LEMMA ClusterTypes ==
  ASSUME TypeOK,
         \/ \E c \in Controllers : HealerStep(c) \/ HealerRestarts(c)
         \/ \E p \in Pods : PodStep(p) \/ PodCrash(p)
         \/ BrokerStarts \/ BrokerLoss \/ TopicAppears \/ JobStep \/ JobFails
         \/ Settled \/ UNCHANGED vars
  PROVE  TypeOK'
<1> USE DEF elsewhere, besideJob
<1>j. job \in TopicJobs
  BY DEF TypeOK, TopicJobs
<1>1. ASSUME NEW c \in Controllers, HealerStep(c) PROVE TypeOK'
  BY <1>1 DEF TypeOK, HealerStep, HealerStarts, HealerStops, HealerKilled, SetHealer
<1>2. ASSUME NEW c \in Controllers, HealerRestarts(c) PROVE TypeOK'
  BY <1>2, SpendType DEF TypeOK, HealerRestarts
<1>3. ASSUME NEW p \in Pods, CreatePod(p) \/ RetirePod(p) \/ PodStopped(p) PROVE TypeOK'
  <2> DEFINE Pod == [phase : {"none", "starting", "connecting", "consuming", "stopping"},
                     generation : Nat]
  <2>1. pods \in [Pods -> Pod] /\ generation \in Nat
    BY DEF TypeOK
  <2>2. /\ NoPod \in Pod /\ [NoPod EXCEPT !.phase = "stopping"] \in Pod
        /\ \A g \in Nat : [NoPod EXCEPT !.phase = "starting", !.generation = g] \in Pod
    BY DEF NoPod
  <2> HIDE DEF Pod
  <2>3. pods' \in [Pods -> Pod]
    BY <1>3, <2>1, <2>2 DEF CreatePod, RetirePod, PodStopped, SetPod
  <2>4. UNCHANGED <<elsewhere, healer, generation, budget>>
    BY <1>3 DEF CreatePod, RetirePod, PodStopped, SetPod
  <2> QED BY <2>3, <2>4 DEF TypeOK, Pod
<1>4. ASSUME NEW p \in Pods, PodStarts(p) \/ Connect(p) \/ NotConnected(p) PROVE TypeOK'
  BY <1>4 DEF TypeOK, PodStarts, Connect, NotConnected, SetPod
<1>5. ASSUME NEW p \in Pods, PodCrash(p) PROVE TypeOK'
  BY <1>5, SpendType DEF TypeOK, PodCrash, SetPod
<1>6. CASE BrokerStarts \/ BrokerLoss \/ TopicAppears
  BY <1>6, <1>j, SpendType DEF TypeOK, BrokerStarts, BrokerLoss, TopicAppears
<1>7. CASE JobStep \/ JobFails
  <2>1. job' \in TopicJobs
    <3>1. CASE JobWaits \/ JobFails
      BY <1>j, <3>1, JobTypes DEF JobWaits, JobFails
    <3>2. CASE JobDescribes
      <4>1. topic \in {"none", "short", "enough"}
        BY DEF TypeOK
      <4> QED BY <1>j, <3>2, <4>1, JobTypes DEF JobDescribes
    <3>3. CASE JobEnsures
      BY <1>j, <3>3, JobTypes DEF JobEnsures, Again
    <3> QED BY <1>7, <3>1, <3>2, <3>3 DEF JobStep
  <2>2. budget' \in [{"fault", "restart"} -> Nat] /\ topic' \in {"none", "short", "enough"}
    BY <1>7, SpendType DEF TypeOK, JobStep, JobWaits, JobDescribes, JobEnsures, JobFails
  <2>3. UNCHANGED besideJob
    BY <1>7 DEF JobStep, JobWaits, JobDescribes, JobEnsures, JobFails
  <2>4. lost' \in BOOLEAN
    BY <1>7, Zenon DEF TypeOK, JobStep, JobWaits, JobDescribes, JobEnsures, JobFails
  <2> QED BY <2>1, <2>2, <2>3, <2>4 DEF TypeOK, TopicJobs
<1>8. CASE Settled \/ UNCHANGED vars
  BY <1>8 DEF TypeOK, Settled, vars, cluster
<1> QED BY <1>1, <1>2, <1>3, <1>4, <1>5, <1>6, <1>7, <1>8 DEF PodStep

LEMMA NextTypes == TypeOK /\ [Next]_vars => TypeOK'
BY ScriptTypes, ClusterTypes DEF Next

(***************************************************************************)
(* What the cluster does without the script.                               *)
(***************************************************************************)
ByCluster ==
  \/ \E c \in Controllers : HealerStep(c) \/ HealerRestarts(c)
  \/ \E p \in Pods : PodStep(p) \/ PodCrash(p)
  \/ BrokerStarts \/ BrokerLoss \/ TopicAppears \/ JobStep \/ JobFails
  \/ Settled \/ UNCHANGED vars

LEMMA ClusterSteps ==
  ASSUME ByCluster
  PROVE  UNCHANGED <<script, build, lastFailed, applied, wanted>>
<1> USE DEF elsewhere, besideJob
<1>1. ASSUME NEW c \in Controllers, HealerStep(c) \/ HealerRestarts(c)
      PROVE  UNCHANGED <<script, build, lastFailed, applied, wanted>>
  BY <1>1 DEF HealerStep, HealerStarts, HealerStops, HealerKilled, SetHealer, HealerRestarts
<1>2. ASSUME NEW p \in Pods, PodStep(p) \/ PodCrash(p)
      PROVE  UNCHANGED <<script, build, lastFailed, applied, wanted>>
  BY <1>2 DEF PodStep, CreatePod, RetirePod, PodStopped, PodStarts, Connect, NotConnected, PodCrash, SetPod
<1>3. ASSUME BrokerStarts \/ BrokerLoss \/ TopicAppears \/ JobStep \/ JobFails
      PROVE  UNCHANGED <<script, build, lastFailed, applied, wanted>>
  BY <1>3 DEF BrokerStarts, BrokerLoss, TopicAppears, JobStep, JobWaits, JobDescribes,
     JobEnsures, JobFails
<1>4. ASSUME Settled \/ UNCHANGED vars
      PROVE  UNCHANGED <<script, build, lastFailed, applied, wanted>>
  BY <1>4 DEF Settled, vars, cluster
<1> QED BY <1>1, <1>2, <1>3, <1>4 DEF ByCluster

LEMMA NextPaused == TypeOK /\ Paused /\ [Next]_vars => Paused'
<1> SUFFICES ASSUME TypeOK, Paused, [Next]_vars PROVE Paused'
  OBVIOUS
<1> USE DEF Paused, OffOnlyWhilePaused, Waits, Goto, cluster
<1>1. CASE ByCluster
  BY <1>1, ClusterSteps
<1>2. CASE Begin
  BY <1>2 DEF Begin
<1>3. CASE DeleteJob
  BY <1>3 DEF DeleteJob
<1>4. CASE Apply \/ Pause \/ Resume
  BY <1>4 DEF Apply, ApplyHealer, Pause, Resume
<1>5. CASE InfraReady \/ TopicInitialised \/ RolloutsStable
  BY <1>5 DEF InfraReady, TopicInitialised, RolloutsStable, Pass
<1>6. CASE TopicFailed \/ HealerRolledOut
  BY <1>6 DEF TopicFailed, HealerRolledOut
<1>7. CASE ApplyFails \/ ScriptFails
  BY <1>7 DEF ApplyFails, ScriptFails, Exit
<1> QED BY <1>1, <1>2, <1>3, <1>4, <1>5, <1>6, <1>7 DEF Next, ScriptProceeds, ByCluster

LEMMA NextOrdered == TypeOK /\ Ordered /\ [Next]_vars => Ordered'
<1> SUFFICES ASSUME TypeOK, Ordered, [Next]_vars PROVE Ordered'
  OBVIOUS
<1> USE DEF Ordered, RolloutIsTheBuilds, Live, Goto, cluster
<1>0. /\ applied \in Nat /\ generation \in Nat /\ applied <= generation
      /\ \A p \in Pods : pods[p].generation \in Nat
      /\ pods \in [Pods -> [phase : {"none", "starting", "connecting", "consuming", "stopping"},
                            generation : Nat]]
  BY DEF TypeOK
<1>1. ASSUME UNCHANGED <<script, applied>>, generation' \in {generation, generation + 1},
             \A p \in Pods : \/ pods'[p].phase \in {"none", "stopping"}
                             \/ pods'[p].generation = generation
                             \/ /\ pods[p].phase \notin {"none", "stopping"}
                                /\ pods'[p].generation = pods[p].generation
      PROVE  Ordered'
  BY <1>0, <1>1
<1>2. ASSUME NEW c \in Controllers, HealerStep(c) \/ HealerRestarts(c) PROVE Ordered'
  <2>1. UNCHANGED <<script, applied, pods>> /\ generation' \in {generation, generation + 1}
    BY <1>2 DEF HealerStep, HealerStarts, HealerStops, HealerKilled, SetHealer, HealerRestarts,
       elsewhere
  <2> QED BY <1>1, <2>1
<1>3. ASSUME NEW p \in Pods, PodStep(p) \/ PodCrash(p) PROVE Ordered'
  <2>1. UNCHANGED <<script, applied, generation>>
    BY <1>3 DEF PodStep, CreatePod, RetirePod, PodStopped, PodStarts, Connect, NotConnected, PodCrash, SetPod,
       elsewhere
  <2>2. \E pod : /\ pods' = [pods EXCEPT ![p] = pod]
                 /\ \/ pod.phase \in {"none", "stopping"}
                    \/ pod.generation = generation
                    \/ /\ pods[p].phase \notin {"none", "stopping"}
                       /\ pod.generation = pods[p].generation
    <3>1. ASSUME CreatePod(p)
          PROVE  \E pod : pods' = [pods EXCEPT ![p] = pod] /\ pod.generation = generation
      <4> DEFINE pod == [NoPod EXCEPT !.phase = "starting", !.generation = generation]
      <4>1. pods' = [pods EXCEPT ![p] = pod]
        BY <3>1 DEF CreatePod, SetPod
      <4>2. pod.generation = generation
        BY DEF NoPod
      <4> QED BY <4>1, <4>2
    <3>3. ASSUME RetirePod(p) \/ PodStopped(p)
          PROVE  \E pod : pods' = [pods EXCEPT ![p] = pod] /\ pod.phase \in {"none", "stopping"}
      <4> DEFINE told == [NoPod EXCEPT !.phase = "stopping"]
      <4>1. NoPod.phase = "none" /\ told.phase = "stopping"
        BY DEF NoPod
      <4>2. pods' = [pods EXCEPT ![p] = told] \/ pods' = [pods EXCEPT ![p] = NoPod]
        BY <3>3 DEF RetirePod, PodStopped, SetPod
      <4> HIDE DEF told
      <4> QED BY <4>1, <4>2
    <3>2. ASSUME PodStarts(p) \/ Connect(p) \/ NotConnected(p) \/ PodCrash(p)
          PROVE  \E pod : /\ pods' = [pods EXCEPT ![p] = pod]
                          /\ pods[p].phase \notin {"none", "stopping"}
                          /\ pod.generation = pods[p].generation
      BY <1>0, <3>2 DEF PodStarts, Connect, NotConnected, PodCrash, SetPod
    <3> QED BY <1>3, <3>1, <3>2, <3>3 DEF PodStep
  <2>3. \A q \in Pods : \/ pods'[q].phase \in {"none", "stopping"}
                        \/ pods'[q].generation = generation
                        \/ /\ pods[q].phase \notin {"none", "stopping"}
                           /\ pods'[q].generation = pods[q].generation
    BY <1>0, <2>2
  <2> QED BY <1>1, <2>1, <2>3
<1>4. ASSUME \/ BrokerStarts \/ BrokerLoss \/ TopicAppears \/ JobStep \/ JobFails
             \/ Settled \/ UNCHANGED vars
      PROVE  UNCHANGED <<script, applied, generation, pods>>
  BY <1>4 DEF BrokerStarts, BrokerLoss, TopicAppears, JobStep, JobWaits, JobDescribes,
     JobEnsures, JobFails, Settled, besideJob, vars
<1>5. CASE Begin \/ DeleteJob \/ Pause \/ InfraReady \/ TopicInitialised \/ TopicFailed
  BY <1>5 DEF Begin, DeleteJob, Pause, InfraReady, TopicInitialised, TopicFailed, Pass
<1>6. CASE Apply
  BY <1>0, <1>6 DEF Apply, ApplyWorkers
<1>7. CASE RolloutsStable
  BY <1>0, <1>7 DEF RolloutsStable, RolledOut, Current, Pass
<1>8. CASE Resume \/ HealerRolledOut
  BY <1>8 DEF Resume, HealerRolledOut
<1>9. CASE ApplyFails \/ ScriptFails
  BY <1>0, <1>9 DEF ApplyFails, ApplyWorkers, ScriptFails, Exit
<1> QED BY <1>0, <1>1, <1>2, <1>3, <1>4, <1>5, <1>6, <1>7, <1>8, <1>9 DEF Next, ScriptProceeds

LEMMA NextKnown == TypeOK /\ Known /\ [Next]_vars => Known'
<1> SUFFICES ASSUME TypeOK, Known, [Next]_vars PROVE Known'
  OBVIOUS
<1> USE DEF Known, Goto, cluster
<1>0. job \in [phase : {"none", "waiting", "describe", "ensure", "complete", "failed"},
              found : {"none", "short", "enough"}]
  BY DEF TypeOK
<1>1. ASSUME NEW c \in Controllers, HealerStep(c) \/ HealerRestarts(c)
      PROVE  UNCHANGED <<script, lost, topic, job>>
  BY <1>1 DEF HealerStep, HealerStarts, HealerStops, HealerKilled, SetHealer, HealerRestarts,
     elsewhere
<1>2. ASSUME NEW p \in Pods, PodStep(p) \/ PodCrash(p)
      PROVE  UNCHANGED <<script, lost, topic, job>>
  BY <1>2 DEF PodStep, CreatePod, RetirePod, PodStopped, PodStarts, Connect, NotConnected, PodCrash, SetPod,
     elsewhere
<1>3. CASE UNCHANGED <<script, lost, topic, job>>
  BY <1>3
<1>4. CASE BrokerStarts \/ BrokerLoss \/ TopicAppears
  BY <1>0, <1>4 DEF BrokerStarts, BrokerLoss, TopicAppears
<1>5. CASE JobWaits \/ JobDescribes \/ JobFails
  BY <1>0, <1>5 DEF JobWaits, JobDescribes, JobFails, besideJob
<1>6. CASE JobEnsures
  <2>0. UNCHANGED script /\ job.phase = "ensure"
    BY <1>6 DEF JobEnsures, besideJob
  <2>1. CASE job'.phase = "complete" /\ job.found = "enough" /\ UNCHANGED topic
             /\ lost' = (lost /\ job.found = "enough")
    BY <2>0, <2>1
  <2>2. CASE job'.phase = "complete" /\ topic' = "enough"
    BY <2>0, <2>2
  <2>3. CASE job'.phase \in {"waiting", "describe"} /\ UNCHANGED <<lost, topic>>
    BY <2>0, <2>3
  <2> QED BY <1>0, <1>6, <2>1, <2>2, <2>3 DEF JobEnsures, Again
<1>7. CASE Settled \/ UNCHANGED vars
  BY <1>3, <1>7 DEF Settled, vars
<1>8. CASE Begin
  BY <1>0, <1>8 DEF Begin
<1>9. CASE DeleteJob
  BY <1>0, <1>9 DEF DeleteJob, NoTopicJob
<1>10. CASE Apply \/ ApplyFails
  <2>1. UNCHANGED job \/ job'.phase = "waiting"
    BY <1>10 DEF Apply, ApplyFails, ApplyJob, NoTopicJob
  <2>2. UNCHANGED <<lost, topic>> /\ script' \in {"pause", "failed"}
    BY <1>10 DEF Apply, ApplyFails, Exit
  <2> QED BY <2>1, <2>2
<1>11. CASE Pause \/ InfraReady \/ TopicInitialised \/ RolloutsStable
  BY <1>11 DEF Pause, InfraReady, TopicInitialised, RolloutsStable, Pass
<1>12. CASE TopicFailed \/ Resume \/ HealerRolledOut \/ ScriptFails
  BY <1>12 DEF TopicFailed, Resume, HealerRolledOut, ScriptFails, Exit
<1> QED BY <1>1, <1>2, <1>3, <1>4, <1>5, <1>6, <1>7, <1>8, <1>9, <1>10, <1>11, <1>12
        DEF Next, ScriptProceeds, JobStep

LEMMA Invariance == Spec => []Inv
<1>1. Inv /\ [Next]_vars => Inv'
  BY NextTypes, NextPaused, NextOrdered, NextKnown DEF Inv
<1> QED BY <1>1, InitInv, PTL DEF Spec

\* Every variable keeps its type, for any number of pods, builds and faults.
THEOREM DeployTypeCorrect == Spec => []TypeOK
<1>1. Inv => TypeOK
  BY DEF Inv
<1> QED BY <1>1, Invariance, PTL

\* The controller is off only while a build has it paused, or after one failed.
THEOREM ControllerComesBack == Spec => []OffOnlyWhilePaused
<1>1. Inv => OffOnlyWhilePaused
  BY DEF Inv, Paused
<1> QED BY <1>1, Invariance, PTL

\* When a build has seen the workers' rollout, every worker with an older image was
\* told to stop and none is started any more, however often the controller patches
\* the template meanwhile.
THEOREM OldWorkersAreStopped == Spec => []RolloutIsTheBuilds
<1>1. Inv => RolloutIsTheBuilds
  BY DEF Inv, Ordered
<1> QED BY <1>1, Invariance, PTL

\* A build that has waited for the topic job finds enough partitions, unless the
\* broker lost them after the job.
THEOREM TopicIsEnsured == Spec => []TopicEnsured
<1>1. Inv => TopicEnsured
  BY Zenon DEF Inv, Known, TopicEnsured
<1> QED BY <1>1, Invariance, PTL
===============================================================================
