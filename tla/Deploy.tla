------------------------------- MODULE Deploy -------------------------------
(***************************************************************************)
(* jenkins-deploy-k8s.sh against the objects it applies, waits for and     *)
(* scales, with the pods that come and go meanwhile: processes of the      *)
(* healing controller, worker pods that start up and look for the broker,  *)
(* and the job that creates the topic.  Each kubectl call of the script is *)
(* a step; under set -e a call that fails ends the build, unless the line  *)
(* ends in || true.  Jenkins runs one build at a time.                     *)
(***************************************************************************)
EXTENDS Integers, FiniteSets

CONSTANTS Controllers,  \* room for processes of the healing controller
          Pods,         \* room for worker pods, with the surge pod and those told to stop
          Replicas,     \* spec.replicas of job-worker
          Builds,       \* builds Jenkins may start
          Budgets       \* how often calls and waits may fail, the broker may be
                        \* lost, pods crash (all "fault"), and restarts be patched

ASSUME DeployAssumption ==
  /\ IsFiniteSet(Controllers) /\ IsFiniteSet(Pods)
  /\ Replicas \in Nat \ {0} /\ Builds \in Nat
  /\ Budgets \subseteq [{"fault", "restart"} -> Nat]

VARIABLES
  script,      \* the next call of the build, or how it ended
  build,       \* number of the running or last build
  lastFailed,  \* the build before this one, or this one, failed
  wanted,      \* spec.replicas of healing-controller
  healer,      \* its processes: of the applied template, of an older one, terminating
  generation,  \* of job-worker's template; 0: not deployed
  applied,     \* the generation that brought the image of the last apply to job-worker
  pods,        \* worker pods
  broker,      \* of redpanda
  lost,        \* the broker lost its topics after the topic job last looked or acted
  topic,       \* partitions of the topic: none, fewer than 6, at least 6
  job,         \* redpanda-topic-init
  budget

cluster == <<wanted, healer, generation, pods, broker, topic, job>>
vars    == <<script, build, lastFailed, applied, lost, cluster, budget>>

\* Positions from the pause to the resume, and all.
Waits     == {"infra", "topic", "rollouts", "resume"}
Positions == {"idle", "delete", "apply", "pause", "healer", "done", "failed"} \cup Waits

NoPod == [phase |-> "none", generation |-> 0]
NoTopicJob == [phase |-> "none", found |-> "none"]

\* Pods that were told to stop no longer count, neither for the update nor for
\* rollout status, although their processes go on for a while.
Live     == {p \in Pods : pods[p].phase \notin {"none", "stopping"}}
\* /readyz answers 200 from the moment the health server runs, before there
\* is a consumer, and whatever becomes of it.
Ready    == {p \in Pods : pods[p].phase \in {"connecting", "consuming"}}
Current  == {p \in Live : pods[p].generation = generation}
Running  == {c \in Controllers : healer[c] \in {"new", "old"}}
NewOnes  == {c \in Controllers : healer[c] = "new"}

Spend(kind) == budget[kind] > 0 /\ budget' = [budget EXCEPT ![kind] = @ - 1]

-------------------------------------------------------------------------------
(***************************************************************************)
(* The script                                                              *)
(***************************************************************************)
Goto(from, to) == script = from /\ script' = to

\* A call fails, or a wait runs into its --timeout: the build has failed.
Exit ==
  /\ script \in (Positions \ {"idle", "done", "failed"})
  /\ script' = "failed" /\ lastFailed' = TRUE
  /\ Spend("fault")
  /\ UNCHANGED <<build, lost>>

Begin ==
  /\ script \in {"idle", "done", "failed"} /\ build < Builds
  /\ script' = "delete" /\ build' = build + 1
  /\ UNCHANGED <<lastFailed, applied, lost, cluster, budget>>

\* kubectl delete job waits until the job is gone.  If "kubectl get namespace"
\* fails, for whatever reason, the job stays.
DeleteJob ==
  /\ Goto("delete", "apply")
  /\ \/ job' = NoTopicJob /\ UNCHANGED budget
     \/ Spend("fault") /\ UNCHANGED job
  /\ UNCHANGED <<build, lastFailed, applied, lost, wanted, healer, generation, pods, broker, topic>>

\* What apply does to each object.  replicas: 1 is in the manifest, so the
\* controller is switched on again.  A new image replaces its processes; the
\* image is the same when IMAGE_TAG, or the commit, is that of the last build.
ApplyHealer ==
  /\ wanted' = 1
  /\ \/ healer' = [c \in Controllers |-> IF healer[c] = "new" THEN "old" ELSE healer[c]]
     \/ UNCHANGED healer

\* The annotation of a restart is not in the manifest and stays.
ApplyWorkers ==
  \/ generation' = generation + 1 /\ applied' = generation'
  \/ generation > 0 /\ UNCHANGED <<generation, applied>>

ApplyBroker == broker' = IF broker = "absent" THEN "down" ELSE broker

\* A job that is still there is left as it is.
ApplyJob == job' = IF job.phase = "none"
                     THEN [NoTopicJob EXCEPT !.phase = "waiting"] ELSE job

Apply ==
  /\ Goto("apply", "pause")
  /\ ApplyHealer /\ ApplyWorkers /\ ApplyBroker /\ ApplyJob
  /\ UNCHANGED <<build, lastFailed, lost, pods, topic, budget>>

\* kubectl apply goes on after an object that it could not apply, and fails in
\* the end.
ApplyFails ==
  /\ script = "apply" /\ Exit
  /\ ApplyHealer \/ UNCHANGED <<wanted, healer>>
  /\ ApplyBroker \/ UNCHANGED broker
  /\ ApplyJob \/ UNCHANGED job
  /\ ApplyWorkers \/ UNCHANGED <<generation, applied>>
  /\ UNCHANGED <<pods, topic>>

\* scale --replicas=0 || true
Pause ==
  /\ Goto("pause", "infra")
  /\ \/ wanted' = 0 /\ UNCHANGED budget
     \/ Spend("fault") /\ UNCHANGED wanted
  /\ UNCHANGED <<build, lastFailed, applied, lost, healer, generation, pods, broker, topic, job>>

Pass(from, to) ==
  /\ Goto(from, to)
  /\ UNCHANGED <<build, lastFailed, applied, lost, cluster, budget>>

\* rollout status of redis and redpanda
InfraReady == broker = "up" /\ Pass("infra", "topic")

\* wait --for=condition=complete; a job that failed never completes, and the
\* wait runs out.
TopicInitialised == job.phase = "complete" /\ Pass("topic", "rollouts")

TopicFailed ==
  /\ Goto("topic", "failed") /\ job.phase = "failed"
  /\ lastFailed' = TRUE
  /\ UNCHANGED <<build, applied, lost, cluster, budget>>

\* Mutated form: the new pods are there, the old ones may be too.
RolledOut_NewOnly == Cardinality(Current \cap Ready) >= Replicas

\* rollout status: every pod that was not told to stop is of the template as it
\* is now, and ready.
RolledOut == Live = Current /\ Current \subseteq Ready /\ Cardinality(Live) = Replicas

RolloutsStable == RolledOut /\ Pass("rollouts", "resume")

\* Mutated form: scale --replicas=1 || true
Resume_Tolerant ==
  /\ Goto("resume", "healer")
  /\ \/ wanted' = 1 /\ UNCHANGED budget
     \/ Spend("fault") /\ UNCHANGED wanted
  /\ UNCHANGED <<build, lastFailed, applied, lost, healer, generation, pods, broker, topic, job>>

\* scale --replicas=1
Resume ==
  /\ Goto("resume", "healer")
  /\ wanted' = 1
  /\ UNCHANGED <<build, lastFailed, applied, lost, healer, generation, pods, broker, topic, job, budget>>

\* rollout status of the controller; the build has succeeded.
HealerRolledOut ==
  /\ Goto("healer", "done")
  /\ Cardinality(NewOnes) = wanted /\ Running = NewOnes
  /\ lastFailed' = FALSE
  /\ UNCHANGED <<build, applied, lost, cluster, budget>>

ScriptProceeds ==
  \/ DeleteJob \/ Apply \/ Pause \/ InfraReady \/ TopicInitialised \/ TopicFailed
  \/ RolloutsStable \/ Resume \/ HealerRolledOut

ScriptFails == script # "apply" /\ Exit /\ UNCHANGED <<applied, cluster>>

-------------------------------------------------------------------------------
(***************************************************************************)
(* The healing controller's processes                                      *)
(***************************************************************************)
elsewhere == <<script, build, lastFailed, applied, lost, wanted, broker, topic, job>>

SetHealer(c, from, to) ==
  /\ healer[c] = from
  /\ healer' = [healer EXCEPT ![c] = to]
  /\ UNCHANGED <<elsewhere, generation, pods, budget>>

\* A rolling update: the new process runs before the old one is told to go.
HealerStarts(c) ==
  /\ healer[c] = "none" /\ c = CHOOSE d \in Controllers : healer[d] = "none"
  /\ Cardinality(NewOnes) < wanted /\ SetHealer(c, "none", "new")

HealerStops(c) ==
  \/ (wanted = 0 \/ NewOnes # {}) /\ SetHealer(c, "old", "stopping")
  \/ wanted = 0 /\ SetHealer(c, "new", "stopping")

\* The loop has no handler for SIGTERM and is process 1 of its container: it
\* goes on until it is killed.
HealerKilled(c) == SetHealer(c, "stopping", "none")

\* patch_namespaced_deployment: a new template of the same image.
HealerRestarts(c) ==
  /\ healer[c] # "none" /\ generation > 0
  /\ Spend("restart")
  /\ generation' = generation + 1
  /\ UNCHANGED <<elsewhere, healer, pods>>

-------------------------------------------------------------------------------
(***************************************************************************)
(* Worker pods                                                             *)
(***************************************************************************)
SetPod(p, from, pod) ==
  /\ pods[p].phase = from
  /\ pods' = [pods EXCEPT ![p] = pod]
  /\ UNCHANGED <<elsewhere, healer, generation>>

\* maxSurge 1, maxUnavailable 0.  Which of the free names a pod gets is immaterial.
CreatePod(p) ==
  /\ pods[p].phase = "none" /\ p = CHOOSE q \in Pods : pods[q].phase = "none"
  /\ generation > 0
  /\ Cardinality(Current) < Replicas /\ Cardinality(Live) <= Replicas
  /\ SetPod(p, "none", [NoPod EXCEPT !.phase = "starting", !.generation = generation])
  /\ UNCHANGED budget

\* An old pod is told to stop; its template is of no interest any more.
RetirePod(p) ==
  /\ pods[p].generation # generation
  /\ Cardinality(Ready \ {p}) >= Replicas
  /\ \E phase \in {"starting", "connecting", "consuming"} :
       SetPod(p, phase, [NoPod EXCEPT !.phase = "stopping"])
  /\ UNCHANGED budget

\* SIGTERM clears RUNNING, which the loop looks at when it has another message:
\* it is left then, or the process is killed waiting for one.  Before there is a
\* consumer there is no handler either.
PodStopped(p) ==
  /\ SetPod(p, "stopping", NoPod)
  /\ UNCHANGED budget

\* main: settings, health server, repository; then _create_consumer begins.
PodStarts(p) ==
  /\ SetPod(p, "starting", [pods[p] EXCEPT !.phase = "connecting"])
  /\ UNCHANGED budget

\* Mutated form: the consumer is not accepted without its topic.
Connect_NeedsTopic(p) ==
  /\ broker = "up" /\ topic # "none"
  /\ SetPod(p, "connecting", [pods[p] EXCEPT !.phase = "consuming"])
  /\ UNCHANGED budget

\* KafkaConsumer finds the broker: the loop over messages begins.
Connect(p) ==
  /\ broker = "up"
  /\ SetPod(p, "connecting", [pods[p] EXCEPT !.phase = "consuming"])
  /\ UNCHANGED budget

\* Mutated form: after the last attempt the process stays as it is.
NotConnected_GivesUp(p) ==
  /\ broker # "up"
  /\ \E phase \in {"connecting", "gaveUp"} :
       SetPod(p, "connecting", [pods[p] EXCEPT !.phase = phase])
  /\ UNCHANGED budget

\* NoBrokersAvailable: another attempt, or after the twelfth the RuntimeError
\* that ends the process, whose container Kubernetes restarts.
NotConnected(p) ==
  /\ broker # "up"
  /\ \E phase \in {"connecting", "starting"} :
       SetPod(p, "connecting", [pods[p] EXCEPT !.phase = phase])
  /\ UNCHANGED budget

PodCrash(p) ==
  /\ Spend("fault")
  /\ SetPod(p, "consuming", [pods[p] EXCEPT !.phase = "starting"])

-------------------------------------------------------------------------------
(***************************************************************************)
(* The broker and the job that creates the topic                           *)
(***************************************************************************)
BrokerStarts ==
  /\ broker = "down" /\ broker' = "up"
  /\ UNCHANGED <<script, build, lastFailed, applied, lost, wanted, healer, generation, pods,
                 topic, job, budget>>

\* The pod of redpanda, which has no volume, is replaced.
BrokerLoss ==
  /\ broker = "up" /\ broker' = "down"
  /\ Spend("fault")
  /\ topic' = "none" /\ lost' = TRUE
  /\ UNCHANGED <<script, build, lastFailed, applied, wanted, healer, generation, pods, job>>

\* Someone else creates the topic, with fewer partitions.
TopicAppears ==
  /\ broker = "up" /\ topic = "none" /\ topic' = "short"
  /\ Spend("fault")
  /\ UNCHANGED <<script, build, lastFailed, applied, lost, wanted, healer, generation, pods,
                 broker, job>>

besideJob == <<script, build, lastFailed, applied, wanted, healer, generation, pods, broker>>

\* Both loops count their tries (180 and 60); after the last one the
\* container exits and is restarted.
Again(phase) == \E next \in {phase, "waiting"} : job' = [job EXCEPT !.phase = next]

\* until rpk cluster info
JobWaits ==
  /\ job.phase = "waiting"
  /\ broker = "up" /\ job' = [job EXCEPT !.phase = "describe"]
  /\ UNCHANGED <<besideJob, lost, topic, budget>>

\* rpk topic describe; a failure shows as no partitions.
JobDescribes ==
  /\ job.phase = "describe"
  /\ job' = [job EXCEPT !.phase = "ensure", !.found = IF broker = "up" THEN topic ELSE "none"]
  /\ lost' = FALSE
  /\ UNCHANGED <<besideJob, topic, budget>>

\* Mutated form: a topic that is there has its partitions.
JobEnsures_CreatesOnly ==
  /\ job.phase = "ensure"
  /\ \/ /\ job.found # "none" \/ (broker = "up" /\ topic = "none")
        /\ job' = [job EXCEPT !.phase = "complete"]
        /\ topic' = IF job.found = "none" THEN "enough" ELSE topic
        /\ lost' = (lost /\ job.found # "none")
     \/ job.found = "none" /\ ~(broker = "up" /\ topic = "none") /\ Again("describe") /\ UNCHANGED <<lost, topic>>
  /\ UNCHANGED <<besideJob, budget>>

\* topic create, or add-partitions, or nothing to do; what was found may be
\* outdated, and then the command fails and the loop looks again.
JobEnsures ==
  /\ job.phase = "ensure"
  /\ \/ /\ job.found = "enough" \/ (broker = "up" /\ topic = job.found)
        /\ job' = [job EXCEPT !.phase = "complete"]
        /\ topic' = IF job.found = "enough" THEN topic ELSE "enough"
        /\ lost' = (lost /\ job.found = "enough")
     \/ job.found # "enough" /\ ~(broker = "up" /\ topic = job.found)
        /\ Again("describe") /\ UNCHANGED <<lost, topic>>
  /\ UNCHANGED <<besideJob, budget>>

\* backoffLimit or activeDeadlineSeconds
JobFails ==
  /\ job.phase \in {"waiting", "describe", "ensure"}
  /\ job' = [job EXCEPT !.phase = "failed"]
  /\ Spend("fault")
  /\ UNCHANGED <<besideJob, lost, topic>>

JobStep == JobWaits \/ JobDescribes \/ JobEnsures

-------------------------------------------------------------------------------
Init ==
  /\ script = "idle" /\ build = 0 /\ lastFailed = FALSE
  /\ wanted = 0 /\ healer = [c \in Controllers |-> "none"]
  /\ generation = 0 /\ applied = 0
  /\ pods = [p \in Pods |-> NoPod]
  /\ broker = "absent" /\ topic = "none" /\ lost = FALSE
  /\ job = NoTopicJob
  /\ budget \in Budgets

HealerStep(c) == HealerStarts(c) \/ HealerStops(c) \/ HealerKilled(c)

PodStep(p) ==
  \/ CreatePod(p) \/ RetirePod(p) \/ PodStopped(p)
  \/ PodStarts(p) \/ Connect(p) \/ NotConnected(p)

\* Nothing is left to do but to wait for another build.
Settled ==
  /\ script \in {"idle", "done", "failed"} /\ build = Builds
  /\ UNCHANGED vars

Next ==
  \/ Begin \/ ScriptProceeds \/ ApplyFails \/ ScriptFails
  \/ \E c \in Controllers : HealerStep(c) \/ HealerRestarts(c)
  \/ \E p \in Pods : PodStep(p) \/ PodCrash(p)
  \/ BrokerStarts \/ BrokerLoss \/ TopicAppears \/ JobStep \/ JobFails
  \/ Settled

Spec == Init /\ [][Next]_vars

\* The script proceeds when what it waits for is there; Kubernetes starts,
\* replaces and kills; a broker that was applied comes up.
Fairness ==
  /\ WF_vars(ScriptProceeds)
  /\ \A c \in Controllers : WF_vars(HealerStep(c))
  /\ \A p \in Pods : WF_vars(PodStep(p))
  /\ WF_vars(BrokerStarts) /\ WF_vars(JobStep)

FairSpec == Spec /\ Fairness

-------------------------------------------------------------------------------
TypeOK ==
  /\ script \in Positions
  /\ build \in 0..Builds /\ lastFailed \in BOOLEAN /\ lost \in BOOLEAN
  /\ wanted \in 0..1
  /\ healer \in [Controllers -> {"none", "new", "old", "stopping"}]
  /\ generation \in Nat /\ applied \in Nat
  /\ pods \in [Pods -> [phase : {"none", "starting", "connecting", "consuming", "stopping"},
                        generation : Nat]]
  /\ broker \in {"absent", "down", "up"} /\ topic \in {"none", "short", "enough"}
  /\ job \in [phase : {"none", "waiting", "describe", "ensure", "complete", "failed"},
              found : {"none", "short", "enough"}]
  /\ budget \in [{"fault", "restart"} -> Nat]

\* A deployed controller is switched off only between the pause and the resume
\* of a build, or because a build failed and no later apply or resume has
\* switched it on again; a build that succeeded never leaves it off.
OffOnlyWhilePaused == wanted = 0 /\ applied > 0 => script \in Waits \/ lastFailed

\* When the script has seen the rollout of the workers, every pod that still runs
\* an older image than that of this build was told to stop, although the
\* controller may have changed the template again and again during the rollout;
\* and none is started with an older image any more.  (An old worker may well be
\* at a message then: rollout status does not wait for its end.)
RolloutIsTheBuilds ==
  script \in {"resume", "healer", "done"} =>
    \A p \in Pods : pods[p].phase \notin {"none", "stopping"} => pods[p].generation >= applied

\* Past the wait for the topic there are enough partitions: what the completed
\* job found or did is still true, unless the broker lost its topics after that.
\* The job may be one of an earlier build, that could not be deleted.
TopicEnsured ==
  script \in {"rollouts", "resume", "healer", "done"} /\ ~lost => topic = "enough"

\* If the last build succeeds, then in the end one process of the controller
\* runs, of the new template, every worker is in its loop, those told to stop are
\* gone, and the broker is up: failed builds, pauses that failed, overlapping
\* controllers, restarts in the middle of a rollout and lost brokers do not keep
\* the processes from it.  The topic is there too if the broker has not lost it
\* since the topic job; nothing in the repository but another build creates it again.
DeploymentServes ==
  <>[](script = "done") =>
    <>[](/\ Cardinality(NewOnes) = 1 /\ \A c \in Controllers : healer[c] \in {"new", "none"}
         /\ RolledOut
         /\ \A p \in Pods : pods[p].phase \in {"none", "consuming"}
         /\ broker = "up" /\ (lost \/ topic = "enough"))
===============================================================================
