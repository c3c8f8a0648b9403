# A verification development for the chaos platform's order pipeline

TLA+ models of the repository's core logic, checked with TLC on small instances,
and theorems about them checked by TLAPS for every value of the constants.

## The system

Customers place food orders at a Java **Order API** (Spring). It stores a job
record in **Redis**, publishes the job to a **Kafka** topic (Redpanda) and
answers 202. Python **workers** of one consumer group process the jobs and update
the records. A **healing controller** polls the records' statuses and patches
the worker deployment in Kubernetes: it scales on backlog and restarts on
failures. A failed order can be retried: the API creates a new job with
`retry_of` set, links it into the failed record, and the worker marks the
original recovered when the retry completes.  Jenkins deploys all of this with a
**script** of kubectl calls, which pauses the healing controller while the workers
roll out and waits for a **job** that creates the Kafka topic.  A **load generator**
submits orders from a pool of threads.

### Inventory

| component | state | operations | interacts by | hard behaviour | what makes it correct |
|---|---|---|---|---|---|
| Order API (`OrderService`, `OrderRepository`, `OrderJobFactory`) | none of its own; one handler per request, its local copies of records, the producer's buffer | `placeOrder`, `retryFailedOrder` → `enqueueJob`: `save` (SET, LPUSH, LTRIM), `send(..).get(10 s)`, `markFailed` (GET, SET), `linkRecoveryJob` (GET, SET) | Redis commands, Kafka send | handlers run concurrently with each other and with workers; timeouts whose record arrives late; pods that die between calls | accepted orders are not lost but with the broker's log; nothing is published twice; links name real retries; requests end |
| HTTP layer (`OrderController`) | – | POST orders, POST retry, GET order/orders/metrics, health | calls the service | – | – |
| Job records (`models.py`, `repository.py`, `OrderRepository`) | `jobs:<id>`, `jobs:recent` | save, get, update, mark_recovered, markFailed, linkRecoveryJob, list, metrics | shared by API, workers, controller | read–modify–write without transactions; 500-entry list; non-atomic scan | what a record shows has happened; fields agree; an order is listed once |
| Worker (`worker_service/main.py`, `processor.py`) | position in a partition, current message, `RUNNING` | fetch, `handle_message`, commit, SIGTERM | Kafka group, Redis | crash or loss of the partition between any two steps, redelivery, rebalances | at least once; finished orders end in a final status |
| Healing controller (`healing_controller/main.py`, `policy.py`) | last restart's failure count and time | one pass: metrics, replicas, decide, apply | Redis, Kubernetes API | environment moves between its calls; its process forgets; clock read twice | replica limits; cooldown; no restart without news; lasting backlog has its effect |
| Kubernetes, HPA, Redis, Redpanda | deployment spec/status, data, logs, offsets | follow, roll out, scale, append, assign, evict, lose data | – | all of it spontaneous | environment |
| Dashboard (`dashboard.js`) | last list, selection, panel, in-flight flags, burst counters | poll, select, submit, retry, burst | HTTP | handlers await answers while polls overlap and the user clicks; answers out of order; failing requests | no second retry while one is under way; panel and table agree; buttons come back; the page catches up |
| Deploy script (`jenkins-deploy-k8s.sh`) | what it has applied so far | delete the topic job, apply, pause the controller, wait for infrastructure, topic and rollouts, resume | kubectl | exits at any call; partial applies; a pause that comes after the apply and may fail unnoticed; a controller that patches during the rollout | the controller comes back; the rollout it reports is its own; after a successful build every process gets to its loop |
| Topic job (`redpanda-topic-job.yaml`) | tries | wait for the broker, look at the topic, create it or add partitions | rpk | outdated look; restarts; jobs of earlier builds; a broker without a volume | enough partitions past the wait |
| Worker health server (`health.py`) | – | answers probes | kubelet | says nothing of the consumer | – |
| Load generator (`load_generator.py`) | futures, results | submit, collect, report | HTTP | time-outs of requests that go on; errors of one thread while others submit | what it prints is true; it ends |
| Chaos experiments, publisher and settings in `platform_common`, observability, Vault, Ansible, Terraform | – | – | – | – | not modelled, see below |

`PROJECT.json` lists all of them with the reason where one is left out, and under
`hazards` what is hard to test, at its line, with the properties that watch it.

## Modules

| module | what it is |
|---|---|
| `JobStore` | the record of an order and the pure functions that API and workers apply to it; the two list operations |
| `OrderPipeline` | handlers, broker, workers, group, faults; all pipeline properties |
| `AtLeastOnceQueue` | abstract specification of what the pipeline promises |
| `OrderLifecycle` | abstract specification of the status of an order, as customers see it |
| `MCOrderPipeline` | fault scenarios (budgets) and symmetry for TLC |
| `PipelineProofs` | theorems about `OrderPipeline`: types, Kafka, the refinement of `AtLeastOnceQueue` |
| `RecordProofs` | theorems about the records: what they claim is true |
| `ListProofs` | theorems about `jobs:recent`: bounded, and nothing twice or missing |
| `SettleProofs` | theorems about where an order ends: settling, retries, the refinement of `OrderLifecycle` |
| `MetricsScan` | composes the pipeline with a reader of its records: `metrics()` as LRANGE and one GET per id |
| `LoadGenerator` | composes the pipeline and the scan with the client that submits orders in place of `Client` |
| `MCLoadGenerator` | instance for TLC |
| `ScanProofs` | theorems about `MetricsScan` and `LoadGenerator` |
| `HealingPolicy` | `decide_actions` |
| `HealingController` | the controller's loop and its environment; its properties |
| `MCHealingController` | instance for TLC |
| `HealingProofs` | theorems about `HealingController` |
| `Deploy` | the deployment script, the objects it applies and waits for, and the pods behind them |
| `MCDeploy` | instance for TLC |
| `DeployProofs` | theorems about `Deploy` |
| `Dashboard` | the page's handlers between their awaits, with the API behind it reduced to a list of orders |
| `MCDashboard` | instance for TLC |
| `DashboardProofs` | theorems about `Dashboard` |

Definitions whose name is that of another one followed by an underscore and a
word (`AckPublish_Unawaited`) are *mutated forms*: plausible mistakes that no
specification uses. `PROJECT.json` says which property each of them breaks when
it is put in place of the original, so every property is known to depend on
the code.

### OrderPipeline and the code

A handler is named by the id of the order it creates; `apiPc[o]` says which of
its calls comes next. The order of the program counters is the order of the
statements of `enqueueJob`:

    set push trim  -- OrderRepository.save, three commands
    send await     -- kafkaTemplate.send(...) and .get(10, SECONDS)
    markRead markWrite            -- markFailed, then 503: "rejected"
    linkRead linkWrite            -- linkRecoveryJob, then 202: "accepted"

A worker's `wPc[w]` follows `handle_message` and the loop around it:

    idle exists save              -- for message in consumer; repo.get is None?; save
    runRead runWrite              -- update(RUNNING)
    endRead endWrite              -- process_job, then update(COMPLETED | FAILED)
    recRead recWrite              -- mark_recovered(retry_of, job_id)
    commit                        -- consumer.commit()

Every Redis command and every Kafka call is one step. `RedisJobRepository.save`
is a MULTI/EXEC pipeline and so one step; `OrderRepository.save` is three. A read
copies the record into `apiSnap` or `wSnap`, the write half puts the changed
copy back, and anybody may step in between: this is where most hazards are.

Records keep the fields that code branches on or overwrites: status, presence of
result and error, recovery link. `processed` is counted in `executed`, an auxiliary
variable. `job` keeps `retry_of` and `force_fail` of the message; they never
change once the handler built it.

Kafka: `BrokerAppend` moves a record from the producer's buffer to the end of
some partition, once (the producer is idempotent by the client's default; the
repository sets acks=all and retries). `get` may fail with the record appended,
still in the buffer, or given up. A group member keeps its partitions
(`owner`) until it dies or is evicted; an evicted worker goes on with its
message, and its commit fails, which ends its process. A partition is assigned
only to a worker that is not in the middle of a message, because members join a
rebalance inside `poll()`.

Redpanda has no volume, like Redis. `BrokerLoss` empties the log and ends the
consumer group: workers go on with messages they can no longer commit, and the
producer may send again what it was not told of (`Unanswered`). `budget.lost`
remembers the orders whose record was in the topic then; a record is `Logged` if the
topic holds it or has held it. The new broker is there at once and has its topic;
that somebody has to create it is the business of `Deploy`.

Faults and their budget: failed publishes, API crashes, worker crashes,
evictions, SIGTERM, loss of Redis and loss of the broker (and, in `LoadGenerator`,
failing requests) each spend from `budget.left`, so a run names exactly which faults
it allows.
`budget.spent` collects the kinds of fault that have happened; properties that
hold only until, or only without, some fault ask it (`Happened`), whatever budget
was left. A crash also stands for any exception that
nothing catches at that point (a Redis error in a handler or a worker).

### MetricsScan and LoadGenerator and the code

A scan is `BeginScan` (LRANGE of the newest `ScanLimit` ids) and one `GetNext` per
id; any step of the pipeline may come between. `Backlog` and `Total` are the two
results of `_metrics_from_jobs` the healing controller and the dashboards use. A
missing record is not counted, as in `list_recent`.

`future[o]` is the future of one `submit_order`: pending until a free thread of the
pool takes it, running while `urlopen` waits, ok or error when it returns or
raises. The POST itself is `PlaceOrder` of the pipeline, so the handler of an order
goes on when the client has given up on it, and an answer may be lost after the
handler has ended. `main` collects futures as they are
done (`Collect`); the first error makes it leave the loop, but the `with` block
waits for all the others, which go on submitting (`Leave`). `submitted` is what
`len(submitted)` counts in the last line printed.

### Deploy and the code

`script` names the next kubectl call; under `set -e` every call and wait may end
the build (`ScriptFails`, `ApplyFails`), except where the line ends in `|| true`.

    delete          -- delete job redpanda-topic-init, if the namespace is found
    apply           -- every object: replicas: 1 for the controller, new templates
    pause           -- scale healing-controller --replicas=0 || true
    infra topic rollouts          -- the waits
    resume healer   -- scale --replicas=1, and wait for its rollout

`kubectl apply` goes on after an object it cannot apply and fails in the end, so
`ApplyFails` leaves any part of it. `generation` numbers the templates of
job-worker: one per apply of another image and one per restart by the healing
controller (`HealerRestarts`). An apply of the image that is there (the same
IMAGE_TAG, or the same commit) changes no template, because the annotation of a
restart is not in the manifest. `applied` is the generation that brought the image
of the last apply. A pod is ready from the moment its health server runs, whether it
has found the broker or not. Worker pods roll with `maxSurge` 1 and
`maxUnavailable` 0, whatever the number of `Replicas`.

Both kinds of process outlive the order to stop. A worker's SIGTERM handler clears
`RUNNING`, which the loop looks at when the next message is there, so it finishes a
message, or waits for one until it is killed; before it has a consumer it has no
handler. A pod that was told to stop is therefore *stopping* until `PodStopped`, and
neither the update nor `rollout status` counts it any more. The controller's loop has
no SIGTERM handler and is process 1 of its container, and goes on until it is killed.

The topic job is its shell script: wait for the broker, look, act on what was
found; after the last try of either loop the container ends and begins again.
Several builds follow one another, as `disableConcurrentBuilds` says.

The comment in the script says the pause is there "so it cannot restart workers
mid-deploy". It can: the apply has just set `replicas: 1`, the pause may fail
unnoticed, and the process goes on until it is killed. What holds nevertheless is
`RolloutIsTheBuilds`, because a restart makes a template of the same image, and
`rollout status` waits for the newest one. It says that every pod with an older image
was told to stop and that none is started any more, not that they are gone: a
build may report success while an old worker is still at a message.

`lost` says that the broker lost its topics after the topic job last looked at them
or changed them. Nothing in the repository creates the topic again then but another
build (somebody outside may, `TopicAppears`). So `TopicEnsured` and the
topic in `DeploymentServes` are claimed only while it is false; that the broker is up,
and that the processes get to their loops, is claimed in any case.

### HealingController and the code

One pass is `ReadMetrics`, `ReadReplicas` (which also forgets the remembered
count below the threshold and runs `decide_actions`), then for each action of
the plan `ApplyScale`, or `SuppressRestart`, or
`BeginRestart`/`ApplyRestart`/`NoteRestart` (clock, patch, second clock and
bookkeeping), then `Sleep`. Clock readings are modelled by their age, capped at
the cooldown. `Crash` loses what the process remembers; its successor starts
with `last_restart_time = 0.0`, that is, with an age equal to the uptime of the
host. The environment changes metrics at will, pods follow
`spec.replicas` one by one, a rollout surges by one pod (`maxSurge: 1`,
`maxUnavailable: 0`), the HPA writes `spec.replicas` too, as often as it likes.

### Dashboard and the code

The script has one thread, so a step is what runs between two awaits. `pc[h]` says
whether `submitOrder`, `retrySelectedOrder` or `runBurst` waits for its POST
(posting) or for the poll it ends with (polling); `post` and `poll` hold the
requests and the answers on their way. A poll reads the list at one moment
(`AnswerPoll`) and is rendered at a later one (`PollDone`, when its other three
answers are there), so a poll that was answered earlier may be rendered later.
`detail` is what `renderDetail` was last called with, and whether the retry
button is enabled; `selected` may be ahead of it. `AfterPoll` runs the rest of the
handler that awaited the poll in the same step. A click on the retry button that
finds no failed order returns without any change and is therefore no step.
`FreePolls` bounds how many polls of the timer, the Refresh button and `boot`
overlap; each handler has one poll of its own on top. A failing POST (`FailPost`)
leaves nothing, an order that is stored as failed, or an accepted one whose answer was
lost. The API is reduced to the orders it created and their statuses; what it does
inside is the business of `OrderPipeline`. In particular a list is a snapshot of one
moment, although `listRecent` reads the ids and then one record after the other:
a list that mixes two moments would have the effect of one more poll in between, and
no property of the page is about the moment.

## Runs

| run | question | bounds | result |
|---|---|---|---|
| `pipeline_faults` | which guarantees survive anything, and what leaves an order queued or running | 2 orders (one may retry the other), 2 workers, 1 partition, list cap 1; any two faults of different kinds (without the broker's loss) and a retry; three faults of different kinds among {publish, API crash, worker crash, SIGTERM} or {publish, API crash, evict, SIGTERM}; two retries and a SIGTERM; the broker's loss with a failed publish, with a worker crash or with a retry | 2.2 million states: at-least-once, accepted orders are lost with the broker's log only, published once, outcomes and links are justified, fields agree, committed orders rest in a final status but for the three combinations below, the list is bounded |
| `pipeline_retries` | what retries leave behind, and the way every status goes, without late or second deliveries | 3 orders, 2 partitions, two retries, one crash of the API | 818 000 states: originals stay failed or recovered and linked, every change of a status is a transition of `OrderLifecycle` |
| `pipeline_live` | does everything end | one fault of any kind but the loss of Redis or of the broker, or one retry; fairness | 125 000 states: `jobs:recent` lists every stored order once; refines `AtLeastOnceQueue` with its fairness, requests end, published orders settle for good |
| `retry_recovers` | finding | no fault, one retry | violated |
| `retried_only_if_failed` | finding | one publish timeout, one retry | violated |
| `healing_safety` | limits, cooldown, news, one direction | 1–3 replicas, backlog and failures around their thresholds, cooldown of 2 ticks, one crash, an HPA that writes without end | 1.4 million states |
| `healing_live` | lasting conditions have their effect | 1–3 replicas, backlogs that ask for one replica more per pass and for all at once, no crash, an HPA without end; fairness | 180 000 states |
| `scale_out_raises` | finding | small | violated |
| `load_and_scan` | is what the load generator prints, and what a scan counts, true; does the load drain | 2 orders, 2 threads, 1 worker, scans of 2; one failing request, failed publish or worker crash; fairness | 207 000 states: the report is true, a backlog of 0 means served, the total counts each listed order once, the script ends, and in the end every scan reports an empty backlog and all orders |
| `deploy` | where a build leaves controller, workers and topic | 2 builds of one image or two, 1 replica (room for 3 pods), 2 controller processes, two faults or two restarts by the controller; fairness | 298 000 states: the controller is off only while paused or after a failure, older workers are told to stop by the end of a rollout, the topic is there unless it was lost after the job, and after a successful last build the old processes go and the new ones get to their loops |
| `dashboard_page` | does the page stay consistent and come back | 2 orders, a list of 1; two submissions and a retry, or a burst of 3 in 2 loops and a retry; one free poll besides those of the handlers, one failing request; fairness | 241 000 states: the guard of the retry button, agreement of panel and table and the counts of a burst hold, every handler ends, the page catches up |
| `retries_shown_order` | finding | 3 orders, a list of 2, a submission, a burst and a retry, no failing request | violated |

*Why the bounds are enough to be of interest.* Every interference between two
writers of one record needs one record, two writers and a read before the
other's write; two workers, a handler and one retry of the order give all four
kinds of writer (`markFailed`, `linkRecoveryJob`, `update`, `mark_recovered`) at
once. Third orders matter only for two retries of one order or a retry of a
retry (`pipeline_retries`). List caps of 1 and 2 are below the number of orders,
so trimming happens. Two faults reach every pair; the proofs below lift the
safety properties from these bounds to any number of orders, workers and faults.

`load_and_scan` scans as many entries as there are orders, so it says nothing of
scans that the 500-entry cap cuts off; `ZeroBacklogIsServed` and `TotalCountsEachOnce`
are proved for every scan limit, of what a scan has listed.

For the page, two orders and a list of one let the selection fall off the list,
a burst of three in two loops makes a loop shift a second index, and one free poll
next to a handler's own gives two answers to render in either order.

Two builds are enough for a build to find what a failed one left; a lost broker or
a job that was not deleted plus one more failure reach what `TopicEnsured`
exempts. Which free name a new pod or process gets is immaterial, and the model
takes one of them. `Deploy`'s invariants were also run once with two faults and a
restart together, for one replica and for two in four pods (1.5 and 5.2 million
states).

In `pipeline_faults` a kind of fault happens at most once in a behaviour, and two
orders leave no room for two retries of one original, which is what
`pipeline_retries` is for; the theorems have no such bounds.

*What Settled does not say.* Three combinations leave an order queued or running
after its commit, and the property says that no others do:

- an eviction, or the loss of the broker and with it of the group, and a worker crash:
  the evicted worker writes RUNNING after the new owner has stored the outcome and
  committed, and dies before it stores its own;
- a retry of an order that is delivered late (its publish timed out) or again (after
  a crash or an eviction): `linkRecoveryJob` reads the record while it is running
  and writes the copy back after the worker has stored the outcome;
- a loss of Redis while a handler or a worker is at work.

Nor does it say anything of an accepted order whose record the broker lost before a
worker got to it: that one stays queued for good. `AcceptedNotLost` names it as the
one way to lose an accepted order. `EventuallySettled`, `QueueSpec` (with its
liveness), `BacklogDrains` are therefore run with a broker that keeps its log; as a
safety property the refinement of `AtLeastOnceQueue` is proved with the loss, which
is the abstract action `Forget`.

*What StatusJustified says of failed orders.* A failed order was processed and told to
fail, or its request was answered 503. The second case includes orders that were
delivered: after a publish timeout `markFailed` may write its stale copy over
completed. So a delivered order can be shown as failed, but only to a customer who
was told that the order failed (see finding 2).

*What RetryLeavesTrace and FollowsLifecycle say.* Both speak of the states before
the first failed publish, worker crash or eviction, so of every state of a
scenario without them, and (where they read the store) before a loss of Redis.
`OrderLifecycle` has the one transition that nobody would put there by choice,
from recovered back to failed: it is finding 1. There is no other surprise: a
record goes back neither to queued nor from a final status to running, although
handlers and workers set whole records from copies. Redelivery does take final
orders back to running, which is why the claim ends there.

An API crash between `save` and `send` leaves an order queued that nobody
delivers; it is not in the topic, so `Settled` and `EventuallySettled` say nothing
of it, and `BacklogDrains` is run without it.

### Findings

1. **A recovered order can be shown as failed for ever** (`RetryRecovers`).
   `linkRecoveryJob` runs after the retry was published. If the worker finishes
   the retry and runs `mark_recovered` between the API's GET and SET, the stale
   copy (failed, resubmitted) overwrites recovered. The walkthrough promises
   the conversion to recovered. `RetryLeavesTrace` is what does hold.
2. **An order that was delivered can be retried** (`RetriedOnlyIfFailed`): a
   publish timeout marks it failed although its record is in the topic.
3. **Backlog can lower the number of workers** (`ScaleOutRaises`): the target is
   computed from `status.replicas` and overwrites a higher `spec.replicas` set
   by the HPA.
4. **The retry button may act on an order that is not on display**
   (`RetriesShownOrder`): the answer of a submission or a retry moves the selection
   at once, but the panel and its button are rendered only after the next poll.
   Until then a click retries the new order if the list already shows it as
   failed, or else does nothing.

Not claims of a document that a run refutes, but worth knowing:

- After a retry whose selected order is not in the table, the `finally` block shows
  the copy of the retried order taken at the click. If an older poll is rendered
  after a newer one, the table then lists the same order with another status. With
  3 orders, a list of 2 and two free polls TLC reaches it; `DetailAgrees` says that
  this is the only way panel and table come to disagree, and `PageCatchesUp` that
  it does not last.
- `policy.py:56` restarts at the threshold (`>=`), ARCHITECTURE.md:68 says above it.
- The comment of the deployment script on the pause, see above.

## Fairness

`OrderPipeline!Fairness`: weak fairness of each handler (a servlet thread runs
on), of the broker's append per record, of each worker process (Kubernetes
restarts it when it dies, so some step of it stays enabled) and of the group
coordinator's assignment per partition (it assigns orphaned partitions while there
is a member in `poll()`). No fairness for clients, retries or faults. Weak
fairness is enough everywhere, because a step stays enabled until it is taken, or a
fault, of which there are finitely many, takes it away. `PublishFailed`
has none: that a waiting request ends although the broker never acknowledges
is only the case because a record given up is reported; in the model giving a
record up and the exception are one step, and a record that is not given up is
appended.

`HealingController!Fairness`: the loop, time and the ReplicaSets go on; crashes
are bounded, and the HPA may write for ever or never. An HPA that goes on may take
away each time what the controller has added, so `BacklogScalesOut` has the HPA's
silence as a premise (`HpaSilent`), and `NoBacklogScalesIn` claims without it only
that the minimum is reached again and again. `BacklogScalesOut` also assumes that
failures stay below the threshold: with a restart in every pass the surge pod
can make `status.replicas` look like the maximum at each reading, and the
controller never asks for the last replica.

`LoadGenerator!LoadFairness`: that of the pipeline, the threads of the pool, main,
and the controller's scans; requests need not fail. A request whose handler waits
for ever would block its thread, but handlers end.

`Deploy!Fairness`: the script goes on when what it waits for is there (each wait may
also run out instead, by a fault), Kubernetes starts, replaces and kills, a
broker that was applied comes up, a process that was told to stop ends (the kubelet
kills it after its grace period), and the topic job takes its steps. No build has
to begin. `DeploymentServes` claims nothing of a build that has not succeeded.

`Dashboard!Fairness`: every request is answered or fails (the connection ends at some
time; the script sets no time limit of its own), the browser runs what is
ready, and the interval timer goes on. Users need not click.

## Proofs

All proofs are by TLAPS (SMT, Zenon, LS4) from the assumptions named in the
modules: `NoOrderAssumption`, `PipelineAssumption` (the null values are no
members of their sets, the list cap is positive, budgets are integers),
`PolicyAssumption` (naturals, 1 ≤ minimum ≤ maximum, positive step) and
`ControllerAssumption`, `ScanAssumption`, `LoadAssumption`, `DeployAssumption`
(finite sets of pods and processes, at least one replica) and
`DashboardAssumption` (finitely many loops, no more than a burst has orders). No
assumption bounds the sets, so the theorems hold for any number of orders, workers,
partitions, faults, retries, builds, pods and polls.

**PipelineProofs** – `TypeCorrect`, `JobsRunBeforeCommit`, `OrdersArePublishedOnce`,
`NoAcceptedOrderIsLost`, `ImplementsQueue`. TypeOK alone is not inductive: that a linking
handler and a recovering worker have an original, and a busy worker a job and a
partition, is needed to type their writes (`Targets`).

The invariant of the other four is `QueueInv`:

- `Sending`: a request that has not called send has left no trace in Kafka; a
  buffered record is not appended; an acknowledged one was (`Logged`: the broker
  may have lost it). This makes `BrokerAppend` append a new order each time, also
  after the broker's loss, when only records that were lost are sent again.
- `Handling`: commits do not pass the end of the log; the owner of a partition
  holds the job right behind its committed offset (`Holds`); a worker past
  `process_job` has been counted. `Holds` is what `Commit` needs: the offset it
  passes is that of the job it ran. It is conditional on ownership,
  because an evicted worker's job may be anywhere.

Two lemmas (`SendingSteps`, `HandlingSteps`) reduce the forty actions to the few shapes
that concern the log, and the invariant is proved per shape.
`NoAcceptedOrderIsLost` then follows without induction of its own, and
`ImplementsQueue` maps each shape to `Publish`, `Accept`, `Handle`, `Settle`, `Forget`
(the broker's loss) or a stutter.

**RecordProofs** – `OutcomesAreJustified`, `LinksArePublished`,
`RecordsAreConsistent`. The invariant `Truth` says of *every copy about to be
written back* what the properties say of the store. It is inductive for two
reasons: what is true of a copy stays true (`TrueStays`: logged orders keep
their job, executions only accumulate, a request that was answered 503 stays so), and
every writer turns a true copy into
a true record (`TrueWrites`). That is why lost updates can make the store
outdated (finding 1) but never untrue.

**HealingProofs** – `TypeCorrect`, `ReplicasStayInRange`, `PassHasOneDirection`,
`RestartsAreSpaced`, `RestartsFollowNews`. The invariant relates the plan that
is left to the snapshot it was made from (`PlanOfDecision` and the lemmas about
tails of plans), and the remembered count and age to what was really patched.

**ListProofs** – `ListIsBounded`, `RecordsAreListedOnce`. `ListBound` counts the
handlers whose trim is pending or lost: a push adds one to both sides, a trim
cuts the list to its cap. For the second theorem, `Stored` says which records exist
at every program counter (a record is there from the SET of its handler on, so no
worker ever saves it a second time), and `Listed` that an id is in the list only
behind its push. Both hold as long as Redis has its data (`Kept`).

**SettleProofs** – `OrdersSettle`, `RetriesLeaveTrace`, `ImplementsLifecycle`. Neither
property is inductive, and what makes them hold differs from fault to fault, so
`SettleInv` is a conjunction of parts each of which holds until the faults that break
it have happened. It rests on two views of an order: `Mid`, some worker has stored
RUNNING and will store an outcome; `Over`, a worker has stored the outcome and
commits, or the order is committed.

- `Owning`: until an eviction or the broker's loss (`Evicted`), a busy worker owns its partition; with `Holds` and
  `PublishedOnce` that makes it the only worker at its order (`OnlyWorker`), and its
  order is not yet over (`NotOver`).
- `OverFinal`: an order that is over, and not retried, shows a final status or is
  `Mid`. This survives a crash *or* an eviction, and publish timeouts: a worker that
  writes RUNNING again will write an outcome again. Only an evicted worker
  that dies in between leaves the order running, which is the first exemption of
  `Settled`. `RejectedFinal` is the same for orders whose request was answered 503
  (a worker that dies at one leaves it to the next worker, or, if the broker has lost
  it, to nobody, which takes an eviction and a crash again). `NoneLost`: only the
  broker's loss loses records.
- `FinalOver`, `NoneRejected`, `Unretried`: until an order can be delivered late or
  twice, a final status comes only from a worker, so only orders that are over are
  retried.
- `RetriedFailed`, `RetriedLinked`, `CompletedRecovered`: therefore no worker touches
  a retried order any more but through `mark_recovered`, and every copy that
  `linkRecoveryJob` holds of it is failed or recovered.
- `UnfinishedShown`: an order that is not over shows queued or running, according to
  whether it is `Mid`.

The lemmas `WorkerMoves` and its neighbours say once what a step does to one
worker, one handler and one record; `NextSettleInv` is then proved part by part.
`ImplementsLifecycle` is the initial mapping and `LifecycleSteps`: the invariant
before a step and `Quiet` after it make the step a transition or a stutter.

**ScanProofs** – `ZeroBacklogIsServed`, `TotalCountsEachOnce`, `LoadTypeCorrect`,
`ReportsAreTrue`, `ComposedPromises`. `Tell`: a final status in the store means that the order was
processed or was not accepted (`Ended`), which never becomes untrue (`EndedStays`).
`Read` says the same of the statuses seen, and `Found` that the ids of a scan are
distinct and their records present; so a scan without backlog has seen only
final statuses, and what it saw of each order still holds at its end. The load
generator refines the pipeline but for failing requests (`LoadSteps`), and
carries the invariant over. `ComposedPromises` does the same for the invariants
of all pipeline proofs: a lost connection of a client changes nothing but the
budget (`DisconnectKeepsSettleInv`). `Reported` relates each future to the
handler of its order.

**DeployProofs** – `DeployTypeCorrect`, `ControllerComesBack`, `OldWorkersAreStopped`,
`TopicIsEnsured`. `Paused`: the controller is on where the script has just switched it
on. `Ordered`: templates are numbered upwards, so a restart cannot bring back
an image. `Known`: what the topic job found or did is still true unless the broker was lost
since.

**DashboardProofs** – `RetryIsGuarded`, `PageTypeCorrect`, `BurstIsAccounted`,
`PanelAgrees`. `RetryGuarded` is inductive once the
program counters are known to form a function and the panel to be a record; the
proof reduces every step to one that renders the panel (`RenderGuarded`) or
leaves it alone (`FrameGuarded`). The counts of a burst stay in their types only
because they add up, so `PageInv` proves both together, by the cardinality of the
loops that wait. `PanelAgrees` needs that no list names an order twice (`ListsInv`)
and that only a retry waits for the retry's poll (`RetryPolls`).

The inductive invariants of the pipeline (`QueueInv`, `Truth`, every part of
`SettleInv`) were checked by TLC on the instances of `pipeline_faults` and
`pipeline_retries` before they were proved.

*Only model-checked:* everything with liveness (`QueueSpec` with its fairness,
`RequestsEnd`, `EventuallySettled`, the three healing properties, `HandlersEnd`,
`PageCatchesUp`, `GeneratorEnds`, `BacklogDrains`, `DeploymentServes`), because the
prover handles neither fairness nor ENABLED. Every safety property that a passing run
checks is a theorem; `QueueSpec` is one without its fairness (`ImplementsQueue`).

## Not modelled, and why

- Payload contents, wording, timestamps, trace ids, logging, the attempts counter
  (written next to the modelled fields by the same commands, only displayed).
- `cancelled`: no code writes it. `dry_run`: it only leaves patches out.
- On the dashboard: metrics and service tiles, the activity feed, the form and its
  templates, the clipboard; they are displayed and decide nothing.
- Job types other than `delivery_order`: the Order API creates no others.
- The `crash_worker` payload switch: a worker crash, not reachable through the
  Order API. A message that had it would be delivered again after every crash, for ever.
- `InMemoryJobRepository` and `InMemoryJobPublisher` (tests), `KafkaJobPublisher`
  (no service uses it), `build_job` (used by tests only), logging.
- `settings.py`: read once when a process starts; a variable of the environment wins
  over the Vault file, and nothing modelled changes with it.
- `JobMetrics.to_dict`, `PlaceOrderRequest` validation: conversions that decide nothing.
- The rollouts of Redis and the Order API in the deployment script, its rendering of
  image names and its diagnostics.
- In `Deploy`: changes of the number of workers during a deployment (by the HPA, by the
  controller, and by `replicas: 2` of each apply), which change how many pods a rollout
  is about; `Replicas` is any number but fixed. The topic job's
  `ttlSecondsAfterFinished` of an hour, longer than the waits of a build. A build that
  goes back to a template of an earlier one, whose pods Kubernetes would count as new.
- Liveness after the loss of Redis or of the broker: what was lost is not replayed by
  anything, so nothing is promised; the safety properties are checked with both.
- Chaos experiments (they delete pods, which is `WorkerCrash` and `Sigterm`),
  observability, Vault, Ansible, Terraform: configuration of third-party systems.

## Plan

Done: `JobStore`, `OrderPipeline`, `AtLeastOnceQueue`; `HealingPolicy`,
`HealingController`; `Dashboard`; `MetricsScan`, `LoadGenerator`; `Deploy`; their runs
and the theorems above. What could come next:

1. The healing controller inside `LoadGenerator`, its restarts as SIGTERMs of the
   workers: whether scaling on a scan and the load it measures can chase each other.
   (`HealingController` lets the metrics be any numbers, which covers its own
   properties.)
2. An abstract healing controller that reads and patches in one step, and
   `HealingController` shown to implement it while the HPA and rollouts leave the
   deployment alone.
