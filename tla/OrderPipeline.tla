----------------------------- MODULE OrderPipeline -----------------------------
(***************************************************************************)
(* One order's way from POST /orders through Redis and Kafka to a worker   *)
(* and back to Redis.  Request handlers of the Order API, the broker and   *)
(* the workers run concurrently; every Redis command and every Kafka call  *)
(* is a step of its own, so a read and the write that depends on it can be *)
(* separated by steps of anybody else.                                     *)
(*                                                                         *)
(* A handler is named by the id of the order it creates (placeOrder and    *)
(* retryFailedOrder both draw a fresh UUID), so apiPc[o] is the program    *)
(* counter of the only handler that ever creates o.  A worker is one       *)
(* consumer process with one thread, restarted by Kubernetes when it dies. *)
(***************************************************************************)
EXTENDS JobStore, FiniteSets

CONSTANTS Workers,     \* worker processes of the consumer group
          Partitions,  \* partitions of the delivery topic
          NoWorker,    \* owner of an unassigned partition
          NoPartition, \* partition of a worker that handles nothing
          ListCap,     \* entries LTRIM keeps (500 in the code)
          Budgets      \* the fault scenarios: how often each kind of fault may
                       \* happen, how many faults of all kinds together
                       \* ("total"), how many retries

\* "client" is a client that loses its connection (LoadGenerator).
FaultKinds  == {"publish", "apiCrash", "workerCrash", "evict", "sigterm", "redisLoss",
                "brokerLoss", "client"}
BudgetKinds == FaultKinds \cup {"total", "retry"}

ASSUME PipelineAssumption ==
  /\ NoWorker \notin Workers
  /\ NoPartition \notin Partitions
  /\ ListCap \in Nat \ {0}
  /\ Budgets \subseteq [BudgetKinds -> Int]

VARIABLES
  \* Redis
  store,      \* jobs:<id>
  recent,     \* jobs:recent, newest first
  \* Order API
  job,        \* retry_of and force_fail of the job an order's handler built
  apiPc,      \* where the handler of an order is in enqueueJob
  apiSnap,    \* the record the handler read and is about to write back
  \* Kafka
  buffer,     \* records handed to send() that the broker will yet append
  log,        \* per partition, the appended orders
  committed,  \* per partition, the group's committed offset
  owner,      \* per partition, the group member that may commit to it
  \* workers
  wPc, wJob, wPart, wSnap,
  draining,   \* SIGTERM was received: RUNNING is False
  \* auxiliary
  executed,   \* how often process_job ran for an order
  budget      \* faults and retries still allowed, the kinds of fault that have
              \* happened, and the orders whose record the broker lost

redis   == <<store, recent>>
api     == <<job, apiPc, apiSnap>>
kafka   == <<buffer, log, committed, owner>>
workers == <<wPc, wJob, wPart, wSnap, draining>>
vars    == <<redis, api, kafka, workers, executed, budget>>

ApiActive == {"set", "push", "trim", "send", "await", "markRead", "markWrite",
              "linkRead", "linkWrite"}
ApiDone   == {"accepted", "rejected", "crashed"}
ApiPcs    == {"unused"} \cup ApiActive \cup ApiDone

\* The send was called and its future has not returned: the producer may still
\* be trying.
Unanswered == {"await", "markRead", "markWrite", "rejected"}

WorkerPcs == {"idle", "exists", "save", "runRead", "runWrite", "endRead",
              "endWrite", "recRead", "recWrite", "commit"}

NoJob == [retryOf |-> NoOrder, forceFail |-> FALSE]
Jobs  == [retryOf : Orders \cup {NoOrder}, forceFail : BOOLEAN]

InLog(o) == \E p \in Partitions : \E i \in 1..Len(log[p]) : log[p][i] = o

Spend(kind) ==
  /\ budget.left[kind] > 0 /\ budget.left["total"] > 0
  /\ budget' = [left  |-> [budget.left EXCEPT ![kind] = @ - 1, !["total"] = @ - 1],
                spent |-> budget.spent \cup {kind},
                lost  |-> IF kind = "brokerLoss"
                            THEN budget.lost \cup {o \in Orders : InLog(o)}
                            ELSE budget.lost]

Happened(kind) == kind \in budget.spent

\* The topic has held the order's record.
Logged(o) == InLog(o) \/ o \in budget.lost

-------------------------------------------------------------------------------
(***************************************************************************)
(* Order API                                                               *)
(***************************************************************************)
ApiGoto(o, from, to) ==
  /\ apiPc[o] = from
  /\ apiPc' = [apiPc EXCEPT ![o] = to]

\* POST /orders: createDeliveryJob, then enqueueJob(job, null).
PlaceOrder(o, forceFail) ==
  /\ ApiGoto(o, "unused", "set")
  /\ job' = [job EXCEPT ![o].forceFail = forceFail]
  /\ UNCHANGED <<redis, apiSnap, kafka, workers, executed, budget>>

\* createRetryDeliveryJob: force_fail off, retry_of set.
RetryJob(f) == [retryOf |-> f, forceFail |-> FALSE]

\* Mutated form: the status of the original is not looked at.
RetryOrder_Unchecked(o, f) ==
  /\ ApiGoto(o, "unused", "set")
  /\ Exists(store[f])
  /\ budget.left["retry"] > 0
  /\ budget' = [budget EXCEPT !.left["retry"] = @ - 1]
  /\ job' = [job EXCEPT ![o] = RetryJob(f)]
  /\ UNCHANGED <<redis, apiSnap, kafka, workers, executed>>

\* POST /orders/{f}/retry: 404 and 409 answers change nothing; otherwise
\* enqueueJob(retryJob, f).  The status is not looked at again.
RetryOrder(o, f) ==
  /\ ApiGoto(o, "unused", "set")
  /\ store[f].status = "failed"
  /\ budget.left["retry"] > 0
  /\ budget' = [budget EXCEPT !.left["retry"] = @ - 1]
  /\ job' = [job EXCEPT ![o] = RetryJob(f)]
  /\ UNCHANGED <<redis, apiSnap, kafka, workers, executed>>

\* OrderRepository.save is three Redis commands.
SetRecord(o) ==
  /\ ApiGoto(o, "set", "push")
  /\ store' = [store EXCEPT ![o] = NewRecord]
  /\ UNCHANGED <<recent, job, apiSnap, kafka, workers, executed, budget>>

PushRecent(o) ==
  /\ ApiGoto(o, "push", "trim")
  /\ recent' = Pushed(recent, o)
  /\ UNCHANGED <<store, job, apiSnap, kafka, workers, executed, budget>>

TrimRecent(o) ==
  /\ ApiGoto(o, "trim", "send")
  /\ recent' = Trimmed(recent, ListCap)
  /\ UNCHANGED <<store, job, apiSnap, kafka, workers, executed, budget>>

\* kafkaTemplate.send puts the record into the producer's buffer ...
SendOrder(o) ==
  /\ ApiGoto(o, "send", "await")
  /\ buffer' = buffer \cup {o}
  /\ UNCHANGED <<redis, job, apiSnap, log, committed, owner, workers, executed, budget>>

\* Mutated form: the exception is swallowed.
SendRefused_Swallowed(o) ==
  /\ ApiGoto(o, "send", IF job[o].retryOf = NoOrder THEN "accepted" ELSE "linkRead")
  /\ Spend("publish")
  /\ UNCHANGED <<redis, job, apiSnap, kafka, workers, executed>>

\* ... or throws at once (no metadata, buffer full).
SendRefused(o) ==
  /\ ApiGoto(o, "send", "markRead")
  /\ Spend("publish")
  /\ UNCHANGED <<redis, job, apiSnap, kafka, workers, executed>>

\* Mutated form: the future is not waited for.
AckPublish_Unawaited(o) ==
  /\ ApiGoto(o, "await", IF job[o].retryOf = NoOrder THEN "accepted" ELSE "linkRead")
  /\ UNCHANGED <<redis, job, apiSnap, kafka, workers, executed, budget>>

\* get(10, SECONDS) returns: the broker acknowledged the record, which the broker
\* may have lost meanwhile.
AckPublish(o) ==
  /\ Logged(o) /\ o \notin buffer
  /\ ApiGoto(o, "await", IF job[o].retryOf = NoOrder THEN "accepted" ELSE "linkRead")
  /\ UNCHANGED <<redis, job, apiSnap, kafka, workers, executed, budget>>

\* Mutated forms: the send is repeated; get() has no time limit.
PublishFailed_Resends(o, lost) ==
  /\ ApiGoto(o, "await", "send")
  /\ Spend("publish")
  /\ buffer' = IF lost THEN buffer \ {o} ELSE buffer
  /\ UNCHANGED <<redis, job, apiSnap, log, committed, owner, workers, executed>>

PublishFailed_Unlimited(o, lost) ==
  /\ apiPc[o] = "await"
  /\ Spend("publish")
  /\ buffer' = IF lost THEN buffer \ {o} ELSE buffer
  /\ UNCHANGED <<redis, api, log, committed, owner, workers, executed>>

\* get(10, SECONDS) throws.  The record may already be appended, may still be
\* in the buffer and be appended later, or may be given up (lost).
PublishFailed(o, lost) ==
  /\ ApiGoto(o, "await", "markRead")
  /\ Spend("publish")
  /\ buffer' = IF lost THEN buffer \ {o} ELSE buffer
  /\ UNCHANGED <<redis, job, apiSnap, log, committed, owner, workers, executed>>

\* OrderRepository.markFailed: find ...
MarkFailedRead(o) ==
  /\ ApiGoto(o, "markRead", IF Exists(store[o]) THEN "markWrite" ELSE "rejected")
  /\ apiSnap' = [apiSnap EXCEPT ![o] = store[o]]
  /\ UNCHANGED <<redis, job, kafka, workers, executed, budget>>

\* ... then SET of the changed copy; the request ends with 503.
MarkFailedWrite(o) ==
  /\ ApiGoto(o, "markWrite", "rejected")
  /\ store' = [store EXCEPT ![o] = MarkedFailed(apiSnap[o])]
  /\ apiSnap' = [apiSnap EXCEPT ![o] = Absent]
  /\ UNCHANGED <<recent, job, kafka, workers, executed, budget>>

\* OrderRepository.linkRecoveryJob: find ...
LinkRead(o) ==
  LET f == job[o].retryOf IN
  /\ ApiGoto(o, "linkRead", IF Exists(store[f]) THEN "linkWrite" ELSE "accepted")
  /\ apiSnap' = [apiSnap EXCEPT ![o] = store[f]]
  /\ UNCHANGED <<redis, job, kafka, workers, executed, budget>>

\* ... then SET of the changed copy of the failed order.
LinkWrite(o) ==
  /\ ApiGoto(o, "linkWrite", "accepted")
  /\ store' = [store EXCEPT ![job[o].retryOf] = Linked(apiSnap[o], o)]
  /\ apiSnap' = [apiSnap EXCEPT ![o] = Absent]
  /\ UNCHANGED <<recent, job, kafka, workers, executed, budget>>

\* The API pod dies in the middle of the request; what it had buffered may be
\* on its way to the broker or be gone.
ApiCrash(o, lost) ==
  /\ apiPc[o] \in ApiActive
  /\ Spend("apiCrash")
  /\ apiPc' = [apiPc EXCEPT ![o] = "crashed"]
  /\ apiSnap' = [apiSnap EXCEPT ![o] = Absent]
  /\ buffer' = IF lost THEN buffer \ {o} ELSE buffer
  /\ UNCHANGED <<redis, job, log, committed, owner, workers, executed>>

ApiStep(o) ==
  \/ SetRecord(o) \/ PushRecent(o) \/ TrimRecent(o)
  \/ SendOrder(o) \/ AckPublish(o)
  \/ MarkFailedRead(o) \/ MarkFailedWrite(o)
  \/ LinkRead(o) \/ LinkWrite(o)

\* The broker appends a buffered record once (the producer is idempotent:
\* acks=all with retries).  The key is the order id, so the partition is a
\* fixed but arbitrary function of it.
BrokerAppend(o, p) ==
  /\ o \in buffer
  /\ buffer' = buffer \ {o}
  /\ log' = [log EXCEPT ![p] = Append(@, o)]
  /\ UNCHANGED <<redis, api, committed, owner, workers, executed, budget>>

-------------------------------------------------------------------------------
(***************************************************************************)
(* Workers                                                                 *)
(***************************************************************************)
WorkerGoto(w, from, to) ==
  /\ wPc[w] = from
  /\ wPc' = [wPc EXCEPT ![w] = to]

\* Mutated form: enable_auto_commit, the offset is committed before the job ran.
Fetch_AutoCommit(w, p) ==
  /\ WorkerGoto(w, "idle", "exists")
  /\ ~draining[w]
  /\ owner[p] = w
  /\ committed[p] < Len(log[p])
  /\ wPart' = [wPart EXCEPT ![w] = p]
  /\ wJob' = [wJob EXCEPT ![w] = log[p][committed[p] + 1]]
  /\ committed' = [committed EXCEPT ![p] = @ + 1]
  /\ UNCHANGED <<redis, api, buffer, log, owner, wSnap, draining, executed, budget>>

\* The next record of an assigned partition; after a commit the position is
\* the committed offset, after a reassignment it is read from there.  The
\* loop tests RUNNING before it handles a message.
Fetch(w, p) ==
  /\ WorkerGoto(w, "idle", "exists")
  /\ ~draining[w]
  /\ owner[p] = w
  /\ committed[p] < Len(log[p])
  /\ wPart' = [wPart EXCEPT ![w] = p]
  /\ wJob' = [wJob EXCEPT ![w] = log[p][committed[p] + 1]]
  /\ UNCHANGED <<redis, api, kafka, wSnap, draining, executed, budget>>

\* Mutated forms: an order that already has an outcome is skipped; every
\* delivery saves the job.
CheckExists_SkipsFinished(w) ==
  /\ WorkerGoto(w, "exists", IF store[wJob[w]].status \in {"completed", "failed"}
                               THEN "commit"
                               ELSE IF Exists(store[wJob[w]]) THEN "runRead" ELSE "save")
  /\ UNCHANGED <<redis, api, kafka, wJob, wPart, wSnap, draining, executed, budget>>

CheckExists_AlwaysSaves(w) ==
  /\ WorkerGoto(w, "exists", "save")
  /\ UNCHANGED <<redis, api, kafka, wJob, wPart, wSnap, draining, executed, budget>>

\* repo.get(job_id) is None ?
CheckExists(w) ==
  /\ WorkerGoto(w, "exists", IF Exists(store[wJob[w]]) THEN "runRead" ELSE "save")
  /\ UNCHANGED <<redis, api, kafka, wJob, wPart, wSnap, draining, executed, budget>>

\* RedisJobRepository.save: one MULTI/EXEC pipeline.
SaveJob(w) ==
  /\ WorkerGoto(w, "save", "runRead")
  /\ store' = [store EXCEPT ![wJob[w]] = NewRecord]
  /\ recent' = Trimmed(Pushed(recent, wJob[w]), ListCap)
  /\ UNCHANGED <<api, kafka, wJob, wPart, wSnap, draining, executed, budget>>

\* The process ends; its group membership goes with it, and the process that
\* Kubernetes starts in its place begins with nothing assigned.
Die(w) ==
  /\ wPc' = [wPc EXCEPT ![w] = "idle"]
  /\ wSnap' = [wSnap EXCEPT ![w] = Absent]
  /\ draining' = [draining EXCEPT ![w] = FALSE]
  /\ owner' = [p \in Partitions |-> IF owner[p] = w THEN NoWorker ELSE owner[p]]
  /\ wJob' = [wJob EXCEPT ![w] = NoOrder]
  /\ wPart' = [wPart EXCEPT ![w] = NoPartition]

\* The GET half of update or mark_recovered, on the record of order o.
ReadInto(w, o, from, to) ==
  /\ WorkerGoto(w, from, to)
  /\ Exists(store[o])
  /\ wSnap' = [wSnap EXCEPT ![w] = store[o]]
  /\ UNCHANGED <<owner, wJob, wPart, draining>>

\* The SET half: rec goes to order o.
WriteBack(w, o, rec, from, to) ==
  /\ WorkerGoto(w, from, to)
  /\ store' = [store EXCEPT ![o] = rec]
  /\ wSnap' = [wSnap EXCEPT ![w] = Absent]
  /\ UNCHANGED <<recent, api, kafka, wJob, wPart, draining, executed, budget>>

\* update(RUNNING), read half; update raises KeyError when the record is gone
\* and nothing catches it.
RunRead(w) ==
  /\ \/ ReadInto(w, wJob[w], "runRead", "runWrite")
     \/ wPc[w] = "runRead" /\ ~Exists(store[wJob[w]]) /\ Die(w)
  /\ UNCHANGED <<redis, api, buffer, log, committed, executed, budget>>

RunWrite(w) ==
  WriteBack(w, wJob[w], Updated(wSnap[w], "running", FALSE, FALSE), "runWrite", "endRead")

\* process_job raises for a delivery order only if force_fail is set.
Raises(o) == job[o].forceFail

\* Mutated form: the except branch logs and returns without update(FAILED).
EndRead_FailureNotStored(w) ==
  /\ wPc[w] = "endRead"
  /\ executed' = [executed EXCEPT ![wJob[w]] = @ + 1]
  /\ IF Raises(wJob[w])
       THEN WorkerGoto(w, "endRead", "commit") /\ UNCHANGED <<owner, wJob, wPart, wSnap, draining>>
       ELSE \/ ReadInto(w, wJob[w], "endRead", "endWrite")
            \/ ~Exists(store[wJob[w]]) /\ Die(w)
  /\ UNCHANGED <<redis, api, buffer, log, committed, budget>>

\* process_job runs, then the read half of update(COMPLETED) or, in the
\* except branch, of update(FAILED).
EndRead(w) ==
  /\ wPc[w] = "endRead"
  /\ executed' = [executed EXCEPT ![wJob[w]] = @ + 1]
  /\ \/ ReadInto(w, wJob[w], "endRead", "endWrite")
     \/ ~Exists(store[wJob[w]]) /\ Die(w)
  /\ UNCHANGED <<redis, api, buffer, log, committed, budget>>

\* Mutated form: the exception of process_job is not told from a result.
Outcome_Swallowed(w) == Updated(wSnap[w], "completed", TRUE, FALSE)

Outcome(w) ==
  IF Raises(wJob[w]) THEN Updated(wSnap[w], "failed", FALSE, TRUE)
                            ELSE Updated(wSnap[w], "completed", TRUE, FALSE)

IsRecovery(o) == job[o].retryOf # NoOrder /\ ~Raises(o)

\* The write half; a successful job with retry_of goes on to mark_recovered.
EndWrite(w) ==
  WriteBack(w, wJob[w], Outcome(w), "endWrite",
            IF IsRecovery(wJob[w]) THEN "recRead" ELSE "commit")

\* mark_recovered(retry_of, job_id): a missing original is passed over.
RecRead(w) ==
  LET f == job[wJob[w]].retryOf IN
  /\ \/ ReadInto(w, f, "recRead", "recWrite")
     \/ /\ WorkerGoto(w, "recRead", "commit")
        /\ ~Exists(store[f])
        /\ UNCHANGED <<owner, wJob, wPart, wSnap, draining>>
  /\ UNCHANGED <<redis, api, buffer, log, committed, executed, budget>>

RecWrite(w) ==
  WriteBack(w, job[wJob[w]].retryOf, MarkedRecovered(wSnap[w], wJob[w]),
            "recWrite", "commit")

\* consumer.commit() by the owner of the partition.
Commit(w) ==
  /\ WorkerGoto(w, "commit", "idle")
  /\ owner[wPart[w]] = w
  /\ committed' = [committed EXCEPT ![wPart[w]] = @ + 1]
  /\ wJob' = [wJob EXCEPT ![w] = NoOrder]
  /\ wPart' = [wPart EXCEPT ![w] = NoPartition]
  /\ UNCHANGED <<redis, api, buffer, log, owner, wSnap, draining, executed, budget>>

\* consumer.commit() after the group has moved on raises CommitFailedError.
CommitFails(w) ==
  /\ wPc[w] = "commit"
  /\ owner[wPart[w]] # w
  /\ Die(w)
  /\ UNCHANGED <<redis, api, buffer, log, committed, executed, budget>>

\* A draining worker leaves before it handles another message, by the break
\* and close() or by SIGKILL while it waits for one.
DrainExit(w) ==
  /\ draining[w] /\ wPc[w] = "idle"
  /\ Die(w)
  /\ UNCHANGED <<redis, api, buffer, log, committed, executed, budget>>

WorkerStep(w) ==
  \/ \E p \in Partitions : Fetch(w, p)
  \/ CheckExists(w) \/ SaveJob(w)
  \/ RunRead(w) \/ RunWrite(w) \/ EndRead(w) \/ EndWrite(w)
  \/ RecRead(w) \/ RecWrite(w)
  \/ Commit(w) \/ CommitFails(w) \/ DrainExit(w)

-------------------------------------------------------------------------------
(***************************************************************************)
(* Group membership, pods and faults                                       *)
(***************************************************************************)
\* A member takes part in a rebalance only inside poll(), so a partition goes
\* to a worker that is not in the middle of a message.
Assign(w, p) ==
  /\ owner[p] = NoWorker
  /\ wPc[w] = "idle"
  /\ owner' = [owner EXCEPT ![p] = w]
  /\ UNCHANGED <<redis, api, buffer, log, committed, workers, executed, budget>>

\* The group takes a partition away: the member missed its session timeout or
\* max.poll.interval, and goes on with its message without knowing.
Evict(w, p) ==
  /\ owner[p] = w
  /\ Spend("evict")
  /\ owner' = [owner EXCEPT ![p] = NoWorker]
  /\ UNCHANGED <<redis, api, buffer, log, committed, workers, executed>>

WorkerCrash(w) ==
  /\ Spend("workerCrash")
  /\ Die(w)
  /\ UNCHANGED <<redis, api, buffer, log, committed, executed>>

Sigterm(w) ==
  /\ ~draining[w]
  /\ Spend("sigterm")
  /\ draining' = [draining EXCEPT ![w] = TRUE]
  /\ UNCHANGED <<redis, api, kafka, wPc, wJob, wPart, wSnap, executed>>

\* Redis runs without a volume: a new pod starts empty.
RedisLoss ==
  /\ Spend("redisLoss")
  /\ store' = [o \in Orders |-> Absent]
  /\ recent' = <<>>
  /\ UNCHANGED <<api, kafka, workers, executed>>

\* Redpanda runs without a volume, too: a new pod knows neither the topic nor the
\* consumer group.  A worker goes on with its message without a group to commit
\* to, and a producer sends again what was not acknowledged (once somebody has
\* created the topic again; see Deploy).
BrokerLoss ==
  /\ Spend("brokerLoss")
  /\ log' = [p \in Partitions |-> <<>>]
  /\ committed' = [p \in Partitions |-> 0]
  /\ owner' = [p \in Partitions |-> NoWorker]
  /\ \E again \in SUBSET {o \in Orders : InLog(o) /\ apiPc[o] \in Unanswered} :
       buffer' = buffer \cup again
  /\ UNCHANGED <<redis, api, workers, executed>>

\* Every request has ended and every record is committed: nothing to do but
\* wait for another customer.
Quiescent ==
  /\ \A o \in Orders : apiPc[o] \in ApiDone /\ o \notin buffer
  /\ \A p \in Partitions : committed[p] = Len(log[p])
  /\ \A w \in Workers : wPc[w] = "idle"

Waiting == Quiescent /\ UNCHANGED vars

-------------------------------------------------------------------------------
Init ==
  /\ store = [o \in Orders |-> Absent]
  /\ recent = <<>>
  /\ job = [o \in Orders |-> NoJob]
  /\ apiPc = [o \in Orders |-> "unused"]
  /\ apiSnap = [o \in Orders |-> Absent]
  /\ buffer = {}
  /\ log = [p \in Partitions |-> <<>>]
  /\ committed = [p \in Partitions |-> 0]
  /\ owner = [p \in Partitions |-> NoWorker]
  /\ wPc = [w \in Workers |-> "idle"]
  /\ wJob = [w \in Workers |-> NoOrder]
  /\ wPart = [w \in Workers |-> NoPartition]
  /\ wSnap = [w \in Workers |-> Absent]
  /\ draining = [w \in Workers |-> FALSE]
  /\ executed = [o \in Orders |-> 0]
  /\ budget \in [left : Budgets, spent : {{}}, lost : {{}}]

Client ==
  \E o \in Orders :
    \/ \E forceFail \in BOOLEAN : PlaceOrder(o, forceFail)
    \/ \E f \in Orders : RetryOrder(o, f)

Faults ==
  \/ \E o \in Orders : SendRefused(o)
  \/ \E o \in Orders, lost \in BOOLEAN : PublishFailed(o, lost) \/ ApiCrash(o, lost)
  \/ \E w \in Workers : WorkerCrash(w) \/ Sigterm(w)
  \/ \E w \in Workers, p \in Partitions : Evict(w, p)
  \/ RedisLoss \/ BrokerLoss

Next ==
  \/ Client
  \/ \E o \in Orders : ApiStep(o)
  \/ \E o \in Orders, p \in Partitions : BrokerAppend(o, p)
  \/ \E w \in Workers : WorkerStep(w)
  \/ \E w \in Workers, p \in Partitions : Assign(w, p)
  \/ Faults
  \/ Waiting

Spec == Init /\ [][Next]_vars

\* Started requests, the broker, the group coordinator and the workers go on;
\* nobody has to place or retry an order, and no fault has to happen.
Fairness ==
  /\ \A o \in Orders : WF_vars(ApiStep(o))
  /\ \A o \in Orders : WF_vars(\E p \in Partitions : BrokerAppend(o, p))
  /\ \A w \in Workers : WF_vars(WorkerStep(w))
  /\ \A p \in Partitions : WF_vars(\E w \in Workers : Assign(w, p))

FairSpec == Spec /\ Fairness

-------------------------------------------------------------------------------
(***************************************************************************)
(* Properties                                                              *)
(***************************************************************************)
\* Every variable keeps its type; in particular commits never pass the end of
\* a partition.
TypeOK ==
  /\ store \in [Orders -> Records]
  /\ recent \in Seq(Orders)
  /\ job \in [Orders -> Jobs]
  /\ apiPc \in [Orders -> ApiPcs]
  /\ apiSnap \in [Orders -> Records]
  /\ buffer \subseteq Orders
  /\ log \in [Partitions -> Seq(Orders)]
  /\ committed \in [Partitions -> Nat]
  /\ owner \in [Partitions -> Workers \cup {NoWorker}]
  /\ wPc \in [Workers -> WorkerPcs]
  /\ wJob \in [Workers -> Orders \cup {NoOrder}]
  /\ wPart \in [Workers -> Partitions \cup {NoPartition}]
  /\ wSnap \in [Workers -> Records]
  /\ draining \in [Workers -> BOOLEAN]
  /\ executed \in [Orders -> Nat]
  /\ budget \in [left : [BudgetKinds -> Int], spent : SUBSET FaultKinds, lost : SUBSET Orders]

\* At least once: the group never commits past an order that process_job has
\* not run for, whatever workers crash, are evicted or are told to stop.
AtLeastOnce ==
  \A p \in Partitions : \A i \in 1..committed[p] : executed[log[p][i]] > 0

\* An order that the API accepted (2xx) has been processed or is still ahead of
\* the group's committed offset, whatever happens to processes, to the consumer
\* group and to Redis.  One thing loses an accepted order: the broker's pod is
\* replaced and its record was in the topic then.
AcceptedNotLost ==
  \A o \in Orders :
    apiPc[o] = "accepted" =>
      \/ executed[o] > 0
      \/ \E p \in Partitions : \E i \in (committed[p] + 1)..Len(log[p]) : log[p][i] = o
      \/ o \in budget.lost

\* A job is in the topic at most once, timed-out and crashed sends included,
\* so duplicates come from redelivery alone.
PublishedOnce ==
  \A p, q \in Partitions : \A i \in 1..Len(log[p]), k \in 1..Len(log[q]) :
    log[p][i] = log[q][k] => p = q /\ i = k

\* What a record claims has happened: a completed order was processed and was
\* not told to fail; a failed one was processed and told to fail, or its request
\* was answered 503; a recovered one has a retry that was processed; a link
\* marked completed names a processed retry of this very order.
ClaimsTrue(o, rec) ==
  /\ rec.status = "completed" => executed[o] > 0 /\ ~job[o].forceFail
  /\ rec.status = "failed" => (executed[o] > 0 /\ job[o].forceFail) \/ apiPc[o] = "rejected"
  /\ rec.status = "recovered" => \E r \in Orders : job[r].retryOf = o /\ executed[r] > 0
  /\ rec.recoveryStatus = "completed" =>
       job[rec.recoveryJob].retryOf = o /\ executed[rec.recoveryJob] > 0

\* The store shows no outcome that did not happen, although records are
\* overwritten with stale copies by up to four kinds of writer.  In particular a
\* delivered order is shown failed only if its customer was told so: markFailed
\* may write its copy over an outcome, and then the request ends with 503.
StatusJustified == \A o \in Orders : ClaimsTrue(o, store[o])

\* The recovery link of an order names a retry of that order whose record really
\* got into the topic, never one whose publication failed.
LinkPublished ==
  \A o \in Orders :
    LET r == store[o].recoveryJob IN
    r # NoOrder => job[r].retryOf = o /\ Logged(r)

\* Result and error agree with the status: completed orders have a result and
\* no error, failed ones an error, unfinished ones neither.
RecordConsistent ==
  \A o \in Orders : LET rec == store[o] IN
    /\ rec.status = "completed" => rec.result /\ ~rec.error
    /\ rec.status = "failed" => rec.error
    /\ rec.status \in {"queued", "running"} => ~rec.result /\ ~rec.error

\* jobs:recent holds no order twice (metrics would count it twice) and, as long
\* as nothing was trimmed, every stored order whose LPUSH is not pending or
\* lost with its pod.  Holds until Redis loses its data.
ListedOnce ==
  ~Happened("redisLoss") =>
    /\ \A i, k \in 1..Len(recent) : recent[i] = recent[k] => i = k
    /\ Len(recent) < ListCap =>
         \A o \in Orders :
           Exists(store[o]) /\ apiPc[o] \notin {"push", "crashed"} =>
             \E i \in 1..Len(recent) : recent[i] = o

\* jobs:recent exceeds its cap only by the pushes whose trim is still to come
\* or was lost with its pod.
RecentBounded ==
  Len(recent) <= ListCap + Cardinality({o \in Orders : apiPc[o] \in {"trim", "crashed"}})

CommittedOrders ==
  {o \in Orders : \E p \in Partitions : \E i \in 1..committed[p] : log[p][i] = o}

\* Some worker may be handling an order without being in the group for it.
Evicted == Happened("evict") \/ Happened("brokerLoss")

\* Some order may have been delivered late or twice.
Redelivery == Happened("publish") \/ Happened("workerCrash") \/ Evicted

Retried(o) == \E r \in Orders : job[r].retryOf = o

Final == {"completed", "failed", "recovered"}

\* An order that nobody handles and that the group will not be given any more,
\* because it is committed or its request failed before it got to the topic,
\* shows a final status: it is not left queued or running, where it would count
\* as backlog for ever.  Three combinations do leave it there, and no others:
\* a loss of Redis; an eviction, or the end of the group with its broker, and a
\* crash (the evicted worker writes RUNNING after the new owner stored the outcome,
\* and dies); and, for an order that is retried, a late or second delivery
\* (linkRecoveryJob writes back a copy it read while the order ran again).  Of an
\* accepted order whose record the broker lost it says nothing: that one stays.
Settled ==
  \/ Happened("redisLoss")
  \/ Evicted /\ Happened("workerCrash")
  \/ \A o \in Orders :
       /\ o \in CommittedOrders \/ (apiPc[o] = "rejected" /\ ~InLog(o))
       /\ \A w \in Workers : wPc[w] # "idle" => wJob[w] # o
       /\ ~(Retried(o) /\ Redelivery)
       => store[o].status \in Final

\* What is left of a retry, in every state as long as no order is delivered late
\* or twice: the original is failed or recovered and names a retry once one was
\* accepted (unless Redis lost it), and a recovery marked completed is never shown
\* next to any other status.  (That the original ends recovered is not true: see
\* RetryRecovers.)
RetryLeavesTrace ==
  ~Redelivery =>
    /\ ~Happened("redisLoss") =>
         \A r \in Orders : LET f == job[r].retryOf IN
           f # NoOrder =>
             /\ store[f].status \in {"failed", "recovered"}
             /\ apiPc[r] = "accepted" => store[f].recoveryJob # NoOrder
    /\ \A o \in Orders :
         store[o].recoveryStatus = "completed" => store[o].status = "recovered"

shown == [o \in Orders |-> store[o].status]

Lifecycle == INSTANCE OrderLifecycle WITH status <- shown

Quiet == ~Redelivery /\ ~Happened("redisLoss")

\* While no order is delivered late or twice and Redis keeps its data, the status
\* of every order goes the way that customers and dashboard take for granted, one
\* transition at a time, although five kinds of writer set whole records.
FollowsLifecycle ==
  Lifecycle!Init /\ [][Quiet' => [Lifecycle!Next]_shown]_vars

\* A request that has begun ends, and an order whose record got into the topic
\* is eventually committed and finally shows a final status, for good.
RequestsEnd == \A o \in Orders : apiPc[o] # "unused" ~> apiPc[o] \in ApiDone

EventuallySettled ==
  <>[](\A o \in Orders :
         InLog(o) => o \in CommittedOrders /\ store[o].status \in Final)

\* The pipeline implements the abstract queue: what got into the topic is
\* published, process_job handles, the commit settles, and the broker that loses
\* its log forgets.  The queue's liveness is implemented while nothing is forgotten.
Queue == INSTANCE AtLeastOnceQueue WITH
           published <- {o \in Orders : Logged(o)},
           accepted  <- {o \in Orders : apiPc[o] = "accepted"},
           handled   <- {o \in Orders : executed[o] > 0},
           settled   <- CommittedOrders

QueueSpec == Queue!Spec

\* Nobody is about to write order o's record.
AtRest(o) ==
  /\ \A w \in Workers : wPc[w] # "idle" => wJob[w] # o /\ job[wJob[w]].retryOf # o
  /\ apiPc[o] \notin {"markRead", "markWrite"}
  /\ \A r \in Orders : job[r].retryOf = o => apiPc[r] \notin {"linkRead", "linkWrite"}

\* "the retry endpoint proves business-level recovery by converting that
\* original order to recovered" (the walkthrough): once a retry was accepted,
\* processed and committed, and nobody is still writing, the original is
\* recovered.
RetryRecovers ==
  \A r \in CommittedOrders : LET f == job[r].retryOf IN
    f # NoOrder /\ apiPc[r] = "accepted" /\ AtRest(f) => store[f].status = "recovered"

\* "A retry is allowed only when the original order is actually failed" (the
\* walkthrough): an order that was retried has not been delivered itself.
RetriedOnlyIfFailed ==
  \A r \in Orders : LET f == job[r].retryOf IN
    f # NoOrder => job[f].forceFail \/ executed[f] = 0
===============================================================================
